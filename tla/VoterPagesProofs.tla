-------------------------- MODULE VoterPagesProofs ---------------------------
(***************************************************************************)
(* Theorems about the pages that voters stay on and the server's reading   *)
(* of turnout: the voting page of one browser tab first, then turnout, the *)
(* results page and what follows for the pages together; for any numbers   *)
(* of users, elections, forms, sessions, ballots, requests and events.     *)
(***************************************************************************)
EXTENDS VoterPages, FiniteSetTheorems, TLAPS

-----------------------------------------------------------------------------
(* One slot of the cache, whatever is done to it. `version' is how far the    *)
(* server has come, `sessions' the users of the sessions opened so far,       *)
(* `votes' who has voted in which election, `past' the sessions the browser   *)
(* has had since the slot was last emptied.                                   *)

Requests ==
  [state : {"none", "sent", "answered"}, live : BOOLEAN, session : Nat,
   answer : ServerAnswers \union {Null}]

Slots ==
  [data : VotingStates \union {Null}, error : BOOLEAN, inflight : Callers \union {Null}, since : Int,
   request : [Callers -> Requests]]

\* What is answered is a voting state of the user of the session that was sent.
AnsweredOK(r, sessions, votes) ==
  /\ r.answer \in ServerAnswers
  /\ r.answer.kind = "state" =>
       /\ r.session \in DOMAIN sessions /\ r.answer.state.voter = sessions[r.session]
       /\ r.answer.state.hasVoted => <<r.answer.state.voter, r.answer.state.open>> \in votes

RequestsOK(slot, sessions, votes) ==
  \A c \in Callers :
    LET r == slot.request[c]
    IN /\ r.live <=> slot.inflight = c
       /\ r.state = "none" => ~r.live
       /\ r.state # "answered" => r.answer = Null
       /\ r.state = "answered" => AnsweredOK(r, sessions, votes)
       /\ r.live /\ r.state = "answered" /\ r.answer.kind = "state" => r.answer.state.version >= slot.since

SlotOK(slot, version, sessions, votes) ==
  /\ slot \in Slots /\ slot.since <= version
  /\ RequestsOK(slot, sessions, votes)
  /\ slot.data # Null /\ slot.inflight = Null /\ ~slot.error => slot.data.version >= slot.since
  /\ slot.inflight = "load" => slot.data = Null

\* Nothing in the slot, or on its way to it, is of another session than those.
Owned(slot, past, sessions) ==
  /\ slot.data # Null => \E s \in past : s \in DOMAIN sessions /\ slot.data.voter = sessions[s]
  /\ \A c \in Callers : slot.request[c].live => slot.request[c].session \in past

\* Requests that are as they were, but for being the live one.
Outdates(new, slot, c) ==
  /\ slot.request[c] \in Requests /\ new.request[c] \in Requests
  /\ ~new.request[c].live /\ new.request[c].state = slot.request[c].state
  /\ new.request[c].session = slot.request[c].session
  /\ new.request[c].answer = slot.request[c].answer

\* What invalidating makes of a slot.
IsInvalidated(new, slot, version) ==
  /\ new \in Slots
  /\ new.data = Null /\ new.error = FALSE /\ new.inflight = Null /\ new.since = version
  /\ \A c \in Callers : Outdates(new, slot, c)

LEMMA InvalidatedFields ==
  ASSUME NEW slot \in Slots, NEW version \in Int
  PROVE  IsInvalidated(Invalidated(slot, version), slot, version)
<1> DEFINE requests == Outdated(slot)
           none == [c \in Callers |-> NoRequest]
           new == Invalidated(slot, version)
<1>1. ASSUME NEW c \in Callers
      PROVE  /\ slot.request[c] \in Requests /\ requests[c] \in Requests /\ ~requests[c].live
             /\ requests[c].state = slot.request[c].state /\ requests[c].session = slot.request[c].session
             /\ requests[c].answer = slot.request[c].answer
  <2>1. slot.request[c] \in Requests
    BY DEF Slots
  <2>2. requests[c] = [slot.request[c] EXCEPT !.live = FALSE]
    BY DEF Outdated
  <2>3. QED
    BY <2>1, <2>2 DEF Requests
<1>2. requests \in [Callers -> Requests]
  BY <1>1 DEF Outdated
<1>3. new = [[data |-> Null, error |-> FALSE, inflight |-> Null, since |-> 0, request |-> none]
               EXCEPT !.request = requests, !.since = version]
  BY DEF Invalidated, EmptySlot
<1> HIDE DEF requests, none
<1>4. new = [data |-> Null, error |-> FALSE, inflight |-> Null, since |-> version, request |-> requests]
  BY <1>3
<1> HIDE DEF new
<1>5. /\ new \in Slots /\ new.request = requests
      /\ new.data = Null /\ new.error = FALSE /\ new.inflight = Null /\ new.since = version
  BY <1>2, <1>4 DEF Slots
<1>6. QED
  BY <1>1, <1>5 DEF IsInvalidated, Outdates, new

LEMMA InvalidatedOK ==
  ASSUME NEW slot, NEW version \in Int, NEW sessions, NEW votes, SlotOK(slot, version, sessions, votes)
  PROVE  LET new == Invalidated(slot, version)
         IN SlotOK(new, version, sessions, votes) /\ \A past : Owned(new, past, sessions)
<1> DEFINE new == Invalidated(slot, version)
<1>1. IsInvalidated(new, slot, version)
  BY InvalidatedFields DEF SlotOK
<1> HIDE DEF new
<1>2. RequestsOK(new, sessions, votes)
  BY <1>1, AbsenceAssumption DEF IsInvalidated, Outdates, SlotOK, RequestsOK, AnsweredOK
<1>3. SlotOK(new, version, sessions, votes)
  BY <1>1, <1>2, CallersAssumption, AbsenceAssumption DEF IsInvalidated, SlotOK
<1>4. \A past : Owned(new, past, sessions)
  BY <1>1 DEF IsInvalidated, Outdates, Owned
<1>5. QED
  BY <1>3, <1>4 DEF new

\* What a forced fetch makes of a slot: the caller's request is the live one.
IsSent(new, slot, caller, session, version) ==
  /\ new \in Slots
  /\ new.data = slot.data /\ new.error = FALSE /\ new.inflight = caller /\ new.since = version
  /\ new.request[caller] = [state |-> "sent", live |-> TRUE, session |-> session, answer |-> Null]
  /\ \A c \in Callers \ {caller} : Outdates(new, slot, c)

LEMMA SentFields ==
  ASSUME NEW slot \in Slots, NEW caller \in Callers, NEW session \in Nat, NEW version \in Int
  PROVE  IsSent(Sent(slot, caller, session, version), slot, caller, session, version)
<1> DEFINE sent == [state |-> "sent", live |-> TRUE, session |-> session, answer |-> Null]
           outdated == Outdated(slot)
           requests == [outdated EXCEPT ![caller] = sent]
           new == Sent(slot, caller, session, version)
<1>1. new = [slot EXCEPT !.error = FALSE, !.inflight = caller, !.since = version, !.request = requests]
  BY DEF Sent
<1>2. outdated = [c \in Callers |-> [slot.request[c] EXCEPT !.live = FALSE]]
  BY DEF Outdated
<1>3. requests[caller] = sent /\ \A c \in Callers \ {caller} : requests[c] = [slot.request[c] EXCEPT !.live = FALSE]
  BY <1>2
<1>4. requests = [c \in Callers |-> requests[c]]
  BY <1>2
<1>5. sent \in Requests
  BY DEF Requests
<1> HIDE DEF requests, outdated, sent
<1>6. new = [data |-> slot.data, error |-> FALSE, inflight |-> caller, since |-> version, request |-> requests]
  BY <1>1 DEF Slots
<1> HIDE DEF new
<1>7. /\ new.data = slot.data /\ new.error = FALSE /\ new.inflight = caller /\ new.since = version
      /\ new.request = requests
  BY <1>6
<1>8. ASSUME NEW c \in Callers \ {caller}
      PROVE  /\ slot.request[c] \in Requests /\ requests[c] \in Requests
             /\ ~requests[c].live /\ requests[c].state = slot.request[c].state
             /\ requests[c].session = slot.request[c].session /\ requests[c].answer = slot.request[c].answer
  <2>1. slot.request[c] \in Requests
    BY DEF Slots
  <2>2. requests[c] = [slot.request[c] EXCEPT !.live = FALSE]
    BY <1>3
  <2>3. QED
    BY <2>1, <2>2 DEF Requests
<1>9. requests \in [Callers -> Requests]
  BY <1>3, <1>4, <1>5, <1>8
<1>10. new \in Slots
  BY <1>6, <1>9 DEF Slots
<1>11. QED
  BY <1>3, <1>7, <1>8, <1>10 DEF new, sent, IsSent, Outdates

LEMMA SentOK ==
  ASSUME NEW slot, NEW before, NEW version \in Int, NEW sessions, NEW votes,
         SlotOK(slot, before, sessions, votes),
         NEW caller \in Callers, NEW session \in Nat, caller = "load" => slot.data = Null
  PROVE  LET new == Sent(slot, caller, session, version)
         IN /\ SlotOK(new, version, sessions, votes)
            /\ \A past : session \in past /\ Owned(slot, past, sessions) => Owned(new, past, sessions)
<1> DEFINE new == Sent(slot, caller, session, version)
<1>1. slot \in Slots
  BY DEF SlotOK
<1>2. IsSent(new, slot, caller, session, version)
  BY <1>1, SentFields
<1> HIDE DEF new
<1>3. RequestsOK(new, sessions, votes)
  BY <1>2 DEF IsSent, Outdates, SlotOK, RequestsOK, AnsweredOK
<1>4. SlotOK(new, version, sessions, votes)
  BY <1>2, <1>3, CallersAssumption, AbsenceAssumption DEF IsSent, SlotOK
<1>5. \A past : session \in past /\ Owned(slot, past, sessions) => Owned(new, past, sessions)
  BY <1>2 DEF IsSent, Outdates, Owned
<1>6. QED
  BY <1>4, <1>5 DEF new

\* What an answer of the server to a request under way makes of a slot.
IsAnswered(new, slot, caller, answer) ==
  /\ new \in Slots
  /\ new.data = slot.data /\ new.error = slot.error /\ new.inflight = slot.inflight /\ new.since = slot.since
  /\ new.request[caller].state = "answered" /\ new.request[caller].answer = answer
  /\ new.request[caller].live = slot.request[caller].live
  /\ new.request[caller].session = slot.request[caller].session
  /\ \A c \in Callers \ {caller} : new.request[c] = slot.request[c]

LEMMA AnsweredFields ==
  ASSUME NEW slot \in Slots, NEW caller \in Callers, NEW answer \in ServerAnswers
  PROVE  IsAnswered(Answered(slot, caller, answer), slot, caller, answer)
<1> DEFINE new == Answered(slot, caller, answer)
           request == [slot.request[caller] EXCEPT !.state = "answered", !.answer = answer]
           requests == [slot.request EXCEPT ![caller] = request]
<1>1. slot.request \in [Callers -> Requests] /\ slot.request[caller] \in Requests
  BY DEF Slots
<1>2. request \in Requests /\ request.live = slot.request[caller].live
      /\ request.session = slot.request[caller].session /\ request.state = "answered" /\ request.answer = answer
  BY <1>1 DEF Requests
<1>3. new = [slot EXCEPT !.request = requests]
  BY <1>1 DEF Answered, Slots, Requests
<1> HIDE DEF request
<1>4. /\ requests \in [Callers -> Requests] /\ requests[caller] = request
      /\ \A c \in Callers \ {caller} : requests[c] = slot.request[c]
  BY <1>1, <1>2
<1> HIDE DEF requests
<1>5. new = [data |-> slot.data, error |-> slot.error, inflight |-> slot.inflight, since |-> slot.since,
             request |-> requests]
  BY <1>3 DEF Slots
<1> HIDE DEF new
<1>6. /\ new.data = slot.data /\ new.error = slot.error /\ new.inflight = slot.inflight /\ new.since = slot.since
      /\ new.request = requests
  BY <1>5
<1>7. new \in Slots
  BY <1>4, <1>5 DEF Slots
<1>8. QED
  BY <1>2, <1>4, <1>6, <1>7 DEF IsAnswered, new

LEMMA AnsweredSlotOK ==
  ASSUME NEW slot, NEW version \in Int, NEW sessions, NEW votes, SlotOK(slot, version, sessions, votes),
         NEW caller \in Callers, NEW answer \in ServerAnswers,
         answer.kind = "state" =>
           /\ answer.state.version >= version
           /\ slot.request[caller].session \in DOMAIN sessions
           /\ answer.state.voter = sessions[slot.request[caller].session]
           /\ answer.state.hasVoted => <<answer.state.voter, answer.state.open>> \in votes,
         slot.request[caller].state # "none"
  PROVE  LET new == Answered(slot, caller, answer)
         IN /\ SlotOK(new, version, sessions, votes)
            /\ \A past : Owned(slot, past, sessions) => Owned(new, past, sessions)
<1> DEFINE new == Answered(slot, caller, answer)
<1>1. IsAnswered(new, slot, caller, answer)
  BY AnsweredFields DEF SlotOK
<1> HIDE DEF new
<1>2. AnsweredOK(new.request[caller], sessions, votes)
  BY <1>1 DEF IsAnswered, AnsweredOK
<1>3. answer.kind = "state" => answer.state.version >= new.since
  <2>1. version >= slot.since /\ slot.since \in Int
    BY DEF SlotOK, Slots
  <2>2. answer.kind = "state" => answer.state.version \in Int
    BY DEF ServerAnswers, VotingStates
  <2>3. QED
    BY <1>1, <2>1, <2>2 DEF IsAnswered
<1>4. RequestsOK(new, sessions, votes)
  BY <1>1, <1>2, <1>3 DEF IsAnswered, SlotOK, RequestsOK
<1>5. SlotOK(new, version, sessions, votes)
  BY <1>1, <1>4 DEF IsAnswered, SlotOK
<1>6. \A past : Owned(slot, past, sessions) => Owned(new, past, sessions)
  BY <1>1 DEF IsAnswered, Owned
<1>7. QED
  BY <1>5, <1>6 DEF new

\* What the end of a fetch makes of a slot: only the live one changes more than its request.
IsResolved(new, slot, caller, answer, succeeded) ==
  /\ new \in Slots
  /\ new.since = slot.since /\ new.request[caller] = NoRequest
  /\ \A c \in Callers \ {caller} : new.request[c] = slot.request[c]
  /\ new.data = IF slot.request[caller].live /\ succeeded THEN answer ELSE slot.data
  /\ new.inflight = IF slot.request[caller].live THEN Null ELSE slot.inflight
  /\ new.error = IF slot.request[caller].live /\ ~succeeded THEN TRUE ELSE slot.error

LEMMA ResolvedFields ==
  ASSUME NEW slot \in Slots, NEW caller \in Callers, NEW answer \in VotingStates \union {Null},
         NEW succeeded \in BOOLEAN
  PROVE  IsResolved(Resolved(slot, caller, answer, succeeded), slot, caller, answer, succeeded)
<1> DEFINE new == Resolved(slot, caller, answer, succeeded)
           live == slot.request[caller].live
           requests == [slot.request EXCEPT ![caller] = NoRequest]
           data == IF live /\ succeeded THEN answer ELSE slot.data
           inflight == IF live THEN Null ELSE slot.inflight
           error == IF live /\ ~succeeded THEN TRUE ELSE slot.error
<1>1. slot.request \in [Callers -> Requests] /\ NoRequest \in Requests
  BY DEF Slots, NoRequest, Requests
<1>2. /\ requests \in [Callers -> Requests] /\ requests[caller] = NoRequest
      /\ \A c \in Callers \ {caller} : requests[c] = slot.request[c]
  BY <1>1
<1>3. [slot EXCEPT !.request[caller] = NoRequest] =
        [data |-> slot.data, error |-> slot.error, inflight |-> slot.inflight, since |-> slot.since,
         request |-> requests]
  BY DEF Slots
<1> HIDE DEF requests
<1>4. new = [data |-> data, error |-> error, inflight |-> inflight, since |-> slot.since, request |-> requests]
  BY <1>3 DEF Resolved
<1>5. data \in VotingStates \union {Null} /\ error \in BOOLEAN /\ inflight \in Callers \union {Null}
      /\ slot.since \in Int
  BY DEF Slots
<1> HIDE DEF data, error, inflight, new
<1>6. /\ new.data = data /\ new.error = error /\ new.inflight = inflight /\ new.since = slot.since
      /\ new.request = requests
  BY <1>4
<1>7. new \in Slots
  BY <1>2, <1>4, <1>5 DEF Slots
<1>8. QED
  BY <1>2, <1>6, <1>7 DEF IsResolved, new, data, error, inflight

LEMMA ResolvedOK ==
  ASSUME NEW slot, NEW version \in Int, NEW sessions \in Seq(Users), NEW votes,
         SlotOK(slot, version, sessions, votes),
         NEW caller \in Callers, slot.request[caller].state = "answered"
  PROVE  LET answer == slot.request[caller].answer
             new == Resolved(slot, caller, answer.state, answer.kind = "state")
         IN /\ IsResolved(new, slot, caller, answer.state, answer.kind = "state")
            /\ SlotOK(new, version, sessions, votes)
            /\ \A past : Owned(slot, past, sessions) => Owned(new, past, sessions)
<1> DEFINE answer == slot.request[caller].answer
           new == Resolved(slot, caller, answer.state, answer.kind = "state")
<1>1. answer \in ServerAnswers /\ AnsweredOK(slot.request[caller], sessions, votes)
  BY DEF SlotOK, RequestsOK, AnsweredOK
<1>2. answer.state \in VotingStates \union {Null} /\ (answer.kind = "state") \in BOOLEAN
      /\ (answer.kind = "state" => answer.state \in VotingStates)
  BY <1>1 DEF ServerAnswers
<1>3. IsResolved(new, slot, caller, answer.state, answer.kind = "state")
  BY <1>2, ResolvedFields DEF SlotOK
<1> HIDE DEF new
<1>4. RequestsOK(new, sessions, votes)
  BY <1>3, AbsenceAssumption DEF IsResolved, SlotOK, RequestsOK, NoRequest
<1>5. SlotOK(new, version, sessions, votes)
  BY <1>3, <1>4, CallersAssumption, AbsenceAssumption DEF IsResolved, SlotOK, RequestsOK
<1>6. ASSUME NEW past, Owned(slot, past, sessions) PROVE Owned(new, past, sessions)
  <2>1. new.data # Null => \E s \in past : s \in DOMAIN sessions /\ new.data.voter = sessions[s]
    BY <1>1, <1>3, <1>6 DEF IsResolved, Owned, AnsweredOK
  <2>2. \A c \in Callers : new.request[c].live => new.request[c].session \in past
    BY <1>3, <1>6 DEF IsResolved, Owned, NoRequest
  <2>3. QED
    BY <2>1, <2>2 DEF Owned
<1>7. QED
  BY <1>3, <1>5, <1>6 DEF new

\* The server goes on, and sessions are opened.
LEMMA SlotOKLater ==
  ASSUME NEW slot, NEW version \in Int, NEW later \in Int, version <= later,
         NEW sessions \in Seq(Users), NEW more \in Seq(Users),
         \A i \in DOMAIN sessions : i \in DOMAIN more /\ more[i] = sessions[i],
         NEW votes, NEW counts, votes \subseteq counts,
         SlotOK(slot, version, sessions, votes)
  PROVE  /\ SlotOK(slot, later, more, counts)
         /\ \A past : Owned(slot, past, sessions) => Owned(slot, past, more)
<1>1. slot.since <= later
  BY DEF SlotOK, Slots
<1>2. RequestsOK(slot, more, counts)
  BY DEF SlotOK, RequestsOK, AnsweredOK
<1>3. QED
  BY <1>1, <1>2 DEF SlotOK, Owned

-----------------------------------------------------------------------------
(* The server and the sessions.                                               *)

ServerInv ==
  /\ status \in [ElectionIds -> {"draft", "open", "closed"}] /\ form \in [ElectionIds -> Forms]
  /\ counted \subseteq Users \X ElectionIds /\ IsFiniteSet(counted)
  /\ \A e, f \in OpenElections : e = f
  /\ budget \in [Events -> Nat]

SessionInv ==
  /\ holders \in Seq(Users) /\ valid \subseteq DOMAIN holders /\ cookie \in {0} \union DOMAIN holders
  /\ auth \in [started : BOOLEAN, user : Users \union {Null}, loading : BOOLEAN, failed : BOOLEAN]
  /\ bootstrap \in [answer : {"none", "user", "lost"}, user : Users \union {Null}]

PageData == [state : VotingStates \union {Null}, error : BOOLEAN]

PageInv == route \in {"voting", "auth"} /\ load \in Callers \union {Null} /\ pageData \in PageData

\* The browser's session is one it has had since the cache was emptied, and the only
\* thing it has had since is no session, once a logout has reached the tab.
PastOK == cookie \in had /\ (~posted /\ ~frozen /\ cookie = 0 => had = {0})

CacheInv ==
  /\ ServerInv /\ SessionInv /\ PageInv /\ PastOK
  /\ SlotOK(cache, Version, holders, counted) /\ Owned(cache, had, holders)

LEMMA VersionType == ASSUME ServerInv PROVE Version \in Int
BY FS_CardinalityType DEF ServerInv, Version, Events

\* Steps that no voting state shows.
ServerRests == UNCHANGED serverVars /\ (UNCHANGED budget \/ \E ev \in Events \ {"change"} : Spend(ev))

LEMMA RestingSteps ==
  ASSUME Next
  PROVE  \/ ServerRests
         \/ Administrators
         \/ \E u \in Users, e \in ElectionIds : CastElsewhere(u, e)
         \/ ServeSubmission
<1>1. CASE Elsewhere
  <2>1. CASE LogoutElsewhere \/ RevokeSession
    BY <2>1 DEF LogoutElsewhere, RevokeSession, ServerRests, Events
  <2>2. ASSUME NEW u \in Users, LoginElsewhere(u) PROVE ServerRests
    BY <2>2 DEF LoginElsewhere, ServerRests, Events
  <2>3. QED
    BY <1>1, <2>1, <2>2 DEF Elsewhere
<1>2. CASE Session
  <2>1. CASE Start \/ Retry
    BY <2>1 DEF Start, Retry, ServerRests
  <2>2. CASE DeliverBootstrap \/ ReceiveLogout \/ FinishLogout
    BY <2>2 DEF DeliverBootstrap, ReceiveLogout, FinishLogout, ServerRests
  <2>3. CASE Hide \/ Show \/ ClickLogout
    BY <2>3 DEF Hide, Show, ClickLogout, ServerRests, Events
  <2>4. ASSUME NEW u \in Users, Login(u) PROVE ServerRests
    BY <2>4 DEF Login, ServerRests, Events
  <2>5. QED
    BY <1>2, <2>1, <2>2, <2>3, <2>4 DEF Session
<1>3. CASE Page
  <2>1. CASE DeliverLoad \/ DeliverReconciliation \/ DeliverRefresh
    <3>1. \E c \in Callers : Delivering(c)
      BY <2>1, CallersAssumption DEF DeliverLoad, DeliverReconciliation, DeliverRefresh
    <3>2. QED
      BY <3>1 DEF Delivering, ServerRests
  <2>2. CASE ClickSubmit \/ CountdownZero
    BY <2>2 DEF ClickSubmit, CountdownZero, ServerRests, Events
  <2>3. CASE DeliverSubmission \/ FinishSubmission \/ FinishRefresh \/ RefreshAgain \/ FillIn
    BY <2>3 DEF DeliverSubmission, FinishSubmission, FinishRefresh, RefreshAgain, FillIn, ServerRests
  <2>4. QED
    BY <1>3, <2>1, <2>2, <2>3 DEF Page
<1>4. ASSUME NEW c \in Callers, Serve(c) PROVE ServerRests
  BY <1>4 DEF Serve, ServerRests
<1>5. QED
  BY <1>1, <1>2, <1>3, <1>4 DEF Next, Network

\* A ballot that is counted and a status that changes both count as progress.
LEMMA CountedLater ==
  ASSUME ServerInv, NEW u \in Users, NEW e \in ElectionIds,
         counted' = counted \union {<<u, e>>}, budget' = budget \/ \E ev \in Events \ {"change"} : Spend(ev),
         UNCHANGED <<status, form>>
  PROVE  ServerInv' /\ Version <= Version'
<1>1. IsFiniteSet(counted') /\ Cardinality(counted) <= Cardinality(counted')
  <2> DEFINE ballot == <<u, e>>
  <2>1. IsFiniteSet(counted) /\ Cardinality(counted) \in Nat /\ counted' = counted \union {ballot}
    BY FS_CardinalityType DEF ServerInv
  <2> HIDE DEF ballot
  <2>2. /\ IsFiniteSet(counted \union {ballot})
        /\ Cardinality(counted \union {ballot}) = IF ballot \in counted THEN Cardinality(counted) ELSE Cardinality(counted) + 1
    BY <2>1, FS_AddElement
  <2>3. QED
    BY <2>1, <2>2
<1>2. budget' \in [Events -> Nat] /\ budget'["change"] = budget["change"]
  BY DEF ServerInv, Spend, Events
<1>3. Version <= Version'
  BY <1>1, <1>2, FS_CardinalityType DEF ServerInv, Version, Events
<1>4. QED
  BY <1>1, <1>2, <1>3 DEF ServerInv, OpenElections

LEMMA ServerStep ==
  ASSUME ServerInv, SessionInv, Next
  PROVE  ServerInv' /\ Version <= Version' /\ counted \subseteq counted'
<1>1. CASE ServerRests
  <2>1. budget' \in [Events -> Nat] /\ budget'["change"] = budget["change"]
    BY <1>1 DEF ServerInv, ServerRests, Spend, Events
  <2>2. QED
    BY <1>1, <2>1, VersionType DEF ServerInv, ServerRests, serverVars, OpenElections, Version
<1>2. CASE Administrators
  <2>1. PICK e \in ElectionIds : CloseElection(e) \/ BackToDraft(e) \/ OpenElection(e)
    BY <1>2 DEF Administrators
  <2>2. \E from, to \in {"draft", "open", "closed"} :
          ChangeStatus(e, from, to) /\ (to = "open" => OpenElections = {})
    BY <2>1 DEF CloseElection, BackToDraft, OpenElection
  <2>3. PICK to \in {"draft", "open", "closed"} :
          /\ status' = [status EXCEPT ![e] = to] /\ (to = "open" => OpenElections = {})
          /\ Spend("change") /\ UNCHANGED counted
    BY <2>2 DEF ChangeStatus
  <2>4. form' \in [ElectionIds -> Forms]
    BY <2>1 DEF CloseElection, BackToDraft, OpenElection, ServerInv
  <2>5. \A f, g \in OpenElections' : f = g
    BY <2>3 DEF ServerInv, OpenElections
  <2>6. budget' \in [Events -> Nat] /\ budget'["change"] = budget["change"] - 1 /\ budget["change"] \in Nat
    BY <2>3 DEF ServerInv, Spend, Events
  <2>7. Version <= Version'
    BY <2>3, <2>6, FS_CardinalityType DEF ServerInv, Version
  <2>8. QED
    BY <2>3, <2>4, <2>5, <2>6, <2>7 DEF ServerInv
<1>3. ASSUME NEW u \in Users, NEW e \in ElectionIds, CastElsewhere(u, e)
      PROVE  ServerInv' /\ Version <= Version' /\ counted \subseteq counted'
  BY <1>3, CountedLater DEF CastElsewhere, Events
<1>4. CASE ServeSubmission
  <2> DEFINE u == HolderOf(submit.session)
  <2>1. UNCHANGED <<status, form, budget>>
    BY <1>4 DEF ServeSubmission
  <2>2. \/ UNCHANGED counted
        \/ u # Null /\ submit.election \in OpenElections /\ counted' = counted \union {<<u, submit.election>>}
    BY <1>4 DEF ServeSubmission
  <2>3. u # Null => u \in Users
    BY DEF SessionInv, HolderOf
  <2>4. CASE UNCHANGED counted
    BY <2>1, <2>4, VersionType DEF ServerInv, OpenElections, Version
  <2>5. CASE u # Null /\ submit.election \in OpenElections /\ counted' = counted \union {<<u, submit.election>>}
    BY <2>1, <2>3, <2>5, CountedLater DEF OpenElections
  <2>6. QED
    BY <2>2, <2>4, <2>5
<1>5. QED
  BY <1>1, <1>2, <1>3, <1>4, RestingSteps

-----------------------------------------------------------------------------
(* The cache of the tab.                                                      *)

Good(slot) == SlotOK(slot, Version, holders, counted)

LEMMA RestingVersion ==
  ASSUME ServerInv, ServerRests PROVE Version' = Version /\ UNCHANGED <<status, form, counted>>
BY VersionType DEF ServerInv, ServerRests, serverVars, Spend, Version, Events

LEMMA SessionType == ASSUME SessionInv PROVE cookie \in Nat /\ 0 \notin DOMAIN holders
BY DEF SessionInv

\* The state a user is shown is one there can be.
LEMMA VotingStateOfType ==
  ASSUME ServerInv, NEW u \in Users
  PROVE  /\ VotingStateOf(u) \in VotingStates /\ VotingStateOf(u).voter = u /\ VotingStateOf(u).version = Version
         /\ VotingStateOf(u).open = (IF OpenElections = {} THEN Null ELSE CHOOSE e \in OpenElections : TRUE)
         /\ VotingStateOf(u).hasVoted =>
              VotingStateOf(u).open # Null /\ <<u, VotingStateOf(u).open>> \in counted
         /\ \A e \in ElectionIds : VotingStateOf(u).open = e /\ HasVoted(u, e) => VotingStateOf(u).hasVoted
<1> DEFINE open == IF OpenElections = {} THEN Null ELSE CHOOSE e \in OpenElections : TRUE
           shown == IF open = Null THEN << >> ELSE form[open]
           next == \E e \in ElectionIds : status[e] = "draft"
           voted == open # Null /\ HasVoted(u, open)
<1>1. open \in ElectionIds \union {Null}
  BY DEF OpenElections
<1>2. shown \in Forms \union {<< >>}
  BY <1>1 DEF ServerInv
<1>3. Version \in Int /\ next \in BOOLEAN /\ voted \in BOOLEAN
  BY VersionType DEF HasVoted
<1>4. VotingStateOf(u) = [voter |-> u, open |-> open, version |-> Version, form |-> shown, next |-> next, hasVoted |-> voted]
  BY DEF VotingStateOf
<1>5. voted => open # Null /\ <<u, open>> \in counted
  BY DEF HasVoted
<1>6. \A e \in ElectionIds : open = e /\ HasVoted(u, e) => voted
  BY AbsenceAssumption
<1> HIDE DEF open, shown, next, voted
<1>7. VotingStateOf(u) \in VotingStates
  BY <1>1, <1>2, <1>3, <1>4 DEF VotingStates
<1>8. QED
  BY <1>4, <1>5, <1>6, <1>7 DEF open

LEMMA LoadingOK ==
  ASSUME ServerInv, SessionInv, NEW slot, Good(slot), NEW data \in PageData
  PROVE  LET l == Loading(slot, data)
         IN /\ Good(l.cache) /\ l.load \in Callers \union {Null} /\ l.data \in PageData
            /\ \A past : cookie \in past /\ Owned(slot, past, holders) => Owned(l.cache, past, holders)
<1>1. "load" \in Callers /\ cookie \in Nat /\ Version \in Int
  BY CallersAssumption, SessionType, VersionType
<1>2. slot \in Slots
  BY DEF Good, SlotOK
<1>3. CASE slot.data # Null
  BY <1>2, <1>3 DEF Loading, Slots, PageData
<1>4. CASE slot.data = Null /\ slot.inflight # Null
  BY <1>2, <1>4 DEF Loading, Slots
<1>5. CASE slot.data = Null /\ slot.inflight = Null
  <2>1. LET new == Sent(slot, "load", cookie, Version)
        IN Good(new) /\ \A past : cookie \in past /\ Owned(slot, past, holders) => Owned(new, past, holders)
    BY <1>1, <1>5, SentOK DEF Good
  <2>2. QED
    BY <1>1, <1>5, <2>1 DEF Loading
<1>6. QED
  BY <1>3, <1>4, <1>5

\* The slot that a fetch settles: the cache, emptied first if the session was refused.
Before(c) == IF Settled(c).signsOut THEN Invalidated(cache, Version) ELSE cache

PastAfter(c) == IF Settled(c).signsOut THEN {cookie} ELSE had

LEMMA BeforeOK ==
  ASSUME CacheInv, NEW c \in Callers, cache.request[c].state = "answered"
  PROVE  /\ Good(Before(c)) /\ Before(c).request[c].state = "answered"
         /\ Before(c).request[c].answer = cache.request[c].answer
         /\ Owned(Before(c), PastAfter(c), holders)
<1>1. Version \in Int /\ cache \in Slots
  BY VersionType DEF CacheInv, SlotOK
<1>2. CASE Settled(c).signsOut
  <2> DEFINE new == Invalidated(cache, Version)
  <2>1. IsInvalidated(new, cache, Version) /\ Good(new) /\ Owned(new, PastAfter(c), holders)
    BY <1>1, InvalidatedFields, InvalidatedOK DEF CacheInv, Good
  <2> HIDE DEF new
  <2>2. Good(new) /\ new.request[c].state = "answered" /\ new.request[c].answer = cache.request[c].answer
    BY <2>1 DEF IsInvalidated, Outdates
  <2>3. Before(c) = new
    BY <1>2 DEF Before, new
  <2>4. QED
    BY <2>1, <2>2, <2>3
<1>3. CASE ~Settled(c).signsOut
  BY <1>3 DEF Before, PastAfter, CacheInv, Good
<1>4. QED
  BY <1>2, <1>3

LEMMA SettledOK ==
  ASSUME CacheInv, NEW c \in Callers, cache.request[c].state = "answered"
  PROVE  LET d == Settled(c)
             a == cache.request[c].answer
         IN /\ IsResolved(d.slot, Before(c), c, a.state, a.kind = "state")
            /\ a \in ServerAnswers
            /\ d.signsOut <=> a.kind = "unauthorized"
            /\ d.result = (IF Before(c).request[c].live /\ a.kind = "state" THEN a.state ELSE Null)
            /\ Good(d.slot) /\ d.load \in Callers \union {Null} /\ d.route \in {"voting", "auth"}
            /\ d.data \in PageData
            /\ Owned(d.slot, PastAfter(c), holders)
<1> DEFINE d == Settled(c)
           a == cache.request[c].answer
<1>1. a \in ServerAnswers /\ a.state \in VotingStates \union {Null} /\ (a.kind = "state" => a.state \in VotingStates)
  BY DEF CacheInv, SlotOK, RequestsOK, AnsweredOK, ServerAnswers
<1>2. /\ d.signsOut = (a.kind = "unauthorized")
      /\ d.slot = Resolved(Before(c), c, a.state, a.kind = "state")
      /\ d.result = ResultOf(Before(c), c, a.state, a.kind = "state")
      /\ d.load = (IF d.leaves \/ load = c THEN Null ELSE load)
      /\ d.route = (IF d.leaves THEN "auth" ELSE IF load = c THEN "voting" ELSE route)
      /\ d.data = (IF load = c /\ ~d.leaves THEN [state |-> d.result, error |-> d.result = Null] ELSE pageData)
  BY DEF Settled, Before
<1>3. /\ Good(Before(c)) /\ Before(c).request[c].state = "answered" /\ Before(c).request[c].answer = a
      /\ Owned(Before(c), PastAfter(c), holders)
  BY BeforeOK
<1>4. Version \in Int /\ holders \in Seq(Users)
  BY VersionType DEF CacheInv, SessionInv
<1> HIDE DEF d, a
<1>5. /\ IsResolved(d.slot, Before(c), c, a.state, a.kind = "state") /\ Good(d.slot)
      /\ \A past : Owned(Before(c), past, holders) => Owned(d.slot, past, holders)
  BY <1>2, <1>3, <1>4, ResolvedOK DEF Good
<1>6. d.result = (IF Before(c).request[c].live /\ a.kind = "state" THEN a.state ELSE Null)
  BY <1>2 DEF ResultOf
<1>7. d.result \in VotingStates \union {Null}
  BY <1>1, <1>6
<1>8. d.load \in Callers \union {Null} /\ d.route \in {"voting", "auth"} /\ d.data \in PageData
  BY <1>2, <1>7 DEF CacheInv, PageInv, PageData
<1>9. QED
  BY <1>1, <1>2, <1>3, <1>5, <1>6, <1>8 DEF d, a

\* Steps of the server, of other devices and other tabs, and of the page without its cache.
LEMMA CacheRests ==
  ASSUME CacheInv, Next, SessionInv', PageInv', UNCHANGED cache,
         \A i \in DOMAIN holders : i \in DOMAIN holders' /\ holders'[i] = holders[i],
         PastOK', had \subseteq had'
  PROVE  CacheInv'
<1>1. ServerInv' /\ Version <= Version' /\ counted \subseteq counted'
  BY ServerStep DEF CacheInv
<1>2. Version \in Int /\ Version' \in Int
  BY <1>1, VersionType, FS_CardinalityType DEF CacheInv, Version, ServerInv, Events
<1>3. holders \in Seq(Users) /\ holders' \in Seq(Users)
  BY DEF CacheInv, SessionInv
<1>4. /\ SlotOK(cache, Version', holders', counted')
      /\ Owned(cache, had, holders')
  BY <1>1, <1>2, <1>3, SlotOKLater DEF CacheInv
<1>5. Owned(cache, had', holders')
  BY <1>4 DEF Owned
<1>6. QED
  BY <1>1, <1>4, <1>5 DEF CacheInv

LEMMA RestingInv ==
  ASSUME CacheInv, Next, Administrators \/ Elsewhere \/ ServeSubmission
  PROVE  CacheInv'
<1> DEFINE Rests == UNCHANGED <<holders, valid, cookie, auth, bootstrap, cache, posted, frozen, had, route, load, pageData>>
<1>1. ASSUME Rests PROVE CacheInv'
  BY <1>1, CacheRests DEF CacheInv, SessionInv, PageInv, PastOK
<1>2. CASE LogoutElsewhere
  <2>1. SessionInv' /\ PageInv'
    BY <1>2 DEF LogoutElsewhere, CacheInv, SessionInv, PageInv, pageVars
  <2>2. posted' = ~frozen /\ cookie' = 0 /\ had' = had \union {0} /\ UNCHANGED <<holders, frozen, cache>>
    BY <1>2 DEF LogoutElsewhere, pageVars
  <2>3. PastOK' /\ had \subseteq had'
    BY <2>2 DEF PastOK
  <2>4. QED
    BY <2>1, <2>2, <2>3, CacheRests
<1>3. CASE RevokeSession
  BY <1>3, CacheRests DEF RevokeSession, CacheInv, SessionInv, PageInv, PastOK, tabVars, pageVars
<1>4. ASSUME NEW u \in Users, LoginElsewhere(u) PROVE CacheInv'
  <2>1. /\ holders' = Append(holders, u) /\ cookie' = Len(holders') /\ valid' = valid \union {cookie'}
        /\ had' = had \union {cookie'}
        /\ UNCHANGED <<auth, bootstrap, cache, posted, frozen, route, load, pageData>>
    BY <1>4 DEF LoginElsewhere, pageVars
  <2>2. holders \in Seq(Users) /\ valid \subseteq DOMAIN holders
    BY DEF CacheInv, SessionInv
  <2>3. /\ holders' \in Seq(Users) /\ cookie' \in DOMAIN holders' /\ valid' \subseteq DOMAIN holders'
        /\ \A i \in DOMAIN holders : i \in DOMAIN holders' /\ holders'[i] = holders[i]
        /\ 0 \notin DOMAIN holders'
    BY <2>1, <2>2
  <2>4. SessionInv' /\ PageInv'
    BY <2>1, <2>3 DEF CacheInv, SessionInv, PageInv
  <2>5. PastOK' /\ had \subseteq had'
    BY <2>1, <2>3 DEF PastOK
  <2>6. QED
    BY <2>1, <2>3, <2>4, <2>5, CacheRests
<1>5. ASSUME NEW e \in ElectionIds, NEW from, NEW to, ChangeStatus(e, from, to) PROVE CacheInv'
  <2>1. Rests
    BY <1>5 DEF ChangeStatus, sessionVars, tabVars, pageVars
  <2>2. QED
    BY <1>1, <2>1
<1>6. Administrators => CacheInv'
  BY <1>5 DEF Administrators, CloseElection, BackToDraft, OpenElection
<1>7. ASSUME NEW u \in Users, NEW e \in ElectionIds, CastElsewhere(u, e) PROVE CacheInv'
  <2>1. Rests
    BY <1>7 DEF CastElsewhere, sessionVars, tabVars, pageVars
  <2>2. QED
    BY <1>1, <2>1
<1>8. CASE ServeSubmission
  <2>1. Rests
    BY <1>8 DEF ServeSubmission, sessionVars, tabVars, pageVars
  <2>2. QED
    BY <1>1, <2>1
<1>9. QED
  BY <1>2, <1>3, <1>4, <1>6, <1>7, <1>8 DEF Elsewhere

\* Steps of the tab with its cache.
LEMMA CacheMoves ==
  ASSUME CacheInv, Next, ServerRests, SessionInv', PageInv', UNCHANGED holders, Good(cache'),
         PastOK', Owned(cache', had', holders)
  PROVE  CacheInv'
<1>1. ServerInv' /\ Version' = Version /\ counted' = counted
  BY ServerStep, RestingVersion DEF CacheInv
<1>2. QED
  BY <1>1 DEF CacheInv, Good

LEMMA EmptiedOK ==
  ASSUME CacheInv
  PROVE  Good(Invalidated(cache, Version)) /\ \A past : Owned(Invalidated(cache, Version), past, holders)
BY InvalidatedOK, VersionType DEF CacheInv, Good

LEMMA ServeInv ==
  ASSUME CacheInv, Next, NEW c \in Callers, Serve(c) PROVE CacheInv'
<1> DEFINE r == cache.request[c]
           u == HolderOf(r.session)
           reply == IF u = Null THEN [kind |-> "unauthorized", state |-> Null]
                    ELSE [kind |-> "state", state |-> VotingStateOf(u)]
<1>1. /\ r.state = "sent" /\ ServerRests
      /\ \E answer \in {reply, [kind |-> "lost", state |-> Null]} : cache' = Answered(cache, c, answer)
      /\ UNCHANGED <<sessionVars, tabVars, route, load, pageData>>
  BY DEF Serve, ServerRests
<1>2. u # Null => u \in Users /\ u = holders[r.session] /\ r.session \in DOMAIN holders
  BY DEF CacheInv, SessionInv, HolderOf
<1>3. ASSUME NEW answer \in {reply, [kind |-> "lost", state |-> Null]}
      PROVE  /\ answer \in ServerAnswers
             /\ answer.kind = "state" =>
                  /\ answer.state.version >= Version /\ r.session \in DOMAIN holders
                  /\ answer.state.voter = holders[r.session]
                  /\ answer.state.hasVoted => <<answer.state.voter, answer.state.open>> \in counted
  <2>1. CASE answer.kind = "state"
    <3>1. u # Null /\ answer = [kind |-> "state", state |-> VotingStateOf(u)]
      BY <2>1
    <3>2. /\ VotingStateOf(u) \in VotingStates /\ VotingStateOf(u).voter = u /\ VotingStateOf(u).version = Version
          /\ VotingStateOf(u).hasVoted => <<u, VotingStateOf(u).open>> \in counted
      BY <1>2, <3>1, VotingStateOfType DEF CacheInv
    <3>3. Version \in Int
      BY VersionType DEF CacheInv
    <3>4. QED
      BY <1>2, <3>1, <3>2, <3>3 DEF ServerAnswers
  <2>2. CASE answer.kind # "state"
    BY <2>2 DEF ServerAnswers
  <2>3. QED
    BY <2>1, <2>2
<1>4. Good(cache') /\ Owned(cache', had, holders)
  <2>1. PICK answer \in {reply, [kind |-> "lost", state |-> Null]} : cache' = Answered(cache, c, answer)
    BY <1>1
  <2>2. Version \in Int /\ cache.request[c].state # "none"
    BY <1>1, VersionType DEF CacheInv
  <2> HIDE DEF reply, u
  <2>3. LET new == Answered(cache, c, answer)
        IN /\ SlotOK(new, Version, holders, counted)
           /\ Owned(new, had, holders)
    BY <1>3, <2>2, AnsweredSlotOK DEF CacheInv
  <2>4. QED
    BY <2>1, <2>3 DEF Good
<1>5. SessionInv' /\ PageInv' /\ PastOK' /\ UNCHANGED <<holders, had>>
  BY <1>1 DEF CacheInv, SessionInv, PageInv, PastOK, sessionVars, tabVars
<1>6. QED
  BY <1>1, <1>4, <1>5, CacheMoves DEF CacheInv

\* Signing out empties the cache.
LEMMA SignOutInv ==
  ASSUME CacheInv, Next, ServerRests, SignOut, UNCHANGED <<holders, pageData>>,
         cookie' \in {0, cookie}, valid' \subseteq valid, bootstrap' \in {bootstrap, NoBootstrap}
  PROVE  CacheInv'
<1>1. NoBootstrap \in [answer : {"none", "user", "lost"}, user : Users \union {Null}]
  BY DEF NoBootstrap
<1>2. SessionInv'
  BY <1>1 DEF SignOut, SignedOut, CacheInv, SessionInv
<1>3. PageInv'
  BY DEF SignOut, CacheInv, PageInv
<1>4. PastOK'
  BY DEF SignOut, PastOK
<1>5. QED
  BY <1>2, <1>3, <1>4, EmptiedOK, CacheMoves DEF SignOut

\* So does asking who is signed in.
LEMMA InitializeAuthInv ==
  ASSUME CacheInv, Next, ServerRests, InitializeAuth, UNCHANGED <<holders, valid, cookie, route, load, pageData>>
  PROVE  CacheInv'
<1>1. HolderOf(cookie) \in Users \union {Null}
  BY DEF HolderOf, CacheInv, SessionInv
<1>2. SessionInv'
  BY <1>1 DEF InitializeAuth, CacheInv, SessionInv
<1>3. PastOK'
  BY DEF InitializeAuth, PastOK
<1>4. QED
  BY <1>2, <1>3, EmptiedOK, CacheMoves DEF InitializeAuth, CacheInv, PageInv

LEMMA DeliverBootstrapInv ==
  ASSUME CacheInv, Next, DeliverBootstrap PROVE CacheInv'
<1>1. /\ ServerRests /\ bootstrap' = NoBootstrap /\ bootstrap # NoBootstrap
      /\ UNCHANGED <<holders, valid, cookie, posted, frozen>>
  BY DEF DeliverBootstrap, ServerRests, sessionVars
<1>2. NoBootstrap \in [answer : {"none", "user", "lost"}, user : Users \union {Null}]
  BY DEF NoBootstrap
<1>3. CASE bootstrap.answer = "lost"
  <2>1. auth' = [SignedOut EXCEPT !.failed = TRUE] /\ UNCHANGED <<cache, had, route, load, pageData>>
    BY <1>3 DEF DeliverBootstrap
  <2>2. SessionInv'
    BY <1>1, <1>2, <2>1 DEF SignedOut, CacheInv, SessionInv
  <2>3. QED
    BY <1>1, <2>1, <2>2, CacheMoves DEF CacheInv, PageInv, PastOK, Good
<1>4. CASE bootstrap.answer # "lost" /\ bootstrap.user = Null /\ bootstrap.answer = "user"
  BY <1>1, <1>4, SignOutInv DEF DeliverBootstrap
<1>5. CASE bootstrap.answer # "lost" /\ ~(bootstrap.user = Null /\ bootstrap.answer = "user")
  <2>1. SignIn(bootstrap.user)
    BY <1>5 DEF DeliverBootstrap
  <2>2. SessionInv'
    BY <1>1, <1>2, <2>1 DEF SignIn, CacheInv, SessionInv
  <2> DEFINE empty == Invalidated(cache, Version)
             l == Loading(empty, pageData)
  <2>3. Good(empty) /\ Owned(empty, {cookie}, holders)
    BY EmptiedOK
  <2>4. /\ Good(l.cache) /\ l.load \in Callers \union {Null} /\ l.data \in PageData
        /\ Owned(l.cache, {cookie}, holders)
    BY <2>3, LoadingOK DEF CacheInv, PageInv
  <2>5. \/ cache' = l.cache /\ load' = l.load /\ pageData' = l.data
        \/ cache' = empty /\ UNCHANGED <<load, pageData>>
    BY <2>1 DEF SignIn, StartLoad
  <2>6. UNCHANGED route /\ had' = {cookie} /\ PastOK'
    BY <1>1, <2>1 DEF SignIn, PastOK
  <2> HIDE DEF empty, l
  <2>7. PageInv' /\ Good(cache') /\ Owned(cache', had', holders)
    BY <2>3, <2>4, <2>5, <2>6 DEF CacheInv, PageInv
  <2>8. QED
    BY <1>1, <2>2, <2>6, <2>7, CacheMoves
<1>6. QED
  BY <1>3, <1>4, <1>5

\* A login empties the cache and sends the load with the new session.
LEMMA LoginInv ==
  ASSUME CacheInv, Next, NEW u \in Users, Login(u) PROVE CacheInv'
<1> DEFINE empty == Invalidated(cache, Version)
           new == Sent(empty, "load", cookie', Version)
<1>1. /\ holders' = Append(holders, u) /\ cookie' = Len(holders') /\ valid' = valid \union {cookie'}
      /\ auth' = [auth EXCEPT !.user = u] /\ load' = "load" /\ cache' = new /\ had' = {cookie'}
      /\ UNCHANGED <<bootstrap, posted, frozen, route, pageData>>
  BY DEF Login
<1>2. holders \in Seq(Users) /\ valid \subseteq DOMAIN holders
  BY DEF CacheInv, SessionInv
<1>3. /\ holders' \in Seq(Users) /\ cookie' \in DOMAIN holders' /\ valid' \subseteq DOMAIN holders'
      /\ \A i \in DOMAIN holders : i \in DOMAIN holders' /\ holders'[i] = holders[i]
      /\ cookie' \in Nat
  BY <1>1, <1>2
<1>4. SessionInv' /\ PageInv'
  BY <1>1, <1>3, CallersAssumption DEF CacheInv, SessionInv, PageInv
<1>5. ServerInv' /\ Version' \in Int /\ Version <= Version' /\ counted \subseteq counted'
  BY ServerStep, FS_CardinalityType DEF CacheInv, ServerInv, Version, Events
<1>6. Version \in Int /\ cache \in Slots
  BY VersionType DEF CacheInv, SlotOK
<1>7. IsInvalidated(empty, cache, Version) /\ Good(empty) /\ Owned(empty, had', holders)
  BY <1>6, EmptiedOK, InvalidatedFields
<1>8. empty.data = Null
  BY <1>7 DEF IsInvalidated
<1> HIDE DEF empty
<1>9. Good(new) /\ Owned(new, had', holders)
  BY <1>1, <1>3, <1>6, <1>7, <1>8, CallersAssumption, SentOK DEF Good
<1> HIDE DEF new
<1>10. SlotOK(new, Version', holders', counted') /\ Owned(new, had', holders')
  BY <1>2, <1>3, <1>5, <1>6, <1>9, SlotOKLater DEF Good
<1>11. PastOK'
  BY <1>1, <1>2 DEF PastOK
<1>12. QED
  BY <1>1, <1>4, <1>5, <1>10, <1>11 DEF CacheInv

\* A fetch with force, of a slot that is good.
LEMMA SentInv ==
  ASSUME CacheInv, Next, ServerRests, SessionInv', PageInv', PastOK', UNCHANGED <<holders, cookie>>,
         NEW slot, Good(slot), Owned(slot, had', holders),
         NEW c \in Callers, c # "load", cache' = Sent(slot, c, cookie, Version)
  PROVE  CacheInv'
<1>1. cookie \in Nat /\ Version \in Int
  BY SessionType, VersionType DEF CacheInv
<1>2. LET new == Sent(slot, c, cookie, Version)
      IN SlotOK(new, Version, holders, counted) /\ Owned(new, had', holders)
  BY <1>1, SentOK DEF Good, PastOK
<1>3. QED
  BY <1>2, CacheMoves DEF CacheInv, Good

LEMMA DeliverSubmissionInv ==
  ASSUME CacheInv, Next, DeliverSubmission PROVE CacheInv'
<1> DEFINE signsOut == submit.answer = "unauthorized"
           slot == IF signsOut THEN Invalidated(cache, Version) ELSE cache
           leaves == signsOut /\ auth.started /\ ~auth.failed
<1>1. /\ auth' = (IF signsOut THEN SignedOut ELSE auth) /\ cache' = Sent(slot, "submit", cookie, Version)
      /\ route' = (IF leaves THEN "auth" ELSE route) /\ load' = (IF leaves THEN Null ELSE load)
      /\ had' = (IF signsOut THEN {cookie} ELSE had)
      /\ ServerRests /\ UNCHANGED <<holders, valid, cookie, bootstrap, posted, frozen, pageData>>
  BY DEF DeliverSubmission, ServerRests, sessionVars
<1>2. Good(slot) /\ Owned(slot, had', holders) /\ PastOK'
  BY <1>1, EmptiedOK DEF CacheInv, Good, PastOK
<1> HIDE DEF slot
<1>3. SessionInv'
  BY <1>1 DEF SignedOut, CacheInv, SessionInv
<1>4. PageInv'
  BY <1>1 DEF CacheInv, PageInv
<1>5. QED
  BY <1>1, <1>2, <1>3, <1>4, SentInv, CallersAssumption

LEMMA RefreshFetchInv ==
  ASSUME CacheInv, Next, CountdownZero \/ RefreshAgain PROVE CacheInv'
<1>1. /\ ServerRests /\ UNCHANGED <<sessionVars, tabVars, route, load, pageData>>
      /\ cache' = Sent(cache, "refresh", cookie, Version)
  <2>1. CASE CountdownZero
    BY <2>1 DEF CountdownZero, ServerRests, Events
  <2>2. CASE RefreshAgain
    BY <2>2 DEF RefreshAgain, ServerRests
  <2>3. QED
    BY <2>1, <2>2
<1>2. SessionInv' /\ PageInv' /\ PastOK' /\ UNCHANGED <<holders, cookie, had>>
  BY <1>1 DEF CacheInv, SessionInv, PageInv, PastOK, sessionVars, tabVars
<1>3. QED
  BY <1>1, <1>2, SentInv, CallersAssumption DEF CacheInv, Good

\* An answer that arrives, whether the page is loaded anew or not.
LEMMA DeliveringInv ==
  ASSUME CacheInv, Next, NEW c \in Callers, Delivering(c), KeepLoad(Settled(c)) \/ ReloadPage(Settled(c))
  PROVE  CacheInv'
<1> DEFINE d == Settled(c)
           l == Loading(d.slot, d.data)
<1>1. /\ cache.request[c].state = "answered" /\ ServerRests /\ route' = d.route
      /\ auth' = (IF d.signsOut THEN SignedOut ELSE auth) /\ had' = PastAfter(c)
      /\ UNCHANGED <<holders, valid, cookie, bootstrap, posted, frozen>>
  BY DEF Delivering, PastAfter, ServerRests, sessionVars
<1>2. /\ Good(d.slot) /\ d.load \in Callers \union {Null} /\ d.route \in {"voting", "auth"} /\ d.data \in PageData
      /\ Owned(d.slot, had', holders) /\ PastOK'
  BY <1>1, SettledOK DEF PastAfter, PastOK, CacheInv
<1>3. \/ cache' = d.slot /\ load' = d.load /\ pageData' = d.data
      \/ cache' = l.cache /\ load' = l.load /\ pageData' = l.data
  BY DEF KeepLoad, ReloadPage, StartLoad
<1> HIDE DEF d
<1>4. /\ Good(l.cache) /\ l.load \in Callers \union {Null} /\ l.data \in PageData
      /\ Owned(l.cache, had', holders)
  BY <1>1, <1>2, LoadingOK DEF CacheInv, PastOK
<1>5. SessionInv'
  BY <1>1 DEF SignedOut, CacheInv, SessionInv
<1> HIDE DEF l
<1>6. PageInv' /\ Good(cache') /\ Owned(cache', had', holders)
  BY <1>1, <1>2, <1>3, <1>4 DEF CacheInv, PageInv
<1>7. QED
  BY <1>1, <1>2, <1>5, <1>6, CacheMoves

LEMMA CacheNextInv == CacheInv /\ [Next]_vars => CacheInv'
<1> SUFFICES ASSUME CacheInv, [Next]_vars PROVE CacheInv'
  OBVIOUS
<1> DEFINE Rests == UNCHANGED <<holders, valid, cookie, auth, bootstrap, cache, posted, frozen, had, route, load, pageData>>
<1>1. ASSUME Rests, Next PROVE CacheInv'
  BY <1>1, CacheRests DEF CacheInv, SessionInv, PageInv, PastOK
<1>2. ASSUME Session, Next PROVE CacheInv'
  <2>1. CASE Start \/ Retry
    BY <1>2, <2>1, InitializeAuthInv DEF Start, Retry, ServerRests, sessionVars
  <2>2. CASE DeliverBootstrap
    BY <1>2, <2>2, DeliverBootstrapInv
  <2>3. CASE ReceiveLogout
    BY <1>2, <2>3, SignOutInv DEF ReceiveLogout, ServerRests, sessionVars
  <2>4. CASE Hide
    <3>1. SessionInv' /\ PageInv' /\ PastOK' /\ UNCHANGED <<holders, cache, had>>
      BY <2>4 DEF Hide, CacheInv, SessionInv, PageInv, PastOK, sessionVars, pageVars
    <3>2. QED
      BY <1>2, <3>1, CacheRests
  <2>5. CASE Show
    BY <1>2, <2>5, InitializeAuthInv DEF Show, ServerRests, sessionVars
  <2>6. CASE ClickLogout
    <3>1. Rests
      BY <2>6 DEF ClickLogout, sessionVars, pageVars
    <3>2. QED
      BY <1>1, <1>2, <3>1
  <2>7. CASE FinishLogout
    BY <1>2, <2>7, SignOutInv DEF FinishLogout, ServerRests
  <2>8. QED
    BY <1>2, <2>1, <2>2, <2>3, <2>4, <2>5, <2>6, <2>7, LoginInv DEF Session
<1>3. ASSUME Page, Next PROVE CacheInv'
  <2>1. CASE DeliverLoad
    BY <1>3, <2>1, DeliveringInv, CallersAssumption DEF DeliverLoad
  <2>2. CASE DeliverReconciliation
    BY <1>3, <2>2, DeliveringInv, CallersAssumption DEF DeliverReconciliation
  <2>3. CASE DeliverRefresh
    BY <1>3, <2>3, DeliveringInv, CallersAssumption DEF DeliverRefresh
  <2>4. CASE ClickSubmit \/ FinishSubmission \/ FinishRefresh \/ FillIn
    <3>1. Rests
      BY <2>4 DEF ClickSubmit, FinishSubmission, FinishRefresh, FillIn, sessionVars, tabVars, pageVars
    <3>2. QED
      BY <1>1, <1>3, <3>1
  <2>5. QED
    BY <1>3, <2>1, <2>2, <2>3, <2>4, DeliverSubmissionInv, RefreshFetchInv DEF Page
<1>4. CASE UNCHANGED vars
  <2>1. UNCHANGED <<holders, valid, cookie, auth, bootstrap, cache, posted, frozen, had, route, load, pageData,
                    counted, budget, status, form>>
    BY <1>4 DEF vars, serverVars, sessionVars, tabVars, pageVars
  <2>2. QED
    BY <2>1 DEF CacheInv, ServerInv, SessionInv, PageInv, PastOK, Version, OpenElections
<1>5. ASSUME Administrators \/ Elsewhere \/ ServeSubmission, Next PROVE CacheInv'
  BY <1>5, RestingInv
<1>6. QED
  BY <1>2, <1>3, <1>4, <1>5, ServeInv DEF Next, Network

LEMMA CacheInit == Init => CacheInv
<1> SUFFICES ASSUME Init PROVE CacheInv
  OBVIOUS
<1>1. ServerInv
  <2>1. IsFiniteSet(counted) /\ counted = {} /\ budget \in [Events -> Nat]
    BY BudgetsAssumption, FS_EmptySet DEF Init
  <2>2. /\ status = [e \in ElectionIds |-> IF e \in Drafts THEN "draft" ELSE "open"]
        /\ form = [e \in ElectionIds |-> FirstForm]
    BY DEF Init
  <2>3. \A e, f \in OpenElections : e = f
    BY <2>2, StartAssumption DEF OpenElections
  <2>4. QED
    BY <2>1, <2>2, <2>3, StartAssumption DEF ServerInv
<1>2. SessionInv /\ PageInv
  <2>1. holders = <<FirstUser>> /\ valid = {1} /\ cookie = 1
    BY DEF Init
  <2>2. holders \in Seq(Users) /\ DOMAIN holders = {1}
    BY <2>1, StartAssumption
  <2>3. QED
    BY <2>1, <2>2, CallersAssumption DEF Init, SessionInv, PageInv, PageData, NoBootstrap
<1>3. SlotOK(EmptySlot, 0, holders, counted) /\ Owned(EmptySlot, had, holders)
  <2>1. NoRequest \in Requests
    BY DEF NoRequest, Requests
  <2>2. EmptySlot.request = [c \in Callers |-> NoRequest] /\ EmptySlot.data = Null /\ EmptySlot.inflight = Null
        /\ EmptySlot.since = 0
    BY DEF EmptySlot
  <2>3. EmptySlot \in Slots
    BY <2>1 DEF EmptySlot, Slots
  <2>4. RequestsOK(EmptySlot, holders, counted)
    BY <2>2, AbsenceAssumption DEF RequestsOK, NoRequest
  <2>5. QED
    BY <2>2, <2>3, <2>4, CallersAssumption, AbsenceAssumption DEF SlotOK, Owned, NoRequest
<1>4. LET new == Sent(EmptySlot, "load", cookie, Version)
      IN SlotOK(new, Version, holders, counted) /\ Owned(new, had, holders)
  <2>1. /\ "load" \in Callers /\ Version \in Int /\ EmptySlot.data = Null
        /\ cookie \in Nat /\ cookie \in had
    BY <1>1, VersionType, CallersAssumption DEF Init, EmptySlot
  <2>2. QED
    BY <1>3, <2>1, SentOK
<1>5. QED
  BY <1>1, <1>2, <1>4 DEF Init, CacheInv, PastOK

LEMMA CacheInvariant == VotingClientSpec => []CacheInv
BY CacheInit, CacheNextInv, PTL DEF VotingClientSpec

\* The slot is well formed, never older than what was asked for last, and never that of a
\* user from before it was emptied, for any numbers of users, sessions, requests and
\* events (CacheEntry, AppCache, the auth store).
THEOREM VotingCacheCorrect == VotingClientSpec => []CacheCorrect
<1>1. CacheInv => ClientTypeOK
  BY DEF CacheInv, ServerInv, SessionInv, PageInv, SlotOK, RequestsOK, AnsweredOK, Slots, Requests, ClientTypeOK
<1>2. CacheInv => CacheFresh /\ CacheIsOwn
  <2> SUFFICES ASSUME CacheInv PROVE CacheFresh /\ CacheIsOwn
    OBVIOUS
  <2>1. 0 \notin DOMAIN holders
    BY SessionType DEF CacheInv
  <2>2. cache.data # Null => \E s \in had : s # 0 /\ cache.data.voter = holders[s]
    BY <2>1 DEF CacheInv, Owned
  <2>3. QED
    BY <2>2 DEF CacheInv, PastOK, SlotOK, CacheFresh, CacheIsOwn
<1>3. QED
  BY <1>1, <1>2, CacheInvariant, PTL DEF CacheCorrect

-----------------------------------------------------------------------------
(* The server of the page and the abstract ballot box.                        *)

\* Nothing the box has changes when the ballots stay and each election keeps its status.
LEMMA ServerBoxStays == UNCHANGED <<status, counted>> => UNCHANGED ServerBox!boxVars
<1> SUFFICES ASSUME UNCHANGED <<status, counted>> PROVE UNCHANGED ServerBox!boxVars
  OBVIOUS
<1>1. [e \in ElectionIds |-> StageOf[status[e]]]' = [e \in ElectionIds |-> StageOf[status[e]]]
  OBVIOUS
<1>2. [e \in ElectionIds |-> {u \in Users : HasVoted(u, e)} \X {"ballot"}]' =
        [e \in ElectionIds |-> {u \in Users : HasVoted(u, e)} \X {"ballot"}]
  BY DEF HasVoted
<1>3. QED
  BY <1>1, <1>2 DEF ServerBox!boxVars

\* The operator opens one election at a time, ends its voting, and takes back none with ballots.
LEMMA StatusMovesServerBox ==
  ASSUME ServerInv, NEW e \in ElectionIds, CloseElection(e) \/ BackToDraft(e) \/ OpenElection(e)
  PROVE  ServerBox!Next
<1> DEFINE stages == [f \in ElectionIds |-> StageOf[status[f]]]
           boxes == [f \in ElectionIds |-> {u \in Users : HasVoted(u, f)} \X {"ballot"}]
<1>1. UNCHANGED counted
  BY DEF CloseElection, BackToDraft, OpenElection, ChangeStatus
<1>2. boxes' = boxes
  BY <1>1 DEF HasVoted
<1>3. /\ StageOf["draft"] = "preparing" /\ StageOf["open"] = "voting" /\ StageOf["closed"] = "final"
      /\ status \in [ElectionIds -> {"draft", "open", "closed"}]
  BY DEF StageOf, ServerInv
<1>4. ASSUME NEW from, NEW to \in {"draft", "open", "closed"}, ChangeStatus(e, from, to)
      PROVE  /\ stages[e] = StageOf[from]
             /\ stages' = [stages EXCEPT ![e] = StageOf[to]]
  BY <1>3, <1>4 DEF ChangeStatus
<1>5. CASE CloseElection(e)
  <2>1. stages[e] = "voting" /\ stages' = [stages EXCEPT ![e] = "final"]
    BY <1>3, <1>4, <1>5 DEF CloseElection
  <2>2. ServerBox!Close(e)
    BY <1>2, <2>1 DEF ServerBox!Close
  <2>3. QED
    BY <2>2 DEF ServerBox!Next
<1>6. CASE BackToDraft(e)
  <2>1. stages[e] = "final" /\ stages' = [stages EXCEPT ![e] = "preparing"]
    BY <1>3, <1>4, <1>6 DEF BackToDraft
  <2>2. boxes[e] = {}
    BY <1>6 DEF BackToDraft
  <2>3. ServerBox!Reopen(e)
    BY <1>2, <2>1, <2>2 DEF ServerBox!Reopen
  <2>4. QED
    BY <2>3 DEF ServerBox!Next
<1>7. CASE OpenElection(e)
  <2>1. stages[e] = "preparing" /\ stages' = [stages EXCEPT ![e] = "voting"]
    BY <1>3, <1>4, <1>7 DEF OpenElection
  <2>2. \A f \in ElectionIds : stages[f] # "voting"
    BY <1>3, <1>7 DEF OpenElection, OpenElections
  <2>3. stages' = [f \in ElectionIds |-> IF f = e THEN "voting"
                                         ELSE IF f \in ServerBox!Voting THEN "final" ELSE stages[f]]
    BY <2>1, <2>2 DEF ServerBox!Voting
  <2>4. ServerBox!Open(e)
    BY <1>2, <2>1, <2>3 DEF ServerBox!Open
  <2>5. QED
    BY <2>4 DEF ServerBox!Next
<1>8. QED
  BY <1>5, <1>6, <1>7

\* A ballot that is counted is deposited, while voting is under way, by one who had none there.
LEMMA CountedIsDeposited ==
  ASSUME NEW u \in Users, NEW e \in OpenElections, ~HasVoted(u, e), UNCHANGED status,
         counted' = counted \union {<<u, e>>}
  PROVE  ServerBox!Next
<1> DEFINE stages == [f \in ElectionIds |-> StageOf[status[f]]]
           boxes == [f \in ElectionIds |-> {v \in Users : HasVoted(v, f)} \X {"ballot"}]
<1>1. e \in ElectionIds /\ stages' = stages /\ stages[e] = "voting"
  BY DEF OpenElections, StageOf
<1>2. \A f \in ElectionIds :
        {v \in Users : HasVoted(v, f)}' =
          IF f = e THEN {v \in Users : HasVoted(v, e)} \union {u} ELSE {v \in Users : HasVoted(v, f)}
  BY DEF HasVoted
<1>3. boxes' = [boxes EXCEPT ![e] = @ \union {<<u, "ballot">>}]
  <2>1. \A f \in ElectionIds : boxes'[f] = {v \in Users : HasVoted(v, f)}' \X {"ballot"}
    OBVIOUS
  <2>2. boxes'[e] = boxes[e] \union {<<u, "ballot">>}
    BY <1>1, <1>2, <2>1
  <2>3. \A f \in ElectionIds \ {e} : boxes'[f] = boxes[f]
    BY <1>2, <2>1
  <2>4. QED
    BY <2>2, <2>3
<1>4. \A entry \in boxes[e] : entry[1] # u
  BY <1>1
<1>5. ServerBox!Deposit(e, u, "ballot")
  BY <1>1, <1>3, <1>4 DEF ServerBox!Deposit
<1>6. QED
  BY <1>1, <1>5 DEF ServerBox!Next

LEMMA ServerStepOfBox ==
  ASSUME ServerInv, SessionInv, [Next]_vars
  PROVE  [ServerBox!Next]_(ServerBox!boxVars)
<1>1. CASE UNCHANGED <<status, counted>>
  BY <1>1, ServerBoxStays
<1>2. CASE Administrators
  BY <1>2, StatusMovesServerBox DEF Administrators
<1>3. ASSUME NEW u \in Users, NEW e \in ElectionIds, CastElsewhere(u, e) PROVE ServerBox!Next
  BY <1>3, CountedIsDeposited DEF CastElsewhere
<1>4. ASSUME ServeSubmission, counted' # counted PROVE ServerBox!Next
  <2>1. LET u == HolderOf(submit.session)
            e == submit.election
        IN u # Null /\ e \in OpenElections /\ ~HasVoted(u, e) /\ counted' = counted \union {<<u, e>>}
    BY <1>4 DEF ServeSubmission
  <2>2. HolderOf(submit.session) # Null => HolderOf(submit.session) \in Users
    BY DEF SessionInv, HolderOf
  <2>3. UNCHANGED status
    BY <1>4 DEF ServeSubmission
  <2>4. QED
    BY <2>1, <2>2, <2>3, CountedIsDeposited
<1>5. CASE UNCHANGED vars
  BY <1>1, <1>5 DEF vars, serverVars
<1>6. ASSUME ServeSubmission PROVE UNCHANGED status
  BY <1>6 DEF ServeSubmission
<1>7. ServerRests => UNCHANGED <<status, counted>>
  BY DEF ServerRests, serverVars
<1>8. QED
  BY <1>1, <1>2, <1>3, <1>4, <1>5, <1>6, <1>7, RestingSteps

\* Whatever the page and the other devices do, the server they talk to moves as the abstract
\* ballot box does, one ballot per voter while voting is under way and none taken out: what
\* the voting page assumes of the server is what Voting is proved to implement.
THEOREM ServerKeepsBallotBoxCorrect == VotingClientSpec => ServerKeepsBallotBox
<1>1. CacheInv /\ [Next]_vars => [ServerBox!Next]_(ServerBox!boxVars)
  BY ServerStepOfBox DEF CacheInv
<1>2. QED
  BY <1>1, CacheInvariant, PTL DEF VotingClientSpec, ServerKeepsBallotBox

-----------------------------------------------------------------------------
(* The selections of the ballot on the page.                                  *)

\* What a stepper can be given, and what its selections are then.
Shown ==
  {q \in Seq([id : PositionIds, options : SUBSET CandidateIds]) :
     \A i, j \in DOMAIN q : q[i].id = q[j].id => i = j}

Selects(v, q) ==
  /\ v \in [choice : [IdsOf(q) -> CandidateIds \union {NoChoice}], index : 0..Len(q)]
  /\ \A i \in DOMAIN q : v.choice[q[i].id] \in q[i].options \union {NoChoice}

SelectionsInv == Ballot # Null => Selects(voting, Ballot.positions)

LEMMA ShownSteps ==
  ASSUME NEW q \in Shown
  PROVE  /\ DOMAIN q = 1..Len(q) /\ Len(q) \in Nat
         /\ \A i \in DOMAIN q : q[i].options \in SUBSET CandidateIds /\ q[i].id \in PositionIds /\ q[i].id \in IdsOf(q)
<1> DEFINE Steps == [id : PositionIds, options : SUBSET CandidateIds]
<1>1. q \in Seq(Steps)
  BY DEF Shown
<1>2. \A s \in Steps : s.id \in PositionIds /\ s.options \in SUBSET CandidateIds
  OBVIOUS
<1> HIDE DEF Steps
<1>3. DOMAIN q = 1..Len(q) /\ Len(q) \in Nat /\ \A i \in DOMAIN q : q[i] \in Steps
  BY <1>1
<1>4. QED
  BY <1>2, <1>3 DEF IdsOf

LEMMA CreateSelects ==
  ASSUME NEW q \in Shown PROVE Selects(CreateVotingState(q), q)
<1>1. Len(q) \in Nat
  BY DEF Shown
<1>2. QED
  BY <1>1 DEF CreateVotingState, Selects, IdsOf

LEMMA SmallerOf ==
  ASSUME NEW a \in Nat, NEW b \in Nat PROVE Min({a, b}) \in {a, b} /\ Min({a, b}) <= a /\ Min({a, b}) <= b
<1>1. \E x \in {a, b} : \A y \in {a, b} : x <= y
  BY a <= b \/ b <= a
<1>2. QED
  BY <1>1 DEF Min

LEMMA LargerOf ==
  ASSUME NEW a \in Int, NEW b \in Int PROVE Max({a, b}) \in {a, b} /\ Max({a, b}) >= a /\ Max({a, b}) >= b
<1>1. \E x \in {a, b} : \A y \in {a, b} : x >= y
  BY a >= b \/ b >= a
<1>2. QED
  BY <1>1 DEF Max

\* Choices are kept if the form is the same but for its order.
LEMMA PreserveSelects ==
  ASSUME NEW p \in Shown, NEW q \in Shown, NEW v, Selects(v, p)
  PROVE  Selects(PreserveVotingState(v, p, q), q)
<1>1. CASE ArePositionsStructurallyEqual(p, q)
  <2>1. /\ \A j \in DOMAIN q : \E i \in DOMAIN p : p[i].id = q[j].id /\ p[i].options = q[j].options
        /\ \A i \in DOMAIN p : \E j \in DOMAIN q : p[i].id = q[j].id /\ p[i].options = q[j].options
    <3> DEFINE P == {<<p[i].id, p[i].options>> : i \in DOMAIN p}
               Q == {<<q[i].id, q[i].options>> : i \in DOMAIN q}
    <3>1. P = Q
      BY <1>1 DEF ArePositionsStructurallyEqual
    <3>2. ASSUME NEW j \in DOMAIN q PROVE \E i \in DOMAIN p : p[i].id = q[j].id /\ p[i].options = q[j].options
      <4>1. <<q[j].id, q[j].options>> \in P
        BY <3>1
      <4>2. QED
        BY <4>1
    <3>3. ASSUME NEW i \in DOMAIN p PROVE \E j \in DOMAIN q : p[i].id = q[j].id /\ p[i].options = q[j].options
      <4>1. <<p[i].id, p[i].options>> \in Q
        BY <3>1
      <4>2. QED
        BY <4>1
    <3>4. QED
      BY <3>2, <3>3
  <2>2. IdsOf(p) = IdsOf(q)
    BY <2>1 DEF IdsOf
  <2>3. v.index \in Nat /\ Len(q) \in Nat
    BY DEF Selects, Shown
  <2>4. Min({v.index, Len(q)}) \in 0..Len(q)
    BY <2>3, SmallerOf
  <2>5. PreserveVotingState(v, p, q) = [choice |-> v.choice, index |-> Min({v.index, Len(q)})]
    BY <1>1 DEF PreserveVotingState, Selects
  <2> DEFINE index == Min({v.index, Len(q)})
  <2>6. ASSUME NEW j \in DOMAIN q PROVE v.choice[q[j].id] \in q[j].options \union {NoChoice}
    <3>1. PICK i \in DOMAIN p : p[i].id = q[j].id /\ p[i].options = q[j].options
      BY <2>1
    <3>2. v.choice[p[i].id] \in p[i].options \union {NoChoice}
      BY DEF Selects
    <3>3. QED
      BY <3>1, <3>2
  <2>7. v.choice \in [IdsOf(q) -> CandidateIds \union {NoChoice}]
    BY <2>2 DEF Selects
  <2>8. index \in 0..Len(q) /\ PreserveVotingState(v, p, q) = [choice |-> v.choice, index |-> index]
    BY <2>4, <2>5
  <2> HIDE DEF index
  <2>9. QED
    BY <2>6, <2>7, <2>8 DEF Selects
<1>2. QED
  BY <1>1, CreateSelects DEF PreserveVotingState

\* Every control of the stepper selects what its form has.
LEMMA MovesSelect ==
  ASSUME NEW q \in Shown, NEW v, Selects(v, q), NEW submitting, NEW w \in StepperMoves(v, q, submitting)
  PROVE  Selects(w, q)
<1>0. v \in [choice : [IdsOf(q) -> CandidateIds \union {NoChoice}], index : 0..Len(q)]
  BY DEF Selects
<1>1. /\ v.choice \in [IdsOf(q) -> CandidateIds \union {NoChoice}] /\ v.index \in 0..Len(q) /\ Len(q) \in Nat
      /\ v = [choice |-> v.choice, index |-> v.index]
      /\ DOMAIN q = 1..Len(q) /\ \A i \in DOMAIN q : q[i].options \in SUBSET CandidateIds /\ q[i].id \in IdsOf(q)
  BY <1>0, ShownSteps
<1>2. ASSUME NEW i \in DOMAIN q, NEW k \in q[i].options \union {NoChoice},
             w = [v EXCEPT !.choice[q[i].id] = k]
      PROVE  Selects(w, q)
  <2> DEFINE choice == [v.choice EXCEPT ![q[i].id] = k]
  <2>1. choice \in [IdsOf(q) -> CandidateIds \union {NoChoice}]
    BY <1>1
  <2>2. \A j \in DOMAIN q : choice[q[j].id] \in q[j].options \union {NoChoice}
    BY <1>1 DEF Selects, Shown
  <2>3. w = [choice |-> choice, index |-> v.index]
    BY <1>1, <1>2
  <2> HIDE DEF choice
  <2>4. QED
    BY <1>1, <2>1, <2>2, <2>3 DEF Selects
<1>3. ASSUME NEW index \in 0..Len(q), w = [v EXCEPT !.index = index] PROVE Selects(w, q)
  <2>1. w = [choice |-> v.choice, index |-> index]
    BY <1>1, <1>3
  <2>2. QED
    BY <1>1, <2>1 DEF Selects
<1>4. ASSUME NEW party \in PartyIds, w = SelectPartySlate(v, q, party) PROVE Selects(w, q)
  <2> DEFINE slate(p) == UNION {{k \in q[i].options : PartyOf[k] = party} : i \in {j \in DOMAIN q : q[j].id = p}}
             choice == [p \in IdsOf(q) |-> IF slate(p) = {} THEN NoChoice ELSE CHOOSE k \in slate(p) : TRUE]
  <2>1. DOMAIN v.choice = IdsOf(q)
    BY <1>1
  <2>2. w = [v EXCEPT !.choice = choice]
    BY <1>4, <2>1 DEF SelectPartySlate
  <2>3. \A i \in DOMAIN q : slate(q[i].id) \subseteq q[i].options
    BY DEF Shown
  <2>4. \A i \in DOMAIN q : choice[q[i].id] \in q[i].options \union {NoChoice}
    BY <1>1, <2>3
  <2>5. \A p \in IdsOf(q) : \E i \in DOMAIN q : p = q[i].id
    BY DEF IdsOf
  <2>6. choice = [p \in IdsOf(q) |-> choice[p]]
    OBVIOUS
  <2> HIDE DEF choice, slate
  <2>7. choice \in [IdsOf(q) -> CandidateIds \union {NoChoice}]
    BY <1>1, <2>4, <2>5, <2>6
  <2>8. w = [choice |-> choice, index |-> v.index]
    BY <1>1, <2>2
  <2>9. QED
    BY <1>1, <2>4, <2>7, <2>8 DEF Selects
<1>5. ASSUME ~IsReviewStep(v, q)
      PROVE  v.index + 1 \in DOMAIN q /\ Min({v.index + 1, Len(q)}) \in 0..Len(q)
  <2> DEFINE next == v.index + 1
  <2>1. next \in DOMAIN q /\ next \in 0..Len(q) /\ next \in Nat
    BY <1>1, <1>5 DEF IsReviewStep
  <2> HIDE DEF next
  <2>2. Min({next, Len(q)}) \in {next, Len(q)}
    BY <1>1, <2>1, SmallerOf
  <2>3. next \in DOMAIN q /\ Min({next, Len(q)}) \in 0..Len(q)
    BY <1>1, <2>1, <2>2
  <2>4. QED
    BY <2>3 DEF next
<1>6. v.index # 0 => Max({v.index - 1, 0}) \in 0..Len(q)
  <2> DEFINE previous == v.index - 1
  <2>1. previous \in Int /\ (v.index # 0 => previous \in 0..Len(q)) /\ 0 \in 0..Len(q)
    BY <1>1
  <2> HIDE DEF previous
  <2>2. ASSUME NEW zero, zero = 0 PROVE Max({previous, zero}) \in {previous, zero}
    <3>1. previous \in Int /\ zero \in Int
      BY <2>1, <2>2
    <3>2. QED
      BY <3>1, LargerOf
  <2>3. v.index # 0 => Max({previous, 0}) \in 0..Len(q)
    BY <2>1, <2>2
  <2>4. QED
    BY <2>3 DEF previous
<1>7. ASSUME ~IsReviewStep(v, q), w = GoNext(v, q) PROVE Selects(w, q)
  BY <1>3, <1>5, <1>7 DEF GoNext
<1>8. QED
  BY <1>2, <1>3, <1>4, <1>5, <1>6, <1>7
  DEF StepperMoves, StepAt, SelectCandidate, ClearSelection, GoToPosition, GoPrevious

\* A ballot is shown of a voting state that has one, to a voter who has not voted.
BallotRight ==
  Ballot # Null =>
    /\ Ballot.positions \in Shown /\ Ballot.election \in ElectionIds /\ Ballot.election = pageData.state.open
    /\ pageData.state # Null /\ ~pageData.state.hasVoted /\ ~pageData.error
    /\ Mounted /\ ~runtimeError

LEMMA BallotFacts == PageInv => BallotRight
<1> SUFFICES ASSUME PageInv, Ballot # Null
             PROVE  /\ Ballot.positions \in Shown /\ Ballot.election \in ElectionIds
                    /\ Ballot.election = pageData.state.open
                    /\ pageData.state # Null /\ ~pageData.state.hasVoted /\ ~pageData.error
                    /\ Mounted /\ ~runtimeError
  BY DEF BallotRight
<1>1. Kind = "stepper"
  BY DEF Ballot
<1>2. /\ Ballot = [election |-> pageData.state.open, positions |-> StepperPositions(pageData.state.form)]
      /\ Mounted /\ ~runtimeError /\ ~pageData.error /\ pageData.state # Null /\ pageData.state.open # Null
      /\ ~HasVotedIn(pageData.state, pageData.state.open)
  BY <1>1 DEF Ballot, Kind
<1>3. pageData.state \in VotingStates
  BY <1>2 DEF PageInv, PageData
<1>4. pageData.state.form \in Forms \union {<< >>} /\ pageData.state.open \in ElectionIds
  BY <1>2, <1>3 DEF VotingStates
<1>5. StepperPositions(pageData.state.form) \in Shown
  BY <1>4, FormsAssumption DEF Shown
<1>6. ~pageData.state.hasVoted
  BY <1>2 DEF HasVotedIn
<1>7. Ballot.positions \in Shown /\ Ballot.election \in ElectionIds /\ Ballot.election = pageData.state.open
  BY <1>2, <1>4, <1>5
<1>8. QED
  BY <1>2, <1>6, <1>7

LEMMA BallotFactsNext == PageInv' => BallotRight'
BY BallotFacts, PTL

LEMMA RederiveSelects ==
  ASSUME PageInv, PageInv', SelectionsInv, Rederive PROVE SelectionsInv'
<1> SUFFICES ASSUME Ballot' # Null PROVE Selects(voting', Ballot'.positions)
  BY DEF SelectionsInv
<1>1. Ballot'.positions \in Shown
  BY BallotFactsNext DEF BallotRight
<1>2. CASE Ballot # Null /\ Ballot.election = Ballot'.election
  <2>1. Ballot.positions \in Shown /\ Selects(voting, Ballot.positions)
    BY <1>2, BallotFacts DEF BallotRight, SelectionsInv
  <2>2. voting' = PreserveVotingState(voting, Ballot.positions, Ballot'.positions)
    BY <1>2 DEF Rederive
  <2>3. QED
    BY <1>1, <2>1, <2>2, PreserveSelects
<1>3. CASE ~(Ballot # Null /\ Ballot.election = Ballot'.election)
  BY <1>1, <1>3, CreateSelects DEF Rederive
<1>4. QED
  BY <1>2, <1>3

\* Whatever can change what the page is derived from derives it anew.
PageRests == UNCHANGED <<route, auth, pageData, voting>> /\ (runtimeError' <=> runtimeError)

LEMMA PageSteps ==
  ASSUME PageInv, [Next]_vars PROVE Rederive \/ PageRests \/ FillIn
<1>1. CASE Administrators
  <2>1. PICK e \in ElectionIds : CloseElection(e) \/ BackToDraft(e) \/ OpenElection(e)
    BY <1>1 DEF Administrators
  <2>2. UNCHANGED <<tabVars, pageVars>>
    BY <2>1 DEF CloseElection, BackToDraft, OpenElection, ChangeStatus
  <2>3. QED
    BY <2>2 DEF tabVars, pageVars, PageRests
<1>2. CASE Elsewhere
  BY <1>2 DEF Elsewhere, CastElsewhere, LogoutElsewhere, RevokeSession, LoginElsewhere, tabVars, pageVars, PageRests
<1>3. CASE Session
  <2>1. CASE Hide \/ ClickLogout
    BY <2>1 DEF Hide, ClickLogout, pageVars, PageRests
  <2>2. CASE ~(Hide \/ ClickLogout)
    BY <1>3, <2>2 DEF Session, Start, Retry, DeliverBootstrap, ReceiveLogout, Show, FinishLogout, Login
  <2>3. QED
    BY <2>1, <2>2
<1>4. CASE Network
  BY <1>4 DEF Network, Serve, ServeSubmission, tabVars, pageVars, PageRests
<1>5. CASE Page
  <2>1. CASE ClickSubmit
    <3>1. Ballot # Null
      BY <2>1 DEF ClickSubmit
    <3>2. ~runtimeError /\ Kind = "stepper"
      BY <3>1 DEF Ballot, Kind
    <3>3. QED
      BY <2>1, <3>2 DEF ClickSubmit, tabVars, PageRests
  <2>2. CASE DeliverLoad \/ DeliverSubmission \/ DeliverReconciliation \/ DeliverRefresh
    BY <2>2 DEF DeliverLoad, DeliverSubmission, DeliverReconciliation, DeliverRefresh
  <2>3. CASE FinishSubmission \/ CountdownZero \/ FinishRefresh \/ RefreshAgain
    BY <2>3 DEF FinishSubmission, CountdownZero, FinishRefresh, RefreshAgain, tabVars, pageVars, PageRests
  <2>4. QED
    BY <1>5, <2>1, <2>2, <2>3 DEF Page
<1>6. CASE UNCHANGED vars
  BY <1>6 DEF vars, tabVars, pageVars, PageRests
<1>7. QED
  BY <1>1, <1>2, <1>3, <1>4, <1>5, <1>6 DEF Next

LEMMA SelectionsNextInv ==
  ASSUME PageInv, PageInv', SelectionsInv, [Next]_vars PROVE SelectionsInv'
<1>1. CASE PageRests
  BY <1>1 DEF PageRests, SelectionsInv, Ballot, Kind, Mounted
<1>2. CASE FillIn
  <2>1. /\ Ballot # Null /\ voting' \in StepperMoves(voting, Ballot.positions, IsSubmitting)
        /\ UNCHANGED <<route, auth, pageData, runtimeError>>
    BY <1>2 DEF FillIn, tabVars
  <2>2. Ballot' = Ballot
    BY <2>1 DEF Ballot, Kind, Mounted
  <2>3. Selects(voting', Ballot.positions)
    BY <2>1, BallotFacts, MovesSelect DEF BallotRight, SelectionsInv
  <2>4. QED
    BY <2>2, <2>3 DEF SelectionsInv
<1>3. QED
  BY <1>1, <1>2, PageSteps, RederiveSelects

-----------------------------------------------------------------------------
(* The requests under way, whatever is done to the slot for another one.      *)

\* A request that is as it was, though it may not be the live one any more.
Follows(new, slot, c) ==
  /\ new.request[c].state = slot.request[c].state /\ new.request[c].session = slot.request[c].session
  /\ new.request[c].answer = slot.request[c].answer /\ (new.request[c].live => slot.request[c].live)

LEMMA SameRequest ==
  ASSUME NEW slot \in Slots, NEW new \in Slots, NEW c \in Callers, Follows(new, slot, c),
         slot.request[c].live => new.request[c].live
  PROVE  new.request[c] = slot.request[c]
<1> DEFINE r == slot.request[c]
           n == new.request[c]
<1>1. r \in Requests /\ n \in Requests
  BY DEF Slots
<1>2. /\ r = [state |-> r.state, live |-> r.live, session |-> r.session, answer |-> r.answer]
      /\ n = [state |-> n.state, live |-> n.live, session |-> n.session, answer |-> n.answer]
      /\ r.live \in BOOLEAN /\ n.live \in BOOLEAN
  BY <1>1 DEF Requests
<1>3. n.state = r.state /\ n.session = r.session /\ n.answer = r.answer /\ n.live = r.live
  BY <1>2 DEF Follows
<1>4. QED
  BY <1>2, <1>3

LEMMA InvalidatedFollows ==
  ASSUME NEW new, NEW slot, NEW version, IsInvalidated(new, slot, version)
  PROVE  \A c \in Callers : Follows(new, slot, c) /\ ~new.request[c].live
BY DEF IsInvalidated, Outdates, Follows

LEMMA SentFollows ==
  ASSUME NEW new, NEW slot, NEW caller, NEW session, NEW version, IsSent(new, slot, caller, session, version)
  PROVE  \A c \in Callers \ {caller} : Follows(new, slot, c) /\ ~new.request[c].live
BY DEF IsSent, Outdates, Follows

\* The page's own load leaves the other requests alone: it fetches only if none is live.
LEMMA LoadingRequests ==
  ASSUME ServerInv, SessionInv, NEW slot, Good(slot), NEW data
  PROVE  \A c \in Callers \ {"load"} : Loading(slot, data).cache.request[c] = slot.request[c]
<1>1. "load" \in Callers /\ cookie \in Nat /\ Version \in Int /\ slot \in Slots
  BY CallersAssumption, SessionType, VersionType DEF Good, SlotOK
<1>2. CASE slot.data # Null \/ slot.inflight # Null
  BY <1>2 DEF Loading
<1>3. CASE slot.data = Null /\ slot.inflight = Null
  <2> DEFINE new == Sent(slot, "load", cookie, Version)
  <2>1. IsSent(new, slot, "load", cookie, Version)
    BY <1>1, SentFields
  <2>2. Loading(slot, data).cache = new
    BY <1>3 DEF Loading
  <2> HIDE DEF new
  <2>3. \A c \in Callers : ~slot.request[c].live
    BY <1>3, AbsenceAssumption DEF Good, SlotOK, RequestsOK
  <2>4. \A c \in Callers \ {"load"} : Follows(new, slot, c)
    BY <2>1, SentFollows
  <2>5. new \in Slots
    BY <2>1 DEF IsSent
  <2>6. QED
    BY <1>1, <2>2, <2>3, <2>4, <2>5, SameRequest
<1>4. QED
  BY <1>2, <1>3

\* What an answer that arrives does to the other requests, and to the tab.
Delivered(c) ==
  /\ \A o \in Callers \ {c, "load"} :
       /\ Follows(cache', cache, o)
       /\ ~Settled(c).signsOut => cache'.request[o] = cache.request[o]
  /\ c # "load" => cache'.request[c].state = "none"
  /\ auth'.started = auth.started
  /\ ~Settled(c).signsOut => UNCHANGED auth /\ (route = "voting" => route' = "voting")

LEMMA DeliveredOthers ==
  ASSUME CacheInv, NEW c \in Callers, Delivering(c), KeepLoad(Settled(c)) \/ ReloadPage(Settled(c))
  PROVE  Delivered(c)
<1> DEFINE d == Settled(c)
           a == cache.request[c].answer
<1>1. cache.request[c].state = "answered" /\ Version \in Int /\ cache \in Slots
  BY VersionType DEF Delivering, CacheInv, SlotOK
<1>2. IsResolved(d.slot, Before(c), c, a.state, a.kind = "state") /\ Good(d.slot)
  BY <1>1, SettledOK
<1>3. \A o \in Callers \ {"load"} : cache'.request[o] = d.slot.request[o]
  <2>1. ServerInv /\ SessionInv
    BY DEF CacheInv
  <2>2. \A o \in Callers \ {"load"} : Loading(d.slot, d.data).cache.request[o] = d.slot.request[o]
    BY <1>2, <2>1, LoadingRequests
  <2>3. cache' = d.slot \/ cache' = Loading(d.slot, d.data).cache
    BY DEF KeepLoad, ReloadPage, StartLoad
  <2> HIDE DEF d
  <2>4. QED
    BY <2>2, <2>3
<1>4. \A o \in Callers : Follows(Before(c), cache, o)
  <2>1. CASE d.signsOut
    BY <1>1, <2>1, InvalidatedFields, InvalidatedFollows DEF Before
  <2>2. CASE ~d.signsOut
    BY <2>2 DEF Before, Follows
  <2>3. QED
    BY <2>1, <2>2
<1>5. ~d.signsOut => Before(c) = cache
  BY DEF Before
<1>6. auth' = (IF d.signsOut THEN SignedOut ELSE auth) /\ route' = d.route
  BY DEF Delivering
<1>7. auth'.started = auth.started
  BY <1>6 DEF SignedOut, CacheInv, SessionInv
<1>8. ~d.signsOut => UNCHANGED auth /\ (route = "voting" => route' = "voting")
  BY <1>6 DEF Settled
<1> HIDE DEF d, a
<1>9. ASSUME NEW o \in Callers \ {c, "load"}
      PROVE  Follows(cache', cache, o) /\ (~d.signsOut => cache'.request[o] = cache.request[o])
  <2>1. cache'.request[o] = Before(c).request[o]
    BY <1>2, <1>3 DEF IsResolved
  <2>2. QED
    BY <1>4, <1>5, <2>1 DEF Follows
<1>10. c # "load" => cache'.request[c].state = "none"
  BY <1>2, <1>3 DEF IsResolved, NoRequest
<1>11. QED
  BY <1>7, <1>8, <1>9, <1>10 DEF Delivered, d

-----------------------------------------------------------------------------
(* The submission, and what the voter is told of it.                          *)

Waiting == {"confirming", "reconciling"}

Submissions ==
  [phase : {"idle", "posting", "posted", "loading"} \union Waiting,
   election : ElectionIds \union {Null}, user : Users \union {Null}, session : Nat,
   votes : SUBSET [position : PositionIds, candidate : CandidateIds],
   answer : {"none", "accepted", "refused", "unauthorized", "lost"}, taken : BOOLEAN,
   told : {"nothing", "success", "failure"}, orphan : BOOLEAN, event : {"none", "other", "session"}]

SubmitRequest == cache.request["submit"]

SubmitShape ==
  /\ submit \in Submissions
  /\ submit.election # Null => auth.started
  /\ submit.told # "nothing" => submit.phase = "idle" /\ submit.election # Null
  /\ submit.phase # "idle" => submit.election # Null
  /\ submit.phase \in {"idle", "posting"} => submit.answer = "none"
  /\ submit.phase \notin Waiting => SubmitRequest.state = "none"
  /\ submit.phase = "posting" => ~submit.taken

\* The browser is still the voter's own.
Undisturbed == submit.election # Null /\ submit.event # "session"

\* The session is the one the ballot was submitted with, and a ballot that is taken to
\* be counted is.
OwnSubmission ==
  Undisturbed =>
    /\ route = "voting" /\ cookie \in valid /\ holders[cookie] = submit.user
    /\ submit.phase # "idle" => submit.session = cookie
    /\ submit.phase \in Waiting => SubmitRequest.session = cookie
    /\ submit.answer = "accepted" \/ submit.phase \in {"confirming", "loading"} \/ submit.told = "success"
         => HasVoted(submit.user, submit.election)

\* Nothing has happened since the click: a ballot that was taken will be found.
CalmSubmission ==
  Undisturbed /\ submit.event = "none" =>
    /\ ~auth.failed
    /\ submit.taken => status[submit.election] = "open" /\ HasVoted(submit.user, submit.election)
    /\ submit.taken /\ submit.phase = "reconciling" =>
         /\ SubmitRequest.live
         /\ SubmitRequest.state = "answered" =>
              /\ SubmitRequest.answer.kind = "state"
              /\ HasVotedIn(SubmitRequest.answer.state, submit.election)
    /\ submit.told = "failure" => ~submit.taken

SubmitInv == SubmitShape /\ OwnSubmission /\ CalmSubmission

\* A submission of which no more than its history changes, or who watches it.
Amends(new, old) ==
  /\ new \in Submissions
  /\ new.phase = old.phase /\ new.election = old.election /\ new.user = old.user /\ new.session = old.session
  /\ new.votes = old.votes /\ new.answer = old.answer /\ new.taken = old.taken /\ new.told = old.told
  /\ old.event = "session" => new.event = "session"
  /\ new.event = "none" => old.event = "none"

LEMMA NoticedFields ==
  ASSUME submit \in Submissions, NEW event \in {"other", "session"}
  PROVE  /\ Amends(Noticed(event), submit)
         /\ submit.election # Null => Noticed(event).event # "none"
         /\ submit.election # Null /\ event = "session" => Noticed(event).event = "session"
<1> DEFINE e == IF submit.election = Null \/ submit.event = "session" THEN submit.event ELSE event
           new == Noticed(event)
<1>1. e \in {"none", "other", "session"}
  BY DEF Submissions
<1>2. new = [submit EXCEPT !.event = e]
  BY DEF Noticed
<1>3. submit.event = "session" => e = "session"
  OBVIOUS
<1>4. e = "none" => submit.event = "none" /\ submit.election = Null
  OBVIOUS
<1>5. submit.election # Null /\ event = "session" => e = "session"
  OBVIOUS
<1> HIDE DEF e, new
<1>6. /\ new \in Submissions /\ new.event = e
      /\ new.phase = submit.phase /\ new.election = submit.election /\ new.user = submit.user
      /\ new.session = submit.session /\ new.votes = submit.votes /\ new.answer = submit.answer
      /\ new.taken = submit.taken /\ new.told = submit.told
  BY <1>1, <1>2 DEF Submissions
<1>7. QED
  BY <1>3, <1>4, <1>5, <1>6 DEF Amends, new

LEMMA OrphanedFields ==
  ASSUME NEW s \in Submissions PROVE Amends(Orphaned(s), s) /\ Orphaned(s).event = s.event
<1> DEFINE o == s.orphan \/ (s.phase # "idle" /\ ~Mounted')
           new == Orphaned(s)
<1>1. o \in BOOLEAN
  BY DEF Submissions
<1>2. new = [s EXCEPT !.orphan = o]
  BY DEF Orphaned
<1> HIDE DEF o, new
<1>3. /\ new \in Submissions /\ new.event = s.event
      /\ new.phase = s.phase /\ new.election = s.election /\ new.user = s.user
      /\ new.session = s.session /\ new.votes = s.votes /\ new.answer = s.answer
      /\ new.taken = s.taken /\ new.told = s.told
  BY <1>1, <1>2 DEF Submissions
<1>4. QED
  BY <1>3 DEF Amends, new

LEMMA AmendsTwice ==
  ASSUME NEW a, NEW b, NEW c, Amends(b, a), Amends(c, b) PROVE Amends(c, a)
BY DEF Amends

\* Steps that are not of the submission itself.
Aside ==
  /\ Amends(submit', submit) /\ Follows(cache', cache, "submit")
  /\ auth.started => auth'.started
  /\ Undisturbed' =>
       /\ cookie' = cookie /\ (cookie \in valid => cookie \in valid')
       /\ (cookie \in DOMAIN holders => holders'[cookie] = holders[cookie]) /\ counted \subseteq counted'
       /\ (route = "voting" => route' = "voting")
  /\ Undisturbed' /\ submit'.event = "none" =>
       /\ (~auth.failed => ~auth'.failed) /\ status' = status
       /\ SubmitRequest' = SubmitRequest

LEMMA AsideInv ==
  ASSUME SubmitInv, SessionInv, Aside PROVE SubmitInv'
<1>1. /\ submit'.phase = submit.phase /\ submit'.election = submit.election /\ submit'.user = submit.user
      /\ submit'.session = submit.session /\ submit'.answer = submit.answer /\ submit'.taken = submit.taken
      /\ submit'.told = submit.told /\ submit' \in Submissions
      /\ (Undisturbed' => Undisturbed) /\ (submit'.event = "none" => submit.event = "none")
  BY DEF Aside, Amends, Undisturbed
<1>2. SubmitRequest'.state = SubmitRequest.state /\ SubmitRequest'.session = SubmitRequest.session
  BY DEF Aside, Follows, SubmitRequest
<1>3. SubmitShape'
  BY <1>1, <1>2 DEF SubmitInv, SubmitShape, Aside
<1>4. OwnSubmission'
  BY <1>1, <1>2 DEF SubmitInv, OwnSubmission, Aside, SessionInv, HasVoted
<1>5. CalmSubmission'
  BY <1>1 DEF SubmitInv, CalmSubmission, Aside, HasVoted, HasVotedIn
<1>6. QED
  BY <1>3, <1>4, <1>5 DEF SubmitInv

LEMMA AsideSession ==
  ASSUME Amends(submit', submit), submit.election # Null => submit'.event = "session",
         Follows(cache', cache, "submit"), auth.started => auth'.started
  PROVE  Aside
BY DEF Aside, Amends, Undisturbed

LEMMA AsideOther ==
  ASSUME Amends(submit', submit), submit.election # Null => submit'.event # "none",
         Follows(cache', cache, "submit"), auth.started => auth'.started,
         UNCHANGED <<cookie, valid, holders, route>>, counted \subseteq counted'
  PROVE  Aside
BY DEF Aside, Amends, Undisturbed

LEMMA AsideQuiet ==
  ASSUME submit \in Submissions, UNCHANGED <<submit, cookie, valid, holders, route, auth, status>>,
         counted \subseteq counted', SubmitRequest' = SubmitRequest
  PROVE  Aside
BY DEF Aside, Amends, Follows, SubmitRequest

LEMMA SameFollows ==
  ASSUME UNCHANGED cache, NEW c \in Callers PROVE Follows(cache', cache, c)
BY DEF Follows

LEMMA EmptiedFollows ==
  ASSUME CacheInv
  PROVE  /\ Good(Invalidated(cache, Version))
         /\ \A c \in Callers : Follows(Invalidated(cache, Version), cache, c) /\ ~Invalidated(cache, Version).request[c].live
<1>1. Version \in Int /\ cache \in Slots
  BY VersionType DEF CacheInv, SlotOK
<1>2. IsInvalidated(Invalidated(cache, Version), cache, Version)
  BY <1>1, InvalidatedFields
<1>3. QED
  BY <1>2, EmptiedOK, InvalidatedFollows

LEMMA SubmitCaller == "submit" \in Callers \ {"load", "refresh"} /\ "refresh" \in Callers \ {"load", "submit"} /\ "load" \in Callers
BY CallersAssumption

\* Other tabs, other devices and the administrators.
LEMMA ElsewhereAside ==
  ASSUME CacheInv, SubmitInv, Administrators \/ Elsewhere PROVE Aside
<1>1. submit \in Submissions /\ "submit" \in Callers
  BY SubmitCaller DEF SubmitInv, SubmitShape
<1>2. CASE Administrators
  <2>1. PICK e \in ElectionIds : CloseElection(e) \/ BackToDraft(e) \/ OpenElection(e)
    BY <1>2 DEF Administrators
  <2>2. submit' = Noticed("other") /\ UNCHANGED <<counted, sessionVars, tabVars, pageVars>>
    BY <2>1 DEF CloseElection, BackToDraft, OpenElection, ChangeStatus, Noticing
  <2>3. UNCHANGED <<counted, holders, valid, cookie, auth, route, cache>>
    BY <2>2 DEF sessionVars, tabVars, pageVars
  <2>4. QED
    BY <1>1, <2>2, <2>3, NoticedFields, SameFollows, AsideOther
<1>3. CASE LogoutElsewhere \/ RevokeSession \/ \E u \in Users : LoginElsewhere(u)
  <2>1. submit' = Noticed("session") /\ UNCHANGED <<auth, cache>>
    BY <1>3 DEF LogoutElsewhere, RevokeSession, LoginElsewhere, Noticing, tabVars, pageVars
  <2>2. QED
    BY <1>1, <2>1, NoticedFields, SameFollows, AsideSession
<1>4. ASSUME NEW u \in Users, NEW e \in ElectionIds, CastElsewhere(u, e) PROVE Aside
  <2>1. UNCHANGED <<submit, status, sessionVars, tabVars, pageVars>> /\ counted \subseteq counted'
    BY <1>4 DEF CastElsewhere
  <2>2. UNCHANGED <<submit, cookie, valid, holders, route, auth, status, cache>>
    BY <2>1 DEF sessionVars, tabVars, pageVars
  <2>3. QED
    BY <1>1, <2>1, <2>2, AsideQuiet DEF SubmitRequest
<1>5. QED
  BY <1>2, <1>3, <1>4 DEF Elsewhere

\* Signing in and out in this tab.
LEMMA SignOutAside ==
  ASSUME CacheInv, SubmitInv, SignOut, submit' = Orphaned(Noticed("session")) PROVE Aside
<1>1. Amends(Noticed("session"), submit) /\ (submit.election # Null => Noticed("session").event = "session")
  BY NoticedFields DEF SubmitInv, SubmitShape
<1>2. Amends(submit', submit) /\ (submit.election # Null => submit'.event = "session")
  BY <1>1, OrphanedFields, AmendsTwice DEF Amends
<1>3. auth'.started = auth.started
  BY DEF SignOut, SignedOut, CacheInv, SessionInv
<1>4. Follows(cache', cache, "submit")
  BY EmptiedFollows, SubmitCaller DEF SignOut
<1>5. QED
  BY <1>2, <1>3, <1>4, AsideSession

LEMMA BootstrapAside ==
  ASSUME CacheInv, SubmitInv, DeliverBootstrap PROVE Aside
<1>1. submit' = Orphaned(Noticed("session"))
  BY DEF DeliverBootstrap
<1>2. Amends(Noticed("session"), submit) /\ (submit.election # Null => Noticed("session").event = "session")
  BY NoticedFields DEF SubmitInv, SubmitShape
<1>3. Amends(submit', submit) /\ (submit.election # Null => submit'.event = "session")
  BY <1>1, <1>2, OrphanedFields, AmendsTwice DEF Amends
<1>4. CASE bootstrap.answer = "lost"
  <2>1. auth' = [SignedOut EXCEPT !.failed = TRUE] /\ UNCHANGED cache
    BY <1>4 DEF DeliverBootstrap
  <2>2. auth'.started = auth.started
    BY <2>1 DEF SignedOut, CacheInv, SessionInv
  <2>3. QED
    BY <1>3, <2>1, <2>2, SameFollows, AsideSession, SubmitCaller
<1>5. CASE bootstrap.answer # "lost" /\ bootstrap.user = Null /\ bootstrap.answer = "user"
  BY <1>1, <1>5, SignOutAside DEF DeliverBootstrap
<1>6. CASE bootstrap.answer # "lost" /\ ~(bootstrap.user = Null /\ bootstrap.answer = "user")
  <2>1. SignIn(bootstrap.user)
    BY <1>6 DEF DeliverBootstrap
  <2>2. auth'.started = auth.started
    BY <2>1 DEF SignIn, CacheInv, SessionInv
  <2> DEFINE empty == Invalidated(cache, Version)
             l == Loading(empty, pageData)
  <2>3. cache' = empty \/ cache' = l.cache
    BY <2>1 DEF SignIn, StartLoad
  <2>4. Good(empty) /\ Follows(empty, cache, "submit")
    BY EmptiedFollows, SubmitCaller
  <2>5. l.cache.request["submit"] = empty.request["submit"]
    BY <2>4, LoadingRequests, SubmitCaller DEF CacheInv
  <2> HIDE DEF empty, l
  <2>6. Follows(cache', cache, "submit")
    BY <2>3, <2>4, <2>5 DEF Follows
  <2>7. QED
    BY <1>3, <2>2, <2>6, AsideSession
<1>7. QED
  BY <1>4, <1>5, <1>6

LEMMA LoginAside ==
  ASSUME CacheInv, SubmitInv, NEW u \in Users, Login(u), cookie' \in Nat PROVE Aside
<1>1. Amends(Noticed("session"), submit) /\ (submit.election # Null => Noticed("session").event = "session")
  BY NoticedFields DEF SubmitInv, SubmitShape
<1>2. Amends(submit', submit) /\ (submit.election # Null => submit'.event = "session")
  BY <1>1, OrphanedFields, AmendsTwice DEF Amends, Login
<1>3. auth'.started = auth.started
  BY DEF Login, CacheInv, SessionInv
<1> DEFINE empty == Invalidated(cache, Version)
<1>4. Good(empty) /\ Follows(empty, cache, "submit") /\ Version \in Int
  BY EmptiedFollows, SubmitCaller, VersionType DEF CacheInv
<1>5. cache' = Sent(empty, "load", cookie', Version)
  BY DEF Login
<1> HIDE DEF empty
<1>6. IsSent(cache', empty, "load", cookie', Version)
  BY <1>4, <1>5, SentFields, SubmitCaller DEF Good, SlotOK
<1>7. Follows(cache', empty, "submit")
  BY <1>6, SentFollows, SubmitCaller
<1>8. Follows(cache', cache, "submit")
  BY <1>4, <1>7 DEF Follows
<1>9. QED
  BY <1>2, <1>3, <1>8, AsideSession

LEMMA SessionAside ==
  ASSUME CacheInv, SubmitInv, Session PROVE Aside
<1>1. submit \in Submissions /\ "submit" \in Callers
  BY SubmitCaller DEF SubmitInv, SubmitShape
<1>2. Amends(submit, submit)
  BY <1>1 DEF Amends
<1>3. ASSUME InitializeAuth PROVE Follows(cache', cache, "submit") /\ auth'.started /\ ~auth'.failed
  BY <1>1, <1>3, EmptiedFollows DEF InitializeAuth
<1>4. CASE Start
  <2>1. submit' = submit /\ submit.election = Null
    BY <1>4 DEF Start, SubmitInv, SubmitShape
  <2>2. QED
    BY <1>2, <1>3, <1>4, <2>1, AsideSession DEF Start
<1>5. CASE Retry
  <2>1. /\ auth.failed /\ submit' = submit
        /\ UNCHANGED <<cookie, valid, holders, route, counted>>
    BY <1>5 DEF Retry, serverVars, sessionVars
  <2>2. ~(Undisturbed /\ submit.event = "none")
    BY <2>1 DEF SubmitInv, CalmSubmission
  <2>3. QED
    BY <1>2, <1>3, <1>5, <2>1, <2>2 DEF Retry, Aside, Undisturbed
<1>6. CASE Show
  <2>1. /\ submit' = Orphaned(Noticed("other"))
        /\ UNCHANGED <<cookie, valid, holders, route, counted>>
    BY <1>6 DEF Show, serverVars, sessionVars
  <2>2. Amends(Noticed("other"), submit) /\ (submit.election # Null => Noticed("other").event # "none")
    BY <1>1, NoticedFields
  <2>3. Amends(submit', submit) /\ (submit.election # Null => submit'.event # "none")
    BY <2>1, <2>2, OrphanedFields, AmendsTwice DEF Amends
  <2>4. QED
    BY <1>3, <1>6, <2>1, <2>3, AsideOther DEF Show
<1>7. CASE Hide \/ ClickLogout
  <2>1. UNCHANGED <<submit, cookie, valid, holders, route, auth, status, counted, cache>>
    BY <1>7 DEF Hide, ClickLogout, serverVars, sessionVars, pageVars
  <2>2. QED
    BY <1>1, <2>1, AsideQuiet DEF SubmitRequest
<1>8. CASE ReceiveLogout \/ FinishLogout
  BY <1>8, SignOutAside DEF ReceiveLogout, FinishLogout
<1>9. ASSUME NEW u \in Users, Login(u) PROVE Aside
  <2>1. cookie' \in Nat
    BY <1>9 DEF Login, CacheInv, SessionInv
  <2>2. QED
    BY <1>9, <2>1, LoginAside
<1>10. QED
  BY <1>4, <1>5, <1>6, <1>7, <1>8, <1>9, BootstrapAside DEF Session

\* What the server does with a request for the voting state.
Served(c, answer) ==
  /\ IsAnswered(cache', cache, c, answer)
  /\ answer.kind = "state" =>
       HolderOf(cache.request[c].session) \in Users /\ answer.state = VotingStateOf(HolderOf(cache.request[c].session))
  /\ answer.kind = "unauthorized" => HolderOf(cache.request[c].session) = Null
  /\ IF answer.kind = "lost" THEN submit' = Noticed("other") ELSE submit' = submit
  /\ cache.request[c].state = "sent"
  /\ UNCHANGED <<status, counted, holders, valid, cookie, auth, route, load, pageData, refresh>>

LEMMA ServeGives ==
  ASSUME CacheInv, NEW c \in Callers, Serve(c) PROVE \E answer \in ServerAnswers : Served(c, answer)
<1> DEFINE u == HolderOf(cache.request[c].session)
           reply == IF u = Null THEN [kind |-> "unauthorized", state |-> Null]
                    ELSE [kind |-> "state", state |-> VotingStateOf(u)]
           lost == [kind |-> "lost", state |-> Null]
<1>1. /\ cache.request[c].state = "sent"
      /\ \/ cache' = Answered(cache, c, reply) /\ UNCHANGED submit
         \/ cache' = Answered(cache, c, lost) /\ submit' = Noticed("other")
      /\ UNCHANGED <<status, counted, holders, valid, cookie, auth, route, load, pageData, refresh>>
  BY DEF Serve, Noticing, serverVars, sessionVars, tabVars
<1>2. u = Null \/ u \in Users
  BY DEF CacheInv, SessionInv, HolderOf
<1>3. u # Null => VotingStateOf(u) \in VotingStates
  BY <1>2, VotingStateOfType DEF CacheInv
<1>4. /\ reply \in ServerAnswers /\ lost \in ServerAnswers /\ lost.kind = "lost" /\ reply.kind \in {"state", "unauthorized"}
      /\ reply.kind = "state" => u \in Users /\ reply.state = VotingStateOf(u)
      /\ reply.kind = "unauthorized" => u = Null
  BY <1>2, <1>3 DEF ServerAnswers
<1>5. cache \in Slots
  BY DEF CacheInv, SlotOK
<1> HIDE DEF reply, lost, u
<1>6. CASE cache' = Answered(cache, c, reply) /\ UNCHANGED submit
  <2>1. IsAnswered(cache', cache, c, reply)
    BY <1>4, <1>5, <1>6, AnsweredFields
  <2>2. Served(c, reply)
    BY <1>1, <1>4, <1>6, <2>1 DEF Served, u
  <2>3. QED
    BY <1>4, <2>2
<1>7. CASE cache' = Answered(cache, c, lost) /\ submit' = Noticed("other")
  <2>1. IsAnswered(cache', cache, c, lost)
    BY <1>4, <1>5, <1>7, AnsweredFields
  <2>2. Served(c, lost)
    BY <1>1, <1>4, <1>7, <2>1 DEF Served, u
  <2>3. QED
    BY <1>4, <2>2
<1>8. QED
  BY <1>1, <1>6, <1>7

LEMMA ServeAside ==
  ASSUME CacheInv, SubmitInv, NEW c \in Callers \ {"submit"}, Serve(c) PROVE Aside
<1>1. PICK answer \in ServerAnswers : Served(c, answer)
  BY ServeGives
<1>2. SubmitRequest' = SubmitRequest /\ Follows(cache', cache, "submit")
  BY <1>1, SubmitCaller DEF Served, IsAnswered, SubmitRequest, Follows
<1>3. CASE answer.kind = "lost"
  BY <1>1, <1>2, <1>3, NoticedFields, AsideOther DEF Served, SubmitInv, SubmitShape
<1>4. CASE answer.kind # "lost"
  BY <1>1, <1>2, <1>4, AsideQuiet DEF Served, SubmitInv, SubmitShape
<1>5. QED
  BY <1>3, <1>4

\* An answer to somebody else's request; a refusal signs the voter out.
LEMMA DeliverAside ==
  ASSUME CacheInv, SubmitInv, NEW c \in Callers \ {"submit"}, Delivering(c),
         KeepLoad(Settled(c)) \/ ReloadPage(Settled(c)),
         submit' = Orphaned(IF Settled(c).signsOut THEN Noticed("session") ELSE submit)
  PROVE  Aside
<1>1. Delivered(c)
  BY DeliveredOthers
<1>2. /\ Follows(cache', cache, "submit") /\ auth'.started = auth.started
      /\ ~Settled(c).signsOut =>
           SubmitRequest' = SubmitRequest /\ UNCHANGED auth /\ (route = "voting" => route' = "voting")
  BY <1>1, SubmitCaller DEF Delivered, SubmitRequest
<1>3. UNCHANGED <<status, counted, holders, valid, cookie>>
  BY DEF Delivering, serverVars, sessionVars
<1>4. submit \in Submissions
  BY DEF SubmitInv, SubmitShape
<1>5. CASE Settled(c).signsOut
  <2>1. Amends(Noticed("session"), submit) /\ (submit.election # Null => Noticed("session").event = "session")
    BY <1>4, NoticedFields
  <2>2. Amends(submit', submit) /\ (submit.election # Null => submit'.event = "session")
    BY <1>5, <2>1, OrphanedFields, AmendsTwice DEF Amends
  <2>3. QED
    BY <1>2, <2>2, AsideSession
<1>6. CASE ~Settled(c).signsOut
  <2>1. Amends(submit', submit)
    BY <1>4, <1>6, OrphanedFields
  <2>2. QED
    BY <1>2, <1>3, <1>6, <2>1 DEF Aside
<1>7. QED
  BY <1>5, <1>6

LEMMA PageAside ==
  ASSUME CacheInv, SubmitInv,
         DeliverLoad \/ CountdownZero \/ DeliverRefresh \/ FinishRefresh \/ RefreshAgain \/ FillIn
  PROVE  Aside
<1>1. submit \in Submissions
  BY DEF SubmitInv, SubmitShape
<1>2. CASE DeliverLoad
  BY <1>2, DeliverAside, SubmitCaller DEF DeliverLoad
<1>3. CASE DeliverRefresh
  BY <1>3, DeliverAside, SubmitCaller DEF DeliverRefresh
<1>4. CASE CountdownZero \/ RefreshAgain
  <2>1. /\ cache' = Sent(cache, "refresh", cookie, Version) /\ submit' = Noticed("other")
        /\ UNCHANGED <<serverVars, sessionVars, tabVars, route>>
    BY <1>4 DEF CountdownZero, RefreshAgain, Noticing
  <2>2. UNCHANGED <<counted, holders, valid, cookie, auth, route>>
    BY <2>1 DEF serverVars, sessionVars, tabVars
  <2>3. cookie \in Nat /\ Version \in Int /\ cache \in Slots
    BY SessionType, VersionType DEF CacheInv, SlotOK
  <2>4. IsSent(cache', cache, "refresh", cookie, Version)
    BY <2>1, <2>3, SentFields, SubmitCaller
  <2>5. Follows(cache', cache, "submit")
    BY <2>4, SentFollows, SubmitCaller
  <2>6. QED
    BY <1>1, <2>1, <2>2, <2>5, NoticedFields, AsideOther
<1>5. CASE FinishRefresh \/ FillIn
  <2>1. UNCHANGED <<submit, cookie, valid, holders, route, auth, status, counted, cache>>
    BY <1>5 DEF FinishRefresh, FillIn, serverVars, sessionVars, tabVars, pageVars
  <2>2. QED
    BY <1>1, <2>1, AsideQuiet DEF SubmitRequest
<1>6. QED
  BY <1>2, <1>3, <1>4, <1>5

\* The answer that the submission reads the outcome from.
LEMMA ServeSubmitInv ==
  ASSUME CacheInv, SubmitInv, Serve("submit") PROVE SubmitInv'
<1>1. PICK answer \in ServerAnswers : Served("submit", answer)
  BY ServeGives, SubmitCaller
<1>2. /\ SubmitRequest.state = "sent" /\ SubmitRequest'.state = "answered" /\ SubmitRequest'.answer = answer
      /\ SubmitRequest'.live = SubmitRequest.live /\ SubmitRequest'.session = SubmitRequest.session
      /\ UNCHANGED <<status, counted, holders, valid, cookie, auth, route>>
  BY <1>1 DEF Served, IsAnswered, SubmitRequest
<1>3. submit \in Submissions /\ submit.phase \in Waiting
  BY <1>2 DEF SubmitInv, SubmitShape
<1>4. /\ Amends(submit', submit)
      /\ answer.kind = "lost" /\ submit.election # Null => submit'.event # "none"
  BY <1>1, <1>3, NoticedFields DEF Served, Amends
<1>5. /\ submit'.phase = submit.phase /\ submit'.election = submit.election /\ submit'.user = submit.user
      /\ submit'.session = submit.session /\ submit'.answer = submit.answer /\ submit'.taken = submit.taken
      /\ submit'.told = submit.told /\ submit' \in Submissions
      /\ (Undisturbed' => Undisturbed) /\ (submit'.event = "none" => submit.event = "none")
  BY <1>4 DEF Amends, Undisturbed
<1>6. SubmitShape'
  BY <1>2, <1>3, <1>5 DEF SubmitInv, SubmitShape, Waiting
<1>7. OwnSubmission'
  BY <1>2, <1>5 DEF SubmitInv, OwnSubmission, HasVoted
<1>8. CalmSubmission'
  <2>1. SUFFICES ASSUME Undisturbed', submit'.event = "none", submit'.taken, submit'.phase = "reconciling"
                 PROVE  answer.kind = "state" /\ HasVotedIn(answer.state, submit.election)
    BY <1>2, <1>5 DEF SubmitInv, CalmSubmission, HasVoted, HasVotedIn
  <2> DEFINE u == HolderOf(SubmitRequest.session)
  <2>2. /\ SubmitRequest.session = cookie /\ cookie \in valid /\ holders[cookie] = submit.user
        /\ status[submit.election] = "open" /\ HasVoted(submit.user, submit.election)
        /\ submit.election \in ElectionIds
    BY <1>3, <1>5, <2>1 DEF SubmitInv, SubmitShape, OwnSubmission, CalmSubmission, Undisturbed, Submissions
  <2>3. u = submit.user /\ u \in Users /\ u # Null
    BY <2>2, AbsenceAssumption DEF HolderOf, CacheInv, SessionInv
  <2>4. answer.kind = "state" /\ answer.state = VotingStateOf(u)
    <3>1. answer.kind \in {"state", "unauthorized", "lost"}
      BY DEF ServerAnswers
    <3>2. answer.kind # "lost"
      BY <1>4, <2>1 DEF Undisturbed, Amends
    <3>3. QED
      BY <1>1, <2>3, <3>1, <3>2 DEF Served, SubmitRequest
  <2>5. submit.election \in OpenElections /\ \A e \in OpenElections : e = submit.election
    BY <2>2 DEF CacheInv, ServerInv, OpenElections
  <2>6. (IF OpenElections = {} THEN Null ELSE CHOOSE e \in OpenElections : TRUE) = submit.election
    BY <2>5
  <2>7. VotingStateOf(u).open = submit.election /\ VotingStateOf(u).hasVoted
    BY <2>2, <2>3, <2>6, VotingStateOfType DEF CacheInv
  <2>8. QED
    BY <2>4, <2>7 DEF HasVotedIn
<1>9. QED
  BY <1>6, <1>7, <1>8 DEF SubmitInv

LEMMA ClickSubmitInv ==
  ASSUME CacheInv, SelectionsInv, SubmitInv, ClickSubmit PROVE SubmitInv'
<1> DEFINE noticed == IF HolderOf(cookie) # auth.user THEN "session" ELSE "none"
<1>1. /\ Ballot # Null /\ submit.phase = "idle"
      /\ submit' = [NoSubmission EXCEPT
           !.phase = "posting", !.election = Ballot.election, !.user = auth.user,
           !.session = cookie, !.votes = SelectedVotes(voting), !.event = noticed]
      /\ UNCHANGED <<status, counted, holders, valid, cookie, auth, route, cache>>
  BY DEF ClickSubmit, serverVars, sessionVars, tabVars
<1>2. Ballot.positions \in Shown /\ Ballot.election \in ElectionIds /\ Mounted
  BY <1>1, BallotFacts DEF CacheInv, BallotRight
<1>3. auth.started /\ ~auth.failed /\ auth.user \in Users /\ route = "voting" /\ cookie \in Nat
  BY <1>2, SessionType DEF Mounted, CacheInv, SessionInv
<1>4. SelectedVotes(voting) \in SUBSET [position : PositionIds, candidate : CandidateIds]
  <2>1. Selects(voting, Ballot.positions)
    BY <1>1 DEF SelectionsInv
  <2>2. DOMAIN voting.choice = IdsOf(Ballot.positions)
    BY <2>1 DEF Selects
  <2>3. IdsOf(Ballot.positions) \subseteq PositionIds
    BY <1>2, ShownSteps DEF IdsOf
  <2>4. QED
    BY <2>2, <2>3 DEF SelectedVotes
<1> DEFINE election == Ballot.election
           votes == SelectedVotes(voting)
<1>5. submit' = [phase |-> "posting", election |-> election, user |-> auth.user, session |-> cookie, votes |-> votes,
                 answer |-> "none", taken |-> FALSE, told |-> "nothing", orphan |-> FALSE, event |-> noticed]
  BY <1>1 DEF NoSubmission
<1>6. noticed \in {"none", "session"} /\ (noticed = "none" => HolderOf(cookie) = auth.user)
  OBVIOUS
<1> HIDE DEF election, votes, noticed
<1>7. /\ submit' \in Submissions
      /\ submit'.phase = "posting" /\ submit'.election = election /\ submit'.user = auth.user
      /\ submit'.session = cookie /\ submit'.answer = "none" /\ submit'.taken = FALSE /\ submit'.told = "nothing"
      /\ submit'.event = noticed
  <2>1. election \in ElectionIds /\ votes \in SUBSET [position : PositionIds, candidate : CandidateIds]
    BY <1>2, <1>4 DEF election, votes
  <2>2. submit' \in Submissions
    BY <1>3, <1>5, <1>6, <2>1 DEF Submissions
  <2>3. QED
    BY <1>5, <2>2
<1>8. SubmitShape'
  <2>1. election # Null
    BY <1>2, AbsenceAssumption DEF election
  <2>2. SubmitRequest'.state = "none" /\ auth'.started
    BY <1>1, <1>3 DEF SubmitInv, SubmitShape, SubmitRequest, Waiting
  <2>3. QED
    BY <1>7, <2>1, <2>2 DEF SubmitShape
<1>9. noticed = "none" => cookie \in valid /\ holders[cookie] = auth.user
  BY <1>3, <1>6, AbsenceAssumption DEF HolderOf
<1>10. OwnSubmission'
  BY <1>1, <1>3, <1>6, <1>7, <1>9 DEF OwnSubmission, Undisturbed, Waiting
<1>11. CalmSubmission'
  BY <1>1, <1>3, <1>7 DEF CalmSubmission
<1>12. QED
  BY <1>8, <1>10, <1>11 DEF SubmitInv

\* The server counts the ballot or refuses it, and the answer may be lost.
LEMMA ServeSubmissionInv ==
  ASSUME CacheInv, SubmitInv, ServeSubmission PROVE SubmitInv'
<1> DEFINE u == HolderOf(submit.session)
           answer == IF u = Null THEN "unauthorized"
                     ELSE IF submit.election \in OpenElections /\ ~HasVoted(u, submit.election)
                             /\ FitsForm(submit.votes, submit.election)
                     THEN "accepted" ELSE "refused"
<1>1. submit.phase = "posting" /\ UNCHANGED <<status, form, holders, valid, cookie, auth, route, cache>>
  BY DEF ServeSubmission, sessionVars, tabVars, pageVars
<1>2. \E a \in {"accepted", "refused", "unauthorized", "lost"}, taken \in BOOLEAN :
        /\ submit' = [submit EXCEPT !.phase = "posted", !.taken = taken, !.answer = a]
        /\ counted' = IF taken THEN counted \union {<<u, submit.election>>} ELSE counted
        /\ taken => submit.election \in OpenElections
        /\ a = "accepted" => taken
  <2>1. CASE /\ counted' = IF answer = "accepted" THEN counted \union {<<u, submit.election>>} ELSE counted
             /\ submit' \in {[submit EXCEPT !.phase = "posted", !.taken = (answer = "accepted"), !.answer = a] : a \in {answer, "lost"}}
    <3>1. PICK a \in {answer, "lost"} :
            submit' = [submit EXCEPT !.phase = "posted", !.taken = (answer = "accepted"), !.answer = a]
      BY <2>1
    <3>2. a \in {"accepted", "refused", "unauthorized", "lost"} /\ (a = "accepted" => answer = "accepted")
          /\ (answer = "accepted" => submit.election \in OpenElections) /\ (answer = "accepted") \in BOOLEAN
      OBVIOUS
    <3> HIDE DEF answer, u
    <3>3. QED
      BY <2>1, <3>1, <3>2
  <2>2. CASE submit' = [submit EXCEPT !.phase = "posted", !.answer = "lost"] /\ UNCHANGED counted
    <3>1. submit.taken = FALSE /\ submit \in Submissions
      BY <1>1 DEF SubmitInv, SubmitShape, Submissions
    <3>2. submit' = [submit EXCEPT !.phase = "posted", !.taken = FALSE, !.answer = "lost"]
      BY <2>2, <3>1 DEF Submissions
    <3>3. QED
      BY <2>2, <3>2
  <2>3. QED
    BY <2>1, <2>2 DEF ServeSubmission
<1>3. PICK a \in {"accepted", "refused", "unauthorized", "lost"}, taken \in BOOLEAN :
        /\ submit' = [submit EXCEPT !.phase = "posted", !.taken = taken, !.answer = a]
        /\ counted' = IF taken THEN counted \union {<<u, submit.election>>} ELSE counted
        /\ taken => submit.election \in OpenElections
        /\ a = "accepted" => taken
  BY <1>2
<1>4. submit \in Submissions
  BY DEF SubmitInv, SubmitShape
<1> HIDE DEF u, answer
<1>5. /\ submit' \in Submissions
      /\ submit'.phase = "posted" /\ submit'.election = submit.election /\ submit'.user = submit.user
      /\ submit'.session = submit.session /\ submit'.answer = a /\ submit'.taken = taken
      /\ submit'.told = submit.told /\ submit'.event = submit.event
  BY <1>3, <1>4 DEF Submissions
<1>6. submit.told = "nothing" /\ submit.election # Null /\ auth.started /\ SubmitRequest.state = "none"
  BY <1>1, <1>4 DEF SubmitInv, SubmitShape, Waiting, Submissions
<1>7. SubmitShape'
  BY <1>1, <1>5, <1>6 DEF SubmitShape, SubmitRequest, Waiting
<1>8. Undisturbed => u = submit.user /\ submit.session = cookie /\ route = "voting" /\ cookie \in valid
                     /\ holders[cookie] = submit.user
  BY <1>1 DEF SubmitInv, OwnSubmission, HolderOf, u
<1>9. Undisturbed /\ taken => HasVoted(submit.user, submit.election)' /\ status[submit.election] = "open"
  BY <1>3, <1>5, <1>8 DEF HasVoted, OpenElections
<1>10. Undisturbed' = Undisturbed
  BY <1>5 DEF Undisturbed
<1>11. OwnSubmission'
  BY <1>1, <1>3, <1>5, <1>6, <1>8, <1>9, <1>10 DEF OwnSubmission, Waiting
<1>12. CalmSubmission'
  BY <1>1, <1>5, <1>6, <1>9, <1>10 DEF SubmitInv, CalmSubmission
<1>13. QED
  BY <1>7, <1>11, <1>12 DEF SubmitInv

\* The answer to the submission: the voting state is read for the session the browser
\* has, and no other request is live.
LEMMA DeliverSubmissionFacts ==
  ASSUME CacheInv, SubmitInv, DeliverSubmission
  PROVE  /\ submit.phase = "posted" /\ submit' \in Submissions
         /\ submit'.phase = (IF submit.answer = "accepted" THEN "confirming" ELSE "reconciling")
         /\ submit'.election = submit.election /\ submit'.user = submit.user /\ submit'.session = submit.session
         /\ submit'.answer = submit.answer /\ submit'.taken = submit.taken /\ submit'.told = submit.told
         /\ submit'.event = (IF submit.answer = "unauthorized" THEN "session" ELSE submit.event)
         /\ \E slot \in Slots : IsSent(cache', slot, "submit", cookie, Version) /\ \A c \in Callers : Follows(slot, cache, c)
         /\ auth'.started = auth.started
         /\ submit.answer # "unauthorized" => UNCHANGED <<auth, route, load>>
         /\ UNCHANGED <<status, counted, holders, valid, cookie, pageData, refresh>>
<1> DEFINE slot == IF submit.answer = "unauthorized" THEN Invalidated(cache, Version) ELSE cache
           phase == IF submit.answer = "accepted" THEN "confirming" ELSE "reconciling"
           event == IF submit.answer = "unauthorized" THEN "session" ELSE submit.event
           s == [submit EXCEPT !.phase = phase, !.event = event]
<1>1. /\ submit.phase = "posted" /\ submit' = Orphaned(s) /\ cache' = Sent(slot, "submit", cookie, Version)
      /\ auth' = (IF submit.answer = "unauthorized" THEN SignedOut ELSE auth)
      /\ submit.answer # "unauthorized" => UNCHANGED <<route, load>>
      /\ UNCHANGED <<status, counted, holders, valid, cookie, pageData, refresh>>
  BY DEF DeliverSubmission, serverVars, sessionVars, SubmitInv, SubmitShape, Submissions
<1>2. submit \in Submissions
  BY DEF SubmitInv, SubmitShape
<1>3. phase \in Waiting /\ event \in {"none", "other", "session"}
  BY <1>2 DEF Waiting, Submissions
<1>4. Good(slot) /\ \A c \in Callers : Follows(slot, cache, c)
  BY EmptiedFollows DEF CacheInv, Good, Follows
<1>5. cookie \in Nat /\ Version \in Int
  BY SessionType, VersionType DEF CacheInv
<1> HIDE DEF slot, phase, event
<1>6. /\ s \in Submissions /\ s.phase = phase /\ s.event = event
      /\ s.election = submit.election /\ s.user = submit.user /\ s.session = submit.session
      /\ s.answer = submit.answer /\ s.taken = submit.taken /\ s.told = submit.told
  BY <1>2, <1>3 DEF Submissions
<1> HIDE DEF s
<1>7. Amends(submit', s) /\ submit'.event = s.event
  BY <1>1, <1>6, OrphanedFields
<1>8. slot \in Slots /\ IsSent(cache', slot, "submit", cookie, Version)
  BY <1>1, <1>4, <1>5, SentFields, SubmitCaller DEF Good, SlotOK
<1>9. auth'.started = auth.started
  BY <1>1 DEF SignedOut, CacheInv, SessionInv
<1>10. QED
  BY <1>1, <1>4, <1>6, <1>7, <1>8, <1>9 DEF Amends, phase, event

LEMMA DeliverSubmissionStep ==
  ASSUME CacheInv, SubmitInv, DeliverSubmission PROVE SubmitInv'
<1>1. PICK slot \in Slots : IsSent(cache', slot, "submit", cookie, Version)
  BY DeliverSubmissionFacts
<1>2. SubmitRequest'.state = "sent" /\ SubmitRequest'.live /\ SubmitRequest'.session = cookie
  BY <1>1 DEF IsSent, SubmitRequest
<1>3. /\ submit.phase = "posted" /\ submit' \in Submissions
      /\ submit'.phase = (IF submit.answer = "accepted" THEN "confirming" ELSE "reconciling")
      /\ submit'.election = submit.election /\ submit'.user = submit.user /\ submit'.session = submit.session
      /\ submit'.answer = submit.answer /\ submit'.taken = submit.taken /\ submit'.told = submit.told
      /\ submit'.event = (IF submit.answer = "unauthorized" THEN "session" ELSE submit.event)
      /\ auth'.started = auth.started
      /\ submit.answer # "unauthorized" => UNCHANGED <<auth, route>>
      /\ UNCHANGED <<status, counted, holders, valid, cookie>>
  BY DeliverSubmissionFacts
<1>4. submit.told = "nothing" /\ submit.election # Null
  BY <1>3 DEF SubmitInv, SubmitShape, Submissions
<1>5. SubmitShape'
  BY <1>3, <1>4 DEF SubmitInv, SubmitShape, Waiting
<1>6. Undisturbed' => Undisturbed /\ submit.answer # "unauthorized" /\ submit'.event = submit.event
  BY <1>3 DEF Undisturbed
<1>7. OwnSubmission'
  BY <1>2, <1>3, <1>4, <1>6 DEF SubmitInv, OwnSubmission, HasVoted
<1>8. CalmSubmission'
  BY <1>2, <1>3, <1>4, <1>6 DEF SubmitInv, CalmSubmission, HasVoted
<1>9. QED
  BY <1>5, <1>7, <1>8 DEF SubmitInv

LEMMA EndedFields ==
  ASSUME NEW s \in Submissions, NEW told \in {"success", "failure"}
  PROVE  LET e == Ended(s, told)
         IN /\ e \in Submissions /\ e.phase = "idle" /\ e.told = told /\ e.answer = "none"
            /\ e.election = s.election /\ e.user = s.user /\ e.event = s.event /\ e.taken = s.taken
<1> DEFINE e == Ended(s, told)
           election == s.election
           user == s.user
           event == s.event
           taken == s.taken
<1>1. /\ election \in ElectionIds \union {Null} /\ user \in Users \union {Null} /\ taken \in BOOLEAN
      /\ event \in {"none", "other", "session"}
  BY DEF Submissions
<1>2. e = [NoSubmission EXCEPT !.election = election, !.user = user, !.event = event, !.taken = taken, !.told = told]
  BY DEF Ended
<1> HIDE DEF election, user, event, taken, e
<1>3. e = [phase |-> "idle", election |-> election, user |-> user, session |-> 0, votes |-> {},
           answer |-> "none", taken |-> taken, told |-> told, orphan |-> FALSE, event |-> event]
  BY <1>2 DEF NoSubmission
<1>4. /\ e \in Submissions /\ e.phase = "idle" /\ e.told = told /\ e.answer = "none"
      /\ e.election = election /\ e.user = user /\ e.event = event /\ e.taken = taken
  BY <1>1, <1>3 DEF Submissions
<1>5. QED
  BY <1>4 DEF e, election, user, event, taken

LEMMA FinishSubmissionInv ==
  ASSUME CacheInv, SubmitInv, FinishSubmission PROVE SubmitInv'
<1>1. /\ submit.phase = "loading" /\ submit' = Ended(submit, "success")
      /\ UNCHANGED <<status, counted, holders, valid, cookie, auth, route, cache>>
  BY DEF FinishSubmission, serverVars, sessionVars, tabVars, pageVars
<1>2. submit \in Submissions
  BY DEF SubmitInv, SubmitShape
<1>3. /\ submit' \in Submissions /\ submit'.phase = "idle" /\ submit'.told = "success" /\ submit'.answer = "none"
      /\ submit'.election = submit.election /\ submit'.user = submit.user /\ submit'.event = submit.event
      /\ submit'.taken = submit.taken
  BY <1>1, <1>2, EndedFields
<1>4. SubmitShape'
  BY <1>1, <1>3 DEF SubmitInv, SubmitShape, SubmitRequest, Waiting
<1>5. OwnSubmission'
  BY <1>1, <1>3 DEF SubmitInv, OwnSubmission, Undisturbed, Waiting, HasVoted
<1>6. CalmSubmission'
  BY <1>1, <1>3 DEF SubmitInv, CalmSubmission, Undisturbed, HasVoted
<1>7. QED
  BY <1>4, <1>5, <1>6 DEF SubmitInv

\* The state has been read: what it says of the own ballot decides, unless it was
\* confirmed already.
Failed == submit.phase = "reconciling" /\ ~Reconciled(Settled("submit").result, submit.election)

LEMMA DeliverReconciliationFacts ==
  ASSUME CacheInv, SubmitInv, DeliverReconciliation
  PROVE  /\ submit.phase \in Waiting /\ SubmitRequest.state = "answered" /\ Delivered("submit")
         /\ UNCHANGED <<status, counted, holders, valid, cookie, refresh>>
         /\ submit' \in Submissions
         /\ submit'.election = submit.election /\ submit'.user = submit.user /\ submit'.taken = submit.taken
         /\ submit'.phase = (IF Failed THEN "idle" ELSE "loading")
         /\ submit'.told = (IF Failed THEN "failure" ELSE "nothing")
         /\ Failed => submit'.answer = "none"
         /\ ~Failed => submit'.session = submit.session /\ submit'.answer = submit.answer
         /\ IF Settled("submit").signsOut THEN submit'.event = "session" ELSE submit'.event = submit.event
<1> DEFINE d == Settled("submit")
           noticed == IF d.signsOut THEN Noticed("session") ELSE submit
           loading == [noticed EXCEPT !.phase = "loading"]
<1>1. /\ submit.phase \in Waiting /\ Delivering("submit") /\ (KeepLoad(d) \/ ReloadPage(d))
      /\ submit' = (IF Failed THEN Ended(noticed, "failure") ELSE Orphaned(loading))
      /\ UNCHANGED <<status, counted, holders, valid, cookie, refresh>>
  BY DEF DeliverReconciliation, Failed, Waiting, Delivering, serverVars, sessionVars
<1>2. Delivered("submit") /\ SubmitRequest.state = "answered"
  BY <1>1, DeliveredOthers, SubmitCaller DEF Delivering, SubmitRequest
<1>3. submit \in Submissions /\ submit.election # Null /\ submit.told = "nothing"
  BY <1>1 DEF SubmitInv, SubmitShape, Waiting, Submissions
<1>4. /\ Amends(noticed, submit)
      /\ IF d.signsOut THEN noticed.event = "session" ELSE noticed.event = submit.event
  BY <1>3, NoticedFields DEF Amends
<1> HIDE DEF noticed, d
<1>5. /\ loading \in Submissions /\ loading.phase = "loading" /\ loading.election = submit.election
      /\ loading.user = submit.user /\ loading.taken = submit.taken /\ loading.told = "nothing"
      /\ loading.session = submit.session /\ loading.answer = submit.answer /\ loading.event = noticed.event
  BY <1>3, <1>4 DEF Amends, Submissions
<1> HIDE DEF loading
<1>6. CASE Failed
  BY <1>1, <1>2, <1>4, <1>6, EndedFields DEF Amends, d
<1>7. CASE ~Failed
  <2>1. submit' = Orphaned(loading)
    BY <1>1, <1>7
  <2>2. Amends(submit', loading) /\ submit'.event = loading.event
    BY <1>5, <2>1, OrphanedFields
  <2>3. QED
    BY <1>1, <1>2, <1>4, <1>5, <1>7, <2>2 DEF Amends, d
<1>8. QED
  BY <1>6, <1>7

\* What the submission's own read gives, if it was not overtaken.
LEMMA SubmitResult ==
  ASSUME CacheInv, SubmitRequest.state = "answered", ~Settled("submit").signsOut
  PROVE  /\ Settled("submit").result =
              (IF SubmitRequest.live /\ SubmitRequest.answer.kind = "state" THEN SubmitRequest.answer.state ELSE Null)
         /\ SubmitRequest.answer.kind = "state" => SubmitRequest.answer.state \in VotingStates
         /\ AnsweredOK(SubmitRequest, holders, counted)
<1>1. /\ Settled("submit").result =
            (IF Before("submit").request["submit"].live /\ SubmitRequest.answer.kind = "state"
             THEN SubmitRequest.answer.state ELSE Null)
      /\ SubmitRequest.answer \in ServerAnswers
  BY SettledOK, SubmitCaller DEF SubmitRequest
<1>2. Before("submit") = cache
  BY DEF Before
<1>3. AnsweredOK(SubmitRequest, holders, counted)
  BY SubmitCaller DEF CacheInv, SlotOK, RequestsOK, SubmitRequest
<1>4. QED
  BY <1>1, <1>2, <1>3 DEF SubmitRequest, ServerAnswers

LEMMA DeliverReconciliationInv ==
  ASSUME CacheInv, SubmitInv, DeliverReconciliation PROVE SubmitInv'
<1> DEFINE d == Settled("submit")
<1>1. /\ submit.phase \in Waiting /\ SubmitRequest.state = "answered"
      /\ UNCHANGED <<status, counted, holders, valid, cookie>>
      /\ submit' \in Submissions
      /\ submit'.election = submit.election /\ submit'.user = submit.user /\ submit'.taken = submit.taken
      /\ submit'.phase = (IF Failed THEN "idle" ELSE "loading")
      /\ submit'.told = (IF Failed THEN "failure" ELSE "nothing")
      /\ Failed => submit'.answer = "none"
      /\ ~Failed => submit'.session = submit.session /\ submit'.answer = submit.answer
      /\ IF d.signsOut THEN submit'.event = "session" ELSE submit'.event = submit.event
  BY DeliverReconciliationFacts
<1>2. /\ SubmitRequest'.state = "none" /\ auth'.started = auth.started
      /\ ~d.signsOut => UNCHANGED auth /\ (route = "voting" => route' = "voting")
  BY DeliverReconciliationFacts, SubmitCaller DEF Delivered, SubmitRequest
<1>3. submit.election # Null
  BY <1>1 DEF SubmitInv, SubmitShape, Waiting
<1>4. SubmitShape'
  BY <1>1, <1>2, <1>3 DEF SubmitInv, SubmitShape, Waiting
<1>5. Undisturbed' => Undisturbed /\ ~d.signsOut /\ submit'.event = submit.event
  BY <1>1, <1>3 DEF Undisturbed
<1>6. ASSUME ~d.signsOut
      PROVE  /\ d.result = (IF SubmitRequest.live /\ SubmitRequest.answer.kind = "state" THEN SubmitRequest.answer.state ELSE Null)
             /\ SubmitRequest.answer.kind = "state" => SubmitRequest.answer.state \in VotingStates
             /\ AnsweredOK(SubmitRequest, holders, counted)
  BY <1>1, <1>6, SubmitResult
<1> HIDE DEF d
<1>7. Undisturbed' /\ ~Failed => HasVoted(submit.user, submit.election)
  <2>1. SUFFICES ASSUME Undisturbed', ~Failed PROVE HasVoted(submit.user, submit.election)
    OBVIOUS
  <2>2. CASE submit.phase = "confirming"
    BY <1>5, <2>1, <2>2 DEF SubmitInv, OwnSubmission
  <2>3. CASE submit.phase = "reconciling"
    <3>1. d.result # Null /\ d.result.open = submit.election /\ d.result.hasVoted
      BY <2>1, <2>3 DEF Failed, Reconciled, HasVotedIn, d
    <3>2. /\ SubmitRequest.answer.kind = "state" /\ SubmitRequest.answer.state = d.result
          /\ AnsweredOK(SubmitRequest, holders, counted)
      BY <1>5, <1>6, <2>1, <3>1
    <3>3. SubmitRequest.session = cookie /\ holders[cookie] = submit.user
      BY <1>1, <1>5, <2>1 DEF SubmitInv, OwnSubmission
    <3>4. QED
      BY <3>1, <3>2, <3>3 DEF AnsweredOK, HasVoted
  <2>4. QED
    BY <1>1, <2>2, <2>3 DEF Waiting
<1>8. OwnSubmission'
  BY <1>1, <1>2, <1>5, <1>7 DEF SubmitInv, OwnSubmission, HasVoted, Waiting
<1>9. Undisturbed' /\ submit'.event = "none" /\ Failed => ~submit.taken
  <2>1. SUFFICES ASSUME Undisturbed', submit'.event = "none", Failed, submit.taken PROVE FALSE
    OBVIOUS
  <2>2. /\ SubmitRequest.live /\ SubmitRequest.answer.kind = "state"
        /\ HasVotedIn(SubmitRequest.answer.state, submit.election)
    BY <1>1, <1>5, <2>1 DEF SubmitInv, CalmSubmission, Failed
  <2>3. d.result = SubmitRequest.answer.state /\ d.result \in VotingStates
    BY <1>5, <1>6, <2>1, <2>2
  <2>4. d.result # Null
    BY <2>3, AbsenceAssumption
  <2>5. QED
    BY <2>1, <2>2, <2>3, <2>4 DEF Failed, Reconciled, d
<1>10. CalmSubmission'
  BY <1>1, <1>2, <1>5, <1>9 DEF SubmitInv, CalmSubmission, HasVoted
<1>11. QED
  BY <1>4, <1>8, <1>10 DEF SubmitInv

LEMMA SubmitNextInv ==
  ASSUME CacheInv, SelectionsInv, SubmitInv, [Next]_vars PROVE SubmitInv'
<1>1. SessionInv
  BY DEF CacheInv
<1>2. CASE UNCHANGED vars
  <2>1. UNCHANGED <<submit, cookie, valid, holders, route, auth, status, counted, cache>>
    BY <1>2 DEF vars, serverVars, sessionVars, tabVars, pageVars
  <2>2. Aside
    BY <2>1, AsideQuiet DEF SubmitInv, SubmitShape, SubmitRequest
  <2>3. QED
    BY <1>1, <2>2, AsideInv
<1>3. CASE Administrators \/ Elsewhere \/ Session
  BY <1>1, <1>3, ElsewhereAside, SessionAside, AsideInv
<1>4. ASSUME NEW c \in Callers, Serve(c) PROVE SubmitInv'
  BY <1>1, <1>4, ServeAside, ServeSubmitInv, AsideInv
<1>5. CASE DeliverLoad \/ CountdownZero \/ DeliverRefresh \/ FinishRefresh \/ RefreshAgain \/ FillIn
  BY <1>1, <1>5, PageAside, AsideInv
<1>6. QED
  BY <1>2, <1>3, <1>4, <1>5, ServeSubmissionInv, ClickSubmitInv, DeliverSubmissionStep, DeliverReconciliationInv,
     FinishSubmissionInv DEF Next, Network, Page

-----------------------------------------------------------------------------
(* The refresh at the end of a countdown.                                     *)

Fetching == {"fetching", "fetching again"}

RefreshInv ==
  /\ refresh = [phase |-> refresh.phase, election |-> refresh.election, again |-> refresh.again]
  /\ refresh.phase \notin Fetching => cache.request["refresh"].state = "none"

LEMMA RefreshRests ==
  ASSUME RefreshInv, UNCHANGED refresh, Follows(cache', cache, "refresh") PROVE RefreshInv'
BY DEF RefreshInv, Follows

LEMMA RefreshNextInv ==
  ASSUME CacheInv, SubmitInv, RefreshInv, [Next]_vars PROVE RefreshInv'
<1> DEFINE empty == Invalidated(cache, Version)
<1>0. "refresh" \in Callers \ {"load", "submit"} /\ "submit" \in Callers \ {"load", "refresh"} /\ "load" \in Callers
  BY SubmitCaller
<1>1. Good(empty) /\ \A c \in Callers : Follows(empty, cache, c)
  BY EmptiedFollows
<1>2. cookie \in Nat /\ Version \in Int /\ cache \in Slots /\ empty \in Slots
  BY <1>1, SessionType, VersionType DEF CacheInv, SlotOK, Good
<1>3. ASSUME cache' = empty, UNCHANGED refresh PROVE RefreshInv'
  BY <1>0, <1>1, <1>3, RefreshRests
<1>4. ASSUME UNCHANGED <<cache, refresh>> PROVE RefreshInv'
  BY <1>0, <1>4, RefreshRests, SameFollows
<1>5. CASE UNCHANGED vars
  BY <1>4, <1>5 DEF vars, pageVars
<1>6. CASE Administrators \/ Elsewhere \/ ServeSubmission
  <2>1. UNCHANGED <<pageVars, refresh>>
    BY <1>6 DEF Administrators, CloseElection, BackToDraft, OpenElection, ChangeStatus, Elsewhere, CastElsewhere,
                LogoutElsewhere, RevokeSession, LoginElsewhere, ServeSubmission
  <2>2. QED
    BY <1>4, <2>1 DEF pageVars
<1>7. CASE Session
  <2>1. CASE Start \/ Retry \/ Show
    BY <1>3, <2>1 DEF Start, Retry, Show, InitializeAuth
  <2>2. CASE ReceiveLogout \/ FinishLogout
    BY <1>3, <2>2 DEF ReceiveLogout, FinishLogout, SignOut
  <2>3. CASE Hide \/ ClickLogout
    BY <1>4, <2>3 DEF Hide, ClickLogout, pageVars
  <2>4. CASE DeliverBootstrap
    <3> DEFINE l == Loading(empty, pageData)
    <3>1. UNCHANGED refresh /\ (cache' = cache \/ cache' = empty \/ cache' = l.cache)
      BY <2>4 DEF DeliverBootstrap, SignOut, SignIn, StartLoad
    <3>2. l.cache.request["refresh"] = empty.request["refresh"]
      BY <1>0, <1>1, LoadingRequests DEF CacheInv
    <3> HIDE DEF l, empty
    <3>3. ASSUME cache' = l.cache PROVE RefreshInv'
      BY <1>0, <1>1, <3>1, <3>2, <3>3, RefreshRests DEF Follows
    <3>4. QED
      BY <1>3, <1>4, <3>1, <3>3
  <2>5. ASSUME NEW u \in Users, Login(u) PROVE RefreshInv'
    <3>1. cache' = Sent(empty, "load", cookie', Version) /\ UNCHANGED refresh /\ cookie' \in Nat
      BY <2>5 DEF Login, CacheInv, SessionInv
    <3> HIDE DEF empty
    <3>2. IsSent(cache', empty, "load", cookie', Version)
      BY <1>0, <1>2, <3>1, SentFields
    <3>3. Follows(cache', empty, "refresh")
      BY <1>0, <3>2, SentFollows
    <3>4. QED
      BY <1>0, <1>1, <3>1, <3>3, RefreshRests DEF Follows
  <2>6. QED
    BY <1>7, <2>1, <2>2, <2>3, <2>4, <2>5 DEF Session
<1>8. ASSUME NEW c \in Callers, Serve(c) PROVE RefreshInv'
  <2>1. PICK answer \in ServerAnswers : Served(c, answer)
    BY <1>8, ServeGives
  <2>2. CASE c = "refresh"
    BY <2>1, <2>2 DEF Served, RefreshInv
  <2>3. CASE c # "refresh"
    BY <1>0, <2>1, <2>3, RefreshRests DEF Served, IsAnswered, Follows
  <2>4. QED
    BY <2>2, <2>3
<1>9. CASE DeliverLoad \/ DeliverReconciliation
  <2>1. \E c \in Callers \ {"refresh"} : Delivering(c) /\ (KeepLoad(Settled(c)) \/ ReloadPage(Settled(c)))
    BY <1>0, <1>9 DEF DeliverLoad, DeliverReconciliation
  <2>2. \E c \in Callers \ {"refresh"} : Delivered(c)
    BY <2>1, DeliveredOthers
  <2>3. Follows(cache', cache, "refresh") /\ UNCHANGED refresh
    BY <1>0, <1>9, <2>2 DEF Delivered, DeliverLoad, DeliverReconciliation
  <2>4. QED
    BY <2>3, RefreshRests
<1>10. CASE DeliverRefresh
  <2>1. Delivered("refresh")
    BY <1>0, <1>10, DeliveredOthers DEF DeliverRefresh
  <2>2. cache'.request["refresh"].state = "none"
    BY <2>1 DEF Delivered
  <2> DEFINE again == /\ refresh.phase = "fetching" /\ refresh.election # Null
                      /\ Settled("refresh").result # Null /\ Settled("refresh").result.open = refresh.election
  <2>3. refresh' = [refresh EXCEPT !.phase = "loading", !.again = again]
    BY <1>10 DEF DeliverRefresh
  <2> HIDE DEF again
  <2>4. refresh' = [phase |-> "loading", election |-> refresh.election, again |-> again]
    BY <2>3 DEF RefreshInv
  <2>5. QED
    BY <2>2, <2>4 DEF RefreshInv
<1>11. CASE DeliverSubmission
  <2>1. PICK slot \in Slots : IsSent(cache', slot, "submit", cookie, Version) /\ \A c \in Callers : Follows(slot, cache, c)
    BY <1>11, DeliverSubmissionFacts
  <2>2. Follows(cache', slot, "refresh") /\ Follows(slot, cache, "refresh")
    BY <1>0, <2>1, SentFollows
  <2>3. QED
    BY <1>11, <2>2, RefreshRests DEF Follows, DeliverSubmission
<1>12. CASE CountdownZero
  BY <1>12 DEF CountdownZero, RefreshInv, Fetching
<1>13. CASE RefreshAgain
  BY <1>13 DEF RefreshAgain, RefreshInv, Fetching
<1>14. CASE FinishRefresh
  <2>1. refresh.phase = "loading" /\ UNCHANGED cache
    BY <1>14 DEF FinishRefresh, pageVars
  <2>2. \/ refresh' = [phase |-> "waiting", election |-> refresh.election, again |-> refresh.again]
        \/ refresh' = [phase |-> "idle", election |-> Null, again |-> FALSE]
    BY <1>14 DEF FinishRefresh, RefreshInv, NoRefresh
  <2>3. cache'.request["refresh"].state = "none"
    BY <2>1 DEF RefreshInv, Fetching
  <2>4. QED
    BY <2>2, <2>3 DEF RefreshInv
<1>15. CASE ClickSubmit \/ FinishSubmission \/ FillIn
  BY <1>4, <1>15 DEF ClickSubmit, FinishSubmission, FillIn, pageVars
<1>16. QED
  BY <1>5, <1>6, <1>7, <1>8, <1>9, <1>10, <1>11, <1>12, <1>13, <1>14, <1>15 DEF Next, Network, Page

-----------------------------------------------------------------------------
(* No ballot is offered again once it is confirmed.                           *)

\* A voting state in which a ballot may be cast in an election.
Offers(state, e) == state # Null /\ state.open = e /\ ~state.hasVoted

\* A slot that has no such state, unless another is on its way or the fetch has failed.
NoOffer(slot, session, e) ==
  /\ \A c \in Callers :
       slot.request[c].live =>
         /\ slot.request[c].session = session
         /\ slot.request[c].state = "answered" => ~Offers(slot.request[c].answer.state, e)
  /\ Offers(slot.data, e) => slot.inflight # Null \/ slot.error

LEMMA InvalidatedNoOffer ==
  ASSUME NEW new, NEW slot, NEW version, IsInvalidated(new, slot, version), NEW session, NEW e
  PROVE  NoOffer(new, session, e)
BY InvalidatedFollows DEF IsInvalidated, NoOffer, Offers

LEMMA SentNoOffer ==
  ASSUME NEW new, NEW slot, NEW caller \in Callers, NEW session, NEW version,
         IsSent(new, slot, caller, session, version), NEW e
  PROVE  NoOffer(new, session, e)
<1>1. caller # Null
  BY AbsenceAssumption
<1>2. \A c \in Callers \ {caller} : ~new.request[c].live
  BY SentFollows
<1>3. new.request[caller].session = session /\ new.request[caller].state = "sent" /\ new.inflight = caller
  BY DEF IsSent
<1>4. QED
  BY <1>1, <1>2, <1>3 DEF NoOffer

LEMMA AnsweredNoOffer ==
  ASSUME NEW new, NEW slot, NEW c \in Callers, NEW answer, IsAnswered(new, slot, c, answer),
         NEW session, NEW e, NoOffer(slot, session, e),
         slot.request[c].live => ~Offers(answer.state, e)
  PROVE  NoOffer(new, session, e)
BY DEF IsAnswered, NoOffer

LEMMA ResolvedNoOffer ==
  ASSUME NEW new, NEW slot, NEW c \in Callers, NEW answer, NEW succeeded, IsResolved(new, slot, c, answer, succeeded),
         NEW session, NEW e, NoOffer(slot, session, e),
         slot.request[c].live /\ succeeded => ~Offers(answer, e)
  PROVE  NoOffer(new, session, e)
<1>1. \A o \in Callers :
        new.request[o].live =>
          /\ new.request[o].session = session
          /\ new.request[o].state = "answered" => ~Offers(new.request[o].answer.state, e)
  BY DEF IsResolved, NoOffer, NoRequest
<1>2. Offers(new.data, e) => new.inflight # Null \/ new.error
  BY DEF IsResolved, NoOffer
<1>3. QED
  BY <1>1, <1>2 DEF NoOffer

\* A fetch that gives a state settles the slot, whatever else is under way.
LEMMA ResolvedAlone ==
  ASSUME NEW new, NEW slot, NEW sessions, NEW votes, RequestsOK(slot, sessions, votes),
         NEW c \in Callers, NEW answer, NEW succeeded, IsResolved(new, slot, c, answer, succeeded),
         slot.request[c].live, succeeded, NEW session, NEW e, ~Offers(answer, e)
  PROVE  NoOffer(new, session, e)
<1>1. \A o \in Callers : ~new.request[o].live
  BY DEF IsResolved, RequestsOK, NoRequest
<1>2. QED
  BY <1>1 DEF IsResolved, NoOffer

LEMMA LoadingNoOffer ==
  ASSUME ServerInv, SessionInv, NEW slot, Good(slot), NEW data, NEW e, NoOffer(slot, cookie, e)
  PROVE  NoOffer(Loading(slot, data).cache, cookie, e)
<1>1. CASE slot.data # Null \/ slot.inflight # Null
  BY <1>1 DEF Loading
<1>2. CASE slot.data = Null /\ slot.inflight = Null
  <2>1. "load" \in Callers /\ cookie \in Nat /\ Version \in Int /\ slot \in Slots
    BY CallersAssumption, SessionType, VersionType DEF Good, SlotOK
  <2>2. Loading(slot, data).cache = Sent(slot, "load", cookie, Version)
    BY <1>2 DEF Loading
  <2>3. QED
    BY <2>1, <2>2, SentFields, SentNoOffer
<1>3. QED
  BY <1>1, <1>2

\* What the load shows of such a slot: no ballot, unless a request is under way.
LEMMA LoadingShows ==
  ASSUME NEW slot, Good(slot), NEW e, NoOffer(slot, cookie, e), NEW data
  PROVE  LET l == Loading(slot, data)
         IN Offers(l.data.state, e) /\ ~l.data.error =>
              l.load # Null \/ slot.request["submit"].live \/ slot.request["refresh"].live
<1> DEFINE l == Loading(slot, data)
<1>1. CASE slot.data # Null
  <2>1. l.data = [state |-> slot.data, error |-> slot.error]
    BY <1>1 DEF Loading
  <2>2. SUFFICES ASSUME Offers(slot.data, e), ~slot.error
                 PROVE  slot.request["submit"].live \/ slot.request["refresh"].live
    BY <2>1
  <2>3. slot.inflight # Null /\ slot.inflight # "load" /\ slot.inflight \in Callers \union {Null}
    BY <1>1, <2>2 DEF NoOffer, Good, SlotOK, Slots
  <2>4. QED
    BY <2>3, CallersAssumption DEF Good, SlotOK, RequestsOK
<1>2. CASE slot.data = Null
  <2>1. l.load # Null
    BY <1>2, SubmitCaller, AbsenceAssumption DEF Loading
  <2>2. QED
    BY <2>1
<1>3. QED
  BY <1>1, <1>2

Confirmed == Undisturbed /\ (submit.phase \in {"confirming", "loading"} \/ submit.told = "success")

\* Once the page is loaded anew it has no such ballot, unless the load is not over yet or
\* a countdown's refresh has overtaken it.
PageWithoutBallot ==
  (submit.phase = "loading" \/ submit.told = "success") /\ Offers(pageData.state, submit.election) /\ ~pageData.error =>
    \/ refresh.phase \in Fetching
    \/ load # Null /\ (submit.told = "success" => refresh.phase = "loading")

ConfirmedInv == Confirmed => NoOffer(cache, cookie, submit.election) /\ PageWithoutBallot

LEMMA AmendsConfirmed ==
  ASSUME Amends(submit', submit), Confirmed'
  PROVE  /\ Confirmed /\ submit'.election = submit.election /\ submit'.phase = submit.phase
         /\ submit'.told = submit.told
BY DEF Amends, Confirmed, Undisturbed

LEMMA ConfirmedRests ==
  ASSUME ConfirmedInv, Amends(submit', submit), UNCHANGED <<pageData, load, refresh, cookie>>,
         Confirmed => NoOffer(cache', cookie, submit.election)
  PROVE  ConfirmedInv'
<1>1. SUFFICES ASSUME Confirmed' PROVE (NoOffer(cache, cookie, submit.election) /\ PageWithoutBallot)'
  BY DEF ConfirmedInv
<1>2. /\ Confirmed /\ submit'.election = submit.election /\ submit'.phase = submit.phase
      /\ submit'.told = submit.told
  BY <1>1, AmendsConfirmed
<1>3. QED
  BY <1>2 DEF ConfirmedInv, PageWithoutBallot

\* A session that changes hands ends what is promised of the submission.
LEMMA NoticedSession ==
  ASSUME submit \in Submissions, submit' = Orphaned(Noticed("session")) \/ submit' = Noticed("session")
  PROVE  ~Undisturbed'
<1>1. Amends(Noticed("session"), submit) /\ (submit.election # Null => Noticed("session").event = "session")
  BY NoticedFields
<1>2. submit'.election = submit.election /\ (submit.election # Null => submit'.event = "session")
  BY <1>1, OrphanedFields DEF Amends
<1>3. QED
  BY <1>2 DEF Undisturbed

LEMMA ElsewhereConfirmed ==
  ASSUME CacheInv, SubmitInv, ConfirmedInv, Administrators \/ Elsewhere PROVE ConfirmedInv'
<1>1. submit \in Submissions
  BY DEF SubmitInv, SubmitShape
<1>2. Amends(submit', submit)
  BY ElsewhereAside DEF Aside
<1>3. CASE LogoutElsewhere \/ RevokeSession \/ \E u \in Users : LoginElsewhere(u)
  <2>1. submit' = Noticed("session")
    BY <1>3 DEF LogoutElsewhere, RevokeSession, LoginElsewhere, Noticing
  <2>2. ~Undisturbed'
    BY <1>1, <2>1, NoticedSession
  <2>3. QED
    BY <2>2 DEF ConfirmedInv, Confirmed
<1>4. CASE Administrators \/ \E u \in Users, e \in ElectionIds : CastElsewhere(u, e)
  <2>1. UNCHANGED <<sessionVars, pageVars, refresh>>
    BY <1>4 DEF Administrators, CloseElection, BackToDraft, OpenElection, ChangeStatus, CastElsewhere
  <2>2. UNCHANGED <<cache, pageData, load, refresh, cookie>>
    BY <2>1 DEF sessionVars, pageVars
  <2>3. QED
    BY <1>2, <2>2, ConfirmedRests DEF ConfirmedInv
<1>5. QED
  BY <1>3, <1>4 DEF Elsewhere

LEMMA SessionConfirmed ==
  ASSUME CacheInv, SubmitInv, ConfirmedInv, Session PROVE ConfirmedInv'
<1>1. submit \in Submissions
  BY DEF SubmitInv, SubmitShape
<1>2. Amends(submit', submit)
  BY SessionAside DEF Aside
<1>3. CASE DeliverBootstrap \/ ReceiveLogout \/ FinishLogout \/ \E u \in Users : Login(u)
  <2>1. submit' = Orphaned(Noticed("session"))
    BY <1>3 DEF DeliverBootstrap, ReceiveLogout, FinishLogout, Login
  <2>2. ~Undisturbed'
    BY <1>1, <2>1, NoticedSession
  <2>3. QED
    BY <2>2 DEF ConfirmedInv, Confirmed
<1>4. CASE Start \/ Retry \/ Show
  <2>1. cache' = Invalidated(cache, Version) /\ UNCHANGED <<sessionVars, pageData, load, refresh>>
    BY <1>4 DEF Start, Retry, Show, InitializeAuth
  <2>2. Version \in Int /\ cache \in Slots
    BY VersionType DEF CacheInv, SlotOK
  <2>3. IsInvalidated(cache', cache, Version)
    BY <2>1, <2>2, InvalidatedFields
  <2>4. NoOffer(cache', cookie, submit.election)
    BY <2>3, InvalidatedNoOffer
  <2>5. QED
    BY <1>2, <2>1, <2>4, ConfirmedRests DEF sessionVars
<1>5. CASE Hide \/ ClickLogout
  <2>1. UNCHANGED <<cache, pageData, load, refresh, cookie>>
    BY <1>5 DEF Hide, ClickLogout, sessionVars, pageVars
  <2>2. QED
    BY <1>2, <2>1, ConfirmedRests DEF ConfirmedInv
<1>6. QED
  BY <1>3, <1>4, <1>5 DEF Session

\* What the server answers after the ballot has been counted.
LEMMA ServeConfirmed ==
  ASSUME CacheInv, SubmitInv, ConfirmedInv, NEW c \in Callers, Serve(c) PROVE ConfirmedInv'
<1>1. PICK answer \in ServerAnswers : Served(c, answer)
  BY ServeGives
<1>2. submit \in Submissions
  BY DEF SubmitInv, SubmitShape
<1>3. Amends(submit', submit)
  BY <1>1, <1>2, NoticedFields DEF Served, Amends
<1>4. ASSUME Confirmed, cache.request[c].live PROVE ~Offers(answer.state, submit.election)
  <2>1. cache.request[c].session = cookie
    BY <1>4 DEF ConfirmedInv, NoOffer
  <2>2. cookie \in valid /\ holders[cookie] = submit.user /\ HasVoted(submit.user, submit.election)
        /\ submit.election \in ElectionIds
    BY <1>2, <1>4 DEF Confirmed, Undisturbed, SubmitInv, OwnSubmission, Submissions
  <2>3. HolderOf(cache.request[c].session) = submit.user
    BY <2>1, <2>2 DEF HolderOf
  <2>4. CASE answer.kind = "state"
    <3>1. submit.user \in Users /\ answer.state = VotingStateOf(submit.user)
      BY <1>1, <2>3, <2>4 DEF Served
    <3>2. answer.state.open = submit.election => answer.state.hasVoted
      BY <2>2, <3>1, VotingStateOfType DEF CacheInv
    <3>3. QED
      BY <3>2 DEF Offers
  <2>5. CASE answer.kind # "state"
    BY <2>5 DEF ServerAnswers, Offers
  <2>6. QED
    BY <2>4, <2>5
<1>5. Confirmed => NoOffer(cache', cookie, submit.election)
  BY <1>1, <1>4, AnsweredNoOffer DEF Served, ConfirmedInv
<1>6. UNCHANGED <<pageData, load, refresh, cookie>>
  BY <1>1 DEF Served
<1>7. QED
  BY <1>3, <1>5, <1>6, ConfirmedRests

\* An answer that arrives settles the slot without a ballot.
LEMMA SettledNoOffer ==
  ASSUME CacheInv, NEW c \in Callers, Delivering(c), ~Settled(c).signsOut, NEW e, NoOffer(cache, cookie, e)
  PROVE  /\ NoOffer(Settled(c).slot, cookie, e)
         /\ ~Offers(Settled(c).result, e)
<1> DEFINE d == Settled(c)
           a == cache.request[c].answer
<1>1. cache.request[c].state = "answered" /\ Before(c) = cache
  BY DEF Delivering, Before
<1>2. IsResolved(d.slot, cache, c, a.state, a.kind = "state")
      /\ d.result = (IF cache.request[c].live /\ a.kind = "state" THEN a.state ELSE Null)
  BY <1>1, SettledOK
<1>3. cache.request[c].live => ~Offers(a.state, e)
  BY <1>1 DEF NoOffer
<1> HIDE DEF d, a
<1>4. NoOffer(d.slot, cookie, e)
  BY <1>2, <1>3, ResolvedNoOffer
<1>5. ~Offers(d.result, e)
  BY <1>2, <1>3 DEF Offers
<1>6. QED
  BY <1>4, <1>5 DEF d

LEMMA SettledGood ==
  ASSUME CacheInv, NEW c \in Callers, Delivering(c)
  PROVE  Good(Settled(c).slot) /\ ~Settled(c).slot.request[c].live
<1>1. IsResolved(Settled(c).slot, Before(c), c, cache.request[c].answer.state, cache.request[c].answer.kind = "state")
      /\ Good(Settled(c).slot)
  BY SettledOK DEF Delivering
<1>2. QED
  BY <1>1 DEF IsResolved, NoRequest

\* The page is loaded anew: it shows no ballot, unless another request is under way.
LEMMA ReloadConfirmed ==
  ASSUME CacheInv, NEW c \in Callers \ {"load"}, Delivering(c), ~Settled(c).signsOut, route = "voting",
         ReloadPage(Settled(c)), NEW e, NoOffer(Settled(c).slot, cookie, e)
  PROVE  /\ NoOffer(cache', cookie, e)
         /\ Offers(pageData'.state, e) /\ ~pageData'.error =>
              \/ load' # Null
              \/ c # "submit" /\ cache.request["submit"].live
              \/ c # "refresh" /\ cache.request["refresh"].live
<1> DEFINE d == Settled(c)
           l == Loading(d.slot, d.data)
<1>1. Good(d.slot) /\ ~d.slot.request[c].live
  BY SettledGood
<1>2. d.route = "voting"
  BY DEF Settled
<1>3. cache' = l.cache /\ load' = l.load /\ pageData' = l.data
  BY <1>2 DEF ReloadPage, StartLoad
<1>4. NoOffer(l.cache, cookie, e)
  BY <1>1, LoadingNoOffer DEF CacheInv
<1>5. Offers(l.data.state, e) /\ ~l.data.error =>
        l.load # Null \/ d.slot.request["submit"].live \/ d.slot.request["refresh"].live
  BY <1>1, LoadingShows
<1>6. \A o \in Callers \ {c} : d.slot.request[o] = cache.request[o]
  <2>1. Before(c) = cache
    BY DEF Before
  <2>2. QED
    BY <2>1, SettledOK DEF Delivering, IsResolved
<1> HIDE DEF d, l
<1>7. QED
  BY <1>1, <1>3, <1>4, <1>5, <1>6, SubmitCaller

LEMMA DeliverLoadConfirmed ==
  ASSUME CacheInv, SubmitInv, ConfirmedInv, DeliverLoad PROVE ConfirmedInv'
<1> DEFINE d == Settled("load")
           e == submit.election
<1>1. /\ Delivering("load") /\ KeepLoad(d) /\ UNCHANGED refresh
      /\ submit' = Orphaned(IF d.signsOut THEN Noticed("session") ELSE submit)
  BY DEF DeliverLoad
<1>2. submit \in Submissions
  BY DEF SubmitInv, SubmitShape
<1>3. CASE d.signsOut
  BY <1>1, <1>2, <1>3, NoticedSession DEF ConfirmedInv, Confirmed
<1>4. CASE ~d.signsOut
  <2>1. Amends(submit', submit)
    BY <1>1, <1>2, <1>4, OrphanedFields
  <2>2. SUFFICES ASSUME Confirmed' PROVE NoOffer(cache', cookie', submit'.election) /\ PageWithoutBallot'
    BY DEF ConfirmedInv
  <2>3. Confirmed /\ submit'.election = e /\ submit'.phase = submit.phase /\ submit'.told = submit.told
    BY <2>1, <2>2, AmendsConfirmed
  <2>4. UNCHANGED cookie
    BY <1>1 DEF Delivering, sessionVars
  <2>5. NoOffer(d.slot, cookie, e) /\ ~Offers(d.result, e)
    BY <1>1, <1>4, <2>3, SettledNoOffer, SubmitCaller DEF ConfirmedInv
  <2>6. \/ d.data = [state |-> d.result, error |-> d.result = Null]
        \/ d.data = pageData /\ d.load = load
    BY <1>4 DEF Settled
  <2> HIDE DEF d
  <2>7. cache' = d.slot /\ load' = d.load /\ pageData' = d.data
    BY <1>1 DEF KeepLoad
  <2>8. PageWithoutBallot'
    BY <1>1, <2>3, <2>5, <2>6, <2>7 DEF PageWithoutBallot, ConfirmedInv
  <2>9. QED
    BY <2>3, <2>4, <2>5, <2>7, <2>8
<1>5. QED
  BY <1>3, <1>4

LEMMA DeliverRefreshConfirmed ==
  ASSUME CacheInv, SubmitInv, RefreshInv, ConfirmedInv, DeliverRefresh PROVE ConfirmedInv'
<1> DEFINE d == Settled("refresh")
           e == submit.election
           again == /\ refresh.phase = "fetching" /\ refresh.election # Null
                    /\ d.result # Null /\ d.result.open = refresh.election
<1>1. /\ Delivering("refresh") /\ ReloadPage(d)
      /\ submit' = Orphaned(IF d.signsOut THEN Noticed("session") ELSE submit)
      /\ refresh' = [refresh EXCEPT !.phase = "loading", !.again = again]
  BY DEF DeliverRefresh
<1>2. submit \in Submissions
  BY DEF SubmitInv, SubmitShape
<1>3. CASE d.signsOut
  BY <1>1, <1>2, <1>3, NoticedSession DEF ConfirmedInv, Confirmed
<1>4. CASE ~d.signsOut
  <2>1. Amends(submit', submit)
    BY <1>1, <1>2, <1>4, OrphanedFields
  <2>2. SUFFICES ASSUME Confirmed' PROVE NoOffer(cache', cookie', submit'.election) /\ PageWithoutBallot'
    BY DEF ConfirmedInv
  <2>3. Confirmed /\ submit'.election = e /\ submit'.phase = submit.phase /\ submit'.told = submit.told
    BY <2>1, <2>2, AmendsConfirmed
  <2>4. UNCHANGED cookie /\ route = "voting"
    BY <1>1, <2>3 DEF Delivering, sessionVars, Confirmed, SubmitInv, OwnSubmission
  <2>5. NoOffer(d.slot, cookie, e)
    BY <1>1, <1>4, <2>3, SettledNoOffer, SubmitCaller DEF ConfirmedInv
  <2>6. /\ NoOffer(cache', cookie, e)
        /\ Offers(pageData'.state, e) /\ ~pageData'.error => load' # Null \/ cache.request["submit"].live
    BY <1>1, <1>4, <2>4, <2>5, ReloadConfirmed, SubmitCaller
  <2>7. submit.phase = "loading" \/ submit.told = "success" => ~cache.request["submit"].live
    BY SubmitCaller DEF SubmitInv, SubmitShape, SubmitRequest, Waiting, CacheInv, SlotOK, RequestsOK
  <2> HIDE DEF again
  <2>8. refresh'.phase = "loading"
    <3>1. refresh' = [phase |-> "loading", election |-> refresh.election, again |-> again]
      BY <1>1 DEF RefreshInv
    <3>2. QED
      BY <3>1
  <2> HIDE DEF d
  <2>9. PageWithoutBallot'
    BY <2>3, <2>6, <2>7, <2>8 DEF PageWithoutBallot
  <2>10. QED
    BY <2>3, <2>4, <2>6, <2>9
<1>5. QED
  BY <1>3, <1>4

LEMMA DeliverReconciliationConfirmed ==
  ASSUME CacheInv, SubmitInv, RefreshInv, ConfirmedInv, DeliverReconciliation PROVE ConfirmedInv'
<1> DEFINE d == Settled("submit")
           e == submit.election
<1>1. SUFFICES ASSUME Confirmed' PROVE NoOffer(cache', cookie', submit'.election) /\ PageWithoutBallot'
  BY DEF ConfirmedInv
<1>2. /\ submit.phase \in Waiting /\ SubmitRequest.state = "answered" /\ UNCHANGED <<cookie, refresh>>
      /\ submit'.election = e /\ submit'.phase = (IF Failed THEN "idle" ELSE "loading")
      /\ submit'.told = (IF Failed THEN "failure" ELSE "nothing")
      /\ IF d.signsOut THEN submit'.event = "session" ELSE submit'.event = submit.event
  BY DeliverReconciliationFacts
<1>3. ~Failed /\ ~d.signsOut /\ Undisturbed
  BY <1>1, <1>2 DEF Confirmed, Undisturbed
<1>4. route = "voting" /\ SubmitRequest.session = cookie
  BY <1>2, <1>3 DEF SubmitInv, OwnSubmission
<1>5. Delivering("submit") /\ ReloadPage(d)
  BY <1>3 DEF DeliverReconciliation, Failed
<1>6. NoOffer(d.slot, cookie, e)
  <2>1. CASE submit.phase = "confirming"
    <3>1. NoOffer(cache, cookie, e)
      BY <1>3, <2>1 DEF ConfirmedInv, Confirmed
    <3>2. QED
      BY <1>3, <1>5, <3>1, SettledNoOffer, SubmitCaller
  <2>2. CASE submit.phase = "reconciling"
    <3>1. d.result # Null /\ d.result.hasVoted
      BY <1>3, <2>2 DEF Failed, Reconciled, HasVotedIn
    <3>2. d.result = (IF SubmitRequest.live /\ SubmitRequest.answer.kind = "state" THEN SubmitRequest.answer.state ELSE Null)
      BY <1>2, <1>3, SubmitResult
    <3>3. SubmitRequest.live /\ SubmitRequest.answer.kind = "state" /\ ~Offers(SubmitRequest.answer.state, e)
      BY <3>1, <3>2 DEF Offers
    <3>4. Before("submit") = cache
      BY <1>3 DEF Before
    <3>5. IsResolved(d.slot, cache, "submit", SubmitRequest.answer.state, SubmitRequest.answer.kind = "state")
      BY <1>2, <3>4, SettledOK, SubmitCaller DEF SubmitRequest
    <3>6. RequestsOK(cache, holders, counted)
      BY DEF CacheInv, SlotOK
    <3> HIDE DEF d
    <3>7. QED
      BY <3>3, <3>5, <3>6, ResolvedAlone, SubmitCaller DEF SubmitRequest
  <2>3. QED
    BY <1>2, <2>1, <2>2 DEF Waiting
<1>7. /\ NoOffer(cache', cookie, e)
      /\ Offers(pageData'.state, e) /\ ~pageData'.error => load' # Null \/ cache.request["refresh"].live
  BY <1>3, <1>4, <1>5, <1>6, ReloadConfirmed, SubmitCaller
<1>8. cache.request["refresh"].live => refresh.phase \in Fetching
  BY SubmitCaller DEF RefreshInv, CacheInv, SlotOK, RequestsOK
<1>9. PageWithoutBallot'
  BY <1>2, <1>3, <1>7, <1>8 DEF PageWithoutBallot
<1>10. QED
  BY <1>2, <1>7, <1>9

LEMMA ConfirmedNextInv ==
  ASSUME CacheInv, SubmitInv, RefreshInv, ConfirmedInv, [Next]_vars PROVE ConfirmedInv'
<1>1. submit \in Submissions /\ Amends(submit, submit)
  BY DEF SubmitInv, SubmitShape, Amends
<1>2. cookie \in Nat /\ Version \in Int /\ cache \in Slots
  BY SessionType, VersionType DEF CacheInv, SlotOK
<1>3. CASE UNCHANGED vars
  <2>1. UNCHANGED <<submit, cache, pageData, load, refresh, cookie>>
    BY <1>3 DEF vars, sessionVars, pageVars
  <2>2. QED
    BY <1>1, <2>1, ConfirmedRests DEF ConfirmedInv
<1>4. CASE DeliverSubmission
  <2>1. PICK slot \in Slots : IsSent(cache', slot, "submit", cookie, Version)
    BY <1>4, DeliverSubmissionFacts
  <2>2. /\ submit.phase = "posted" /\ submit'.phase \in Waiting /\ submit'.told = submit.told
        /\ UNCHANGED <<cookie, refresh>>
    BY <1>4, DeliverSubmissionFacts DEF Waiting
  <2>3. submit'.told = "nothing" /\ submit'.phase # "loading"
    BY <1>1, <2>2 DEF SubmitInv, SubmitShape, Submissions, Waiting
  <2>4. NoOffer(cache', cookie', submit'.election)
    BY <2>1, <2>2, SentNoOffer, SubmitCaller
  <2>5. QED
    BY <2>3, <2>4 DEF ConfirmedInv, PageWithoutBallot
<1>5. CASE FinishSubmission
  <2>1. submit.phase = "loading" /\ submit' = Ended(submit, "success") /\ load = Null
        /\ UNCHANGED <<cookie, cache, pageData, load, refresh>>
    BY <1>5 DEF FinishSubmission, sessionVars, pageVars
  <2>2. /\ submit'.phase = "idle" /\ submit'.told = "success"
        /\ submit'.election = submit.election /\ submit'.event = submit.event
    BY <1>1, <2>1, EndedFields
  <2>3. QED
    BY <2>1, <2>2 DEF ConfirmedInv, Confirmed, Undisturbed, PageWithoutBallot
<1>6. CASE FinishRefresh
  <2>1. refresh.phase = "loading" /\ load = Null /\ UNCHANGED <<submit, cookie, cache, pageData, load>>
    BY <1>6 DEF FinishRefresh, sessionVars, pageVars
  <2>2. QED
    BY <2>1 DEF ConfirmedInv, Confirmed, Undisturbed, PageWithoutBallot, Fetching
<1>7. CASE CountdownZero \/ RefreshAgain
  <2>1. cache' = Sent(cache, "refresh", cookie, Version) /\ submit' = Noticed("other") /\ UNCHANGED cookie
    BY <1>7 DEF CountdownZero, RefreshAgain, Noticing, sessionVars
  <2>2. refresh'.phase \in Fetching
    <3>1. CASE CountdownZero
      BY <3>1 DEF CountdownZero, Fetching
    <3>2. CASE RefreshAgain
      <4>1. refresh' = [refresh EXCEPT !.phase = "fetching again", !.again = FALSE]
        BY <3>2 DEF RefreshAgain
      <4>2. refresh' = [phase |-> "fetching again", election |-> refresh.election, again |-> FALSE]
        BY <4>1 DEF RefreshInv
      <4>3. QED
        BY <4>2 DEF Fetching
    <3>3. QED
      BY <1>7, <3>1, <3>2
  <2>3. IsSent(cache', cache, "refresh", cookie, Version)
    BY <1>2, <2>1, SentFields, SubmitCaller
  <2>4. NoOffer(cache', cookie', submit'.election)
    BY <2>1, <2>3, SentNoOffer, SubmitCaller
  <2>5. QED
    BY <2>2, <2>4 DEF ConfirmedInv, PageWithoutBallot
<1>8. CASE ClickSubmit
  <2>1. submit'.phase = "posting" /\ submit'.told = "nothing"
    BY <1>8 DEF ClickSubmit, NoSubmission
  <2>2. QED
    BY <2>1 DEF ConfirmedInv, Confirmed
<1>9. CASE ServeSubmission
  <2>1. submit'.phase = "posted" /\ submit'.told = submit.told /\ submit.phase = "posting"
    BY <1>1, <1>9 DEF ServeSubmission, Submissions
  <2>2. QED
    BY <1>1, <2>1 DEF ConfirmedInv, Confirmed, SubmitInv, SubmitShape
<1>10. CASE FillIn
  <2>1. UNCHANGED <<submit, cache, pageData, load, refresh, cookie>>
    BY <1>10 DEF FillIn, sessionVars
  <2>2. QED
    BY <1>1, <2>1, ConfirmedRests DEF ConfirmedInv
<1>11. QED
  BY <1>3, <1>4, <1>5, <1>6, <1>7, <1>8, <1>9, <1>10, ElsewhereConfirmed, SessionConfirmed, ServeConfirmed,
     DeliverLoadConfirmed, DeliverRefreshConfirmed, DeliverReconciliationConfirmed DEF Next, Network, Page

-----------------------------------------------------------------------------

OutcomeInv == CacheInv /\ SelectionsInv /\ SubmitInv /\ RefreshInv /\ ConfirmedInv

LEMMA OutcomeInit == Init => OutcomeInv
<1> SUFFICES ASSUME Init PROVE OutcomeInv
  OBVIOUS
<1>1. CacheInv
  BY CacheInit
<1>2. Ballot = Null
  BY DEF Init, Ballot, Kind, Mounted
<1>3. /\ submit = NoSubmission /\ cache = Sent(EmptySlot, "load", cookie, Version)
      /\ refresh = NoRefresh
  BY DEF Init
<1>4. EmptySlot \in Slots /\ \A c \in Callers : EmptySlot.request[c].state = "none"
  BY AbsenceAssumption DEF EmptySlot, NoRequest, Slots, Requests
<1>5. cookie \in Nat /\ Version \in Int
  BY <1>1, SessionType, VersionType DEF CacheInv
<1>6. IsSent(cache, EmptySlot, "load", cookie, Version)
  BY <1>3, <1>4, <1>5, SentFields, SubmitCaller
<1>7. cache.request["submit"].state = "none" /\ cache.request["refresh"].state = "none"
  BY <1>4, <1>6, SentFollows, SubmitCaller DEF Follows
<1>8. submit \in Submissions
  BY <1>3 DEF NoSubmission, Submissions
<1>9. SubmitInv
  BY <1>3, <1>7, <1>8 DEF NoSubmission, SubmitInv, SubmitShape, OwnSubmission, CalmSubmission, SubmitRequest, Undisturbed
<1>10. RefreshInv
  BY <1>3, <1>7 DEF RefreshInv, NoRefresh
<1>11. ConfirmedInv
  BY <1>3 DEF NoSubmission, ConfirmedInv, Confirmed, Undisturbed
<1>12. QED
  BY <1>1, <1>2, <1>9, <1>10, <1>11 DEF OutcomeInv, SelectionsInv

LEMMA OutcomeNextInv == OutcomeInv /\ [Next]_vars => OutcomeInv'
<1> SUFFICES ASSUME OutcomeInv, [Next]_vars PROVE OutcomeInv'
  OBVIOUS
<1>1. CacheInv'
  BY CacheNextInv DEF OutcomeInv
<1>2. PageInv /\ PageInv'
  BY <1>1 DEF OutcomeInv, CacheInv
<1>3. QED
  BY <1>1, <1>2, SelectionsNextInv, SubmitNextInv, RefreshNextInv, ConfirmedNextInv DEF OutcomeInv

LEMMA OutcomeInvariant == VotingClientSpec => []OutcomeInv
BY OutcomeInit, OutcomeNextInv, PTL DEF VotingClientSpec

\* What a voter is told about a submission is what happened, for any numbers of users,
\* elections, forms, requests, lost answers and events elsewhere
\* (submitVoteWithReconciliation).
THEOREM VoterToldTruly == VotingClientSpec => []OutcomeToldTruly
<1>1. OutcomeInv => OutcomeToldTruly
  BY DEF OutcomeInv, SubmitInv, SubmitShape, OwnSubmission, CalmSubmission, Undisturbed, OutcomeToldTruly,
         SubmittedMeansCounted, FailureMeansUncounted
<1>2. QED
  BY <1>1, OutcomeInvariant, PTL

\* A ballot just cast is not offered again by any fetch that began earlier, and what is
\* selected is on the form that is shown (the voting page and its stepper).
THEOREM VoterOfferedRightly == VotingClientSpec => []BallotOfferedRightly
<1>1. OutcomeInv => NotOfferedAgain
  <2> SUFFICES ASSUME OutcomeInv, submit.told = "success", submit.event # "session", refresh.phase = "idle",
                      Ballot # Null, Ballot.election = submit.election
               PROVE  FALSE
    BY DEF NotOfferedAgain
  <2>1. /\ submit.election # Null /\ pageData.state # Null /\ pageData.state.open = submit.election
        /\ ~pageData.state.hasVoted /\ ~pageData.error
    BY BallotFacts DEF OutcomeInv, CacheInv, BallotRight, SubmitInv, SubmitShape
  <2>2. Confirmed /\ Offers(pageData.state, submit.election)
    BY <2>1 DEF Confirmed, Undisturbed, Offers
  <2>3. QED
    BY <2>1, <2>2 DEF OutcomeInv, ConfirmedInv, PageWithoutBallot, Fetching
<1>2. OutcomeInv => SelectionsOnForm
  BY DEF OutcomeInv, SelectionsInv, Selects, SelectionsOnForm
<1>3. QED
  BY <1>1, <1>2, OutcomeInvariant, PTL DEF BallotOfferedRightly

-----------------------------------------------------------------------------
(* Turnout. Known ballots only grow in number; a backfill turns linked votes  *)
(* into participations, and what it moves accounts for what the reads of one  *)
(* request may count twice or miss.                                           *)

ReadValues == [OnBallot -> Nat] \union Nat \union BOOLEAN \union {Null}

ResultsRequest ==
  [phase : {"none", "reading"}, viewer : ResultsViewers \union {Null},
   reads : [Statements \union {"rows"} -> ReadValues], begun : Nat, moved : Nat]

TallyType == [votes : [OnBallot -> Nat], participation : Nat, linked : Nat, snapshots : Nat]
PastType == [cast : Nat, asked : Nat, moved : Nat]

\* Each read is of the table as it was at some moment of the request.
ReadsBracketed ==
  LET reads == resultsRequest.reads
      slack == turnoutPast.moved - resultsRequest.moved
  IN /\ slack >= 0 /\ resultsRequest.begun <= KnownBallots
     /\ reads["participation"] # Null =>
          /\ reads["participation"] \in Nat
          /\ reads["participation"] <= tally.participation
          /\ resultsRequest.begun - tally.linked - slack <= reads["participation"]
     /\ reads["linked"] # Null =>
          /\ reads["linked"] \in Nat
          /\ tally.linked <= reads["linked"] /\ reads["linked"] <= tally.linked + slack
     /\ reads["snapshots"] # Null =>
          reads["snapshots"] \in Nat /\ reads["snapshots"] <= tally.snapshots

TurnoutInv ==
  /\ tally \in TallyType /\ turnoutPast \in PastType /\ resultsRequest \in ResultsRequest
  /\ IF resultsRequest.phase = "reading" THEN ReadsBracketed ELSE resultsRequest = NoResultsRequest

\* A ballot adds one to everything that is counted.
LEMMA InsertBallotInv ==
  ASSUME TurnoutInv, NEW c \in OnBallot, InsertBallot(c) PROVE TurnoutInv'
<1>1. /\ tally' = [tally EXCEPT !.votes[c] = @ + 1, !.participation = @ + 1, !.snapshots = @ + 1]
      /\ turnoutPast' = [turnoutPast EXCEPT !.cast = @ + 1] /\ resultsRequest' = resultsRequest
  BY DEF InsertBallot
<1>2. /\ tally'.participation = tally.participation + 1 /\ tally'.linked = tally.linked
      /\ tally'.snapshots = tally.snapshots + 1 /\ tally' \in TallyType
  <2> DEFINE counts == [tally.votes EXCEPT ![c] = @ + 1]
  <2>1. tally \in TallyType /\ counts \in [OnBallot -> Nat]
    BY DEF TurnoutInv, TallyType
  <2>2. tally' = [tally EXCEPT !.votes = counts, !.participation = @ + 1, !.snapshots = @ + 1]
    BY <1>1
  <2>3. tally.participation + 1 \in Nat /\ tally.snapshots + 1 \in Nat
    BY <2>1 DEF TallyType
  <2> HIDE DEF counts
  <2>4. tally' = [votes |-> counts, participation |-> tally.participation + 1,
                  linked |-> tally.linked, snapshots |-> tally.snapshots + 1]
    BY <2>1, <2>2 DEF TallyType
  <2>5. QED
    BY <2>1, <2>3, <2>4 DEF TallyType
<1>3. turnoutPast'.moved = turnoutPast.moved /\ turnoutPast' \in PastType
  BY <1>1 DEF TurnoutInv, PastType
<1>4. /\ tally.participation \in Nat /\ tally.linked \in Nat /\ tally.snapshots \in Nat
      /\ turnoutPast.moved \in Nat /\ resultsRequest.begun \in Nat /\ resultsRequest.moved \in Nat
  BY DEF TurnoutInv, TallyType, PastType, ResultsRequest
<1>5. ReadsBracketed => ReadsBracketed'
  <2> SUFFICES ASSUME ReadsBracketed PROVE ReadsBracketed'
    OBVIOUS
  <2> DEFINE reads == resultsRequest.reads
             slack == turnoutPast.moved - resultsRequest.moved
  <2>1. slack' = slack + 0 /\ slack \in Int /\ reads' = reads
        /\ KnownBallots' = KnownBallots + 1 /\ KnownBallots \in Nat
    BY <1>1, <1>2, <1>3, <1>4 DEF KnownBallots
  <2>2. slack' >= 0 /\ resultsRequest'.begun <= KnownBallots'
    BY <1>1, <1>2, <1>3, <1>4, <2>1 DEF ReadsBracketed
  <2>3. ASSUME reads["participation"] # Null
        PROVE  /\ reads["participation"] \in Nat
               /\ reads["participation"] <= tally'.participation
               /\ resultsRequest'.begun - tally'.linked - slack' <= reads["participation"]
    BY <1>1, <1>2, <1>3, <1>4, <2>1, <2>3 DEF ReadsBracketed
  <2>4. ASSUME reads["linked"] # Null
        PROVE  /\ reads["linked"] \in Nat
               /\ tally'.linked <= reads["linked"] /\ reads["linked"] <= tally'.linked + slack'
    BY <1>1, <1>2, <1>3, <1>4, <2>1, <2>4 DEF ReadsBracketed
  <2>5. ASSUME reads["snapshots"] # Null
        PROVE  reads["snapshots"] \in Nat /\ reads["snapshots"] <= tally'.snapshots
    BY <1>1, <1>2, <1>3, <1>4, <2>1, <2>5 DEF ReadsBracketed
  <2>6. QED
    BY <2>1, <2>2, <2>3, <2>4, <2>5 DEF ReadsBracketed
<1>6. QED
  BY <1>1, <1>2, <1>3, <1>5 DEF TurnoutInv

\* A backfill moves the linked ballots and is remembered as slack.
LEMMA AnonymizeLegacyInv ==
  ASSUME TurnoutInv, AnonymizeLegacy PROVE TurnoutInv'
<1>1. /\ tally' = [tally EXCEPT !.participation = @ + tally.linked, !.linked = 0]
      /\ turnoutPast' = [turnoutPast EXCEPT !.moved = @ + tally.linked]
      /\ resultsRequest' = resultsRequest
  BY DEF AnonymizeLegacy
<1>2. /\ tally.participation \in Nat /\ tally.linked \in Nat /\ tally.snapshots \in Nat
      /\ turnoutPast.moved \in Nat /\ resultsRequest.begun \in Nat /\ resultsRequest.moved \in Nat
  BY DEF TurnoutInv, TallyType, PastType, ResultsRequest
<1>3. /\ tally'.participation = tally.participation + tally.linked /\ tally'.linked = 0
      /\ tally'.snapshots = tally.snapshots /\ tally' \in TallyType
  <2>1. tally \in TallyType /\ tally.participation + tally.linked \in Nat
    BY <1>2 DEF TurnoutInv
  <2>2. QED
    BY <1>1, <2>1 DEF TallyType
<1>4. turnoutPast'.moved = turnoutPast.moved + tally.linked /\ turnoutPast' \in PastType
  BY <1>1, <1>2 DEF TurnoutInv, PastType
<1>5. ReadsBracketed => ReadsBracketed'
  <2> SUFFICES ASSUME ReadsBracketed PROVE ReadsBracketed'
    OBVIOUS
  <2> DEFINE reads == resultsRequest.reads
             slack == turnoutPast.moved - resultsRequest.moved
  <2>1. slack' = slack + tally.linked /\ slack \in Int /\ reads' = reads
        /\ KnownBallots' = KnownBallots + 0 /\ KnownBallots \in Nat
    BY <1>1, <1>2, <1>3, <1>4 DEF KnownBallots
  <2>2. slack' >= 0 /\ resultsRequest'.begun <= KnownBallots'
    BY <1>1, <1>2, <1>3, <1>4, <2>1 DEF ReadsBracketed
  <2>3. ASSUME reads["participation"] # Null
        PROVE  /\ reads["participation"] \in Nat
               /\ reads["participation"] <= tally'.participation
               /\ resultsRequest'.begun - tally'.linked - slack' <= reads["participation"]
    BY <1>1, <1>2, <1>3, <1>4, <2>1, <2>3 DEF ReadsBracketed
  <2>4. ASSUME reads["linked"] # Null
        PROVE  /\ reads["linked"] \in Nat
               /\ tally'.linked <= reads["linked"] /\ reads["linked"] <= tally'.linked + slack'
    BY <1>1, <1>2, <1>3, <1>4, <2>1, <2>4 DEF ReadsBracketed
  <2>5. ASSUME reads["snapshots"] # Null
        PROVE  reads["snapshots"] \in Nat /\ reads["snapshots"] <= tally'.snapshots
    BY <1>1, <1>2, <1>3, <1>4, <2>1, <2>5 DEF ReadsBracketed
  <2>6. QED
    BY <2>1, <2>2, <2>3, <2>4, <2>5 DEF ReadsBracketed
<1>6. QED
  BY <1>1, <1>3, <1>4, <1>5 DEF TurnoutInv

\* A request begins with nothing read.
LEMMA AskResultsInv ==
  ASSUME TurnoutInv, NEW viewer \in ResultsViewers, AskResults(viewer) PROVE TurnoutInv'
<1> DEFINE begun == [NoResultsRequest EXCEPT !.phase = "reading", !.viewer = viewer,
                       !.begun = KnownBallots, !.moved = turnoutPast.moved]
<1>1. /\ UNCHANGED tally /\ turnoutPast' = [turnoutPast EXCEPT !.asked = @ + 1]
      /\ resultsRequest' = begun \/ resultsRequest' = NoResultsRequest
  BY DEF AskResults
<1>2. /\ tally.participation \in Nat /\ tally.linked \in Nat /\ turnoutPast.moved \in Nat
      /\ KnownBallots \in Nat
  BY DEF TurnoutInv, TallyType, PastType, KnownBallots
<1>3. turnoutPast'.moved = turnoutPast.moved /\ turnoutPast' \in PastType
  BY <1>1 DEF TurnoutInv, PastType
<1>4. /\ begun \in ResultsRequest /\ begun.begun = KnownBallots /\ begun.moved = turnoutPast.moved
      /\ begun.reads = Unread /\ begun.phase = "reading"
  BY <1>2 DEF NoResultsRequest, ResultsRequest, Unread, ReadValues
<1>5. NoResultsRequest \in ResultsRequest /\ NoResultsRequest.phase = "none"
  BY DEF NoResultsRequest, ResultsRequest, Unread, ReadValues
<1> HIDE DEF begun
<1>6. CASE resultsRequest' = begun
  <2>1. ReadsBracketed'
    BY <1>1, <1>2, <1>3, <1>4, <1>6 DEF ReadsBracketed, KnownBallots, Unread, Statements
  <2>2. QED
    BY <1>1, <1>3, <1>4, <1>6, <2>1 DEF TurnoutInv
<1>7. CASE resultsRequest' = NoResultsRequest
  BY <1>1, <1>3, <1>5, <1>7 DEF TurnoutInv
<1>8. QED
  BY <1>1, <1>6, <1>7

\* What a read of one statement finds.
LEMMA ReadInv ==
  ASSUME TurnoutInv, resultsRequest.phase = "reading", UNCHANGED <<tally, turnoutPast>>,
         NEW statement \in Statements \union {"rows"}, NEW value \in ReadValues,
         resultsRequest' = [resultsRequest EXCEPT !.reads[statement] = value],
         statement # "rows" => value = Value(statement)
  PROVE  TurnoutInv'
<1> DEFINE reads == [resultsRequest.reads EXCEPT ![statement] = value]
<1>1. resultsRequest \in ResultsRequest /\ ReadsBracketed
  BY DEF TurnoutInv
<1>2. /\ resultsRequest'.reads = reads /\ resultsRequest'.begun = resultsRequest.begun
      /\ resultsRequest'.moved = resultsRequest.moved /\ resultsRequest'.phase = "reading"
  BY <1>1 DEF ResultsRequest
<1>3. reads \in [Statements \union {"rows"} -> ReadValues]
  BY <1>1 DEF ResultsRequest
<1>4. resultsRequest' \in ResultsRequest
  BY <1>1, <1>3 DEF ResultsRequest
<1>5. \A other \in Statements \union {"rows"} :
        reads[other] = IF other = statement THEN value ELSE resultsRequest.reads[other]
  BY <1>1 DEF ResultsRequest
<1>6. /\ tally.participation \in Nat /\ tally.linked \in Nat /\ tally.snapshots \in Nat
      /\ turnoutPast.moved \in Nat /\ resultsRequest.begun \in Nat /\ resultsRequest.moved \in Nat
  BY DEF TurnoutInv, TallyType, PastType, ResultsRequest
<1>7. /\ "participation" = statement => value = tally.participation
      /\ "linked" = statement => value = tally.linked
      /\ "snapshots" = statement => value = tally.snapshots
  BY DEF Value
<1> HIDE DEF reads
<1>8. ReadsBracketed'
  BY <1>1, <1>2, <1>5, <1>6, <1>7 DEF ReadsBracketed, KnownBallots, Statements
<1>9. QED
  BY <1>4, <1>8 DEF TurnoutInv

\* Every step keeps the reads bracketed.
LEMMA TurnoutNextInv == TurnoutInv /\ [TurnoutNext]_turnoutVars => TurnoutInv'
<1> SUFFICES ASSUME TurnoutInv, [TurnoutNext]_turnoutVars PROVE TurnoutInv'
  OBVIOUS
<1>1. ASSUME NEW statement \in Statements, ReadStatement(statement) PROVE TurnoutInv'
  <2>1. Value(statement) \in ReadValues
    BY DEF Statements, Value, ReadValues, TurnoutInv, TallyType
  <2>2. QED
    BY <1>1, <2>1, ReadInv DEF ReadStatement, Statements
<1>2. CASE ReadRows
  <2> DEFINE value == \E c \in OnBallot : tally.votes[c] > 0
  <2>1. value \in ReadValues
    BY DEF ReadValues
  <2>2. resultsRequest.phase = "reading"
    <3>1. CASE resultsRequest = NoResultsRequest
      BY <1>2, <3>1 DEF ReadRows, NeedsRows, FirstReadsDone, NoResultsRequest, Unread, Statements
    <3>2. QED
      BY <3>1 DEF TurnoutInv
  <2>3. QED
    BY <1>2, <2>1, <2>2, ReadInv DEF ReadRows
<1>3. CASE AnswerResults
  <2>1. NoResultsRequest \in ResultsRequest /\ NoResultsRequest.phase = "none"
    BY DEF NoResultsRequest, ResultsRequest, Unread, ReadValues
  <2>2. QED
    BY <1>3, <2>1 DEF AnswerResults, TurnoutInv
<1>4. CASE UNCHANGED <<tally, resultsRequest, turnoutPast>>
  BY <1>4 DEF TurnoutInv, ReadsBracketed, KnownBallots
<1>5. QED
  BY <1>1, <1>2, <1>3, <1>4, InsertBallotInv, AnonymizeLegacyInv, AskResultsInv
  DEF TurnoutNext, ElectionEnds, turnoutVars

\* The counts that a request adds up bracket the ballots that there were.
LEMMA BracketsAddUp == TurnoutInv => TurnoutBracketed
<1> SUFFICES ASSUME TurnoutInv, resultsRequest.phase = "reading", TurnoutRead(resultsRequest.reads)
             PROVE  LET reads == resultsRequest.reads
                        total == TotalBallotsRead(reads)
                        slack == turnoutPast.moved - resultsRequest.moved
                    IN /\ resultsRequest.begun - slack <= (IF total = Null THEN 0 ELSE total)
                       /\ total # Null => total <= KnownBallots + slack \/ total <= tally.snapshots
  BY DEF TurnoutBracketed
<1> DEFINE reads == resultsRequest.reads
           slack == turnoutPast.moved - resultsRequest.moved
<1>1. /\ tally.participation \in Nat /\ tally.linked \in Nat /\ tally.snapshots \in Nat
      /\ turnoutPast.moved \in Nat /\ resultsRequest.begun \in Nat /\ resultsRequest.moved \in Nat
  BY DEF TurnoutInv, TallyType, PastType, ResultsRequest
<1>2. /\ reads["participation"] # Null /\ reads["linked"] # Null /\ reads["snapshots"] # Null
  BY DEF TurnoutRead, FirstReadsDone
<1>3. ReadsBracketed
  BY DEF TurnoutInv
<1>4. Null \notin Int
  BY CountsAssumption
<1>5. QED
  BY <1>1, <1>2, <1>3, <1>4 DEF ReadsBracketed, TotalBallotsRead, KnownBallots

\* The ballots reported are as many as there were at some moment of the request, give or
\* take what a backfill moved meanwhile, for any numbers of ballots (getTurnout).
THEOREM TurnoutReadsCorrect == TurnoutSpec => []TurnoutBracketed
<1>1. TurnoutInit => TurnoutInv
  BY CountsAssumption DEF TurnoutInit, TurnoutInv, TallyType, PastType, ResultsRequest, NoResultsRequest,
     Unread, ReadValues
<1>2. QED
  BY <1>1, TurnoutNextInv, BracketsAddUp, PTL DEF TurnoutSpec

-----------------------------------------------------------------------------
(* The page of results. Only the newest request counts, and from the moment   *)
(* the page is closed none begins: what it shows is then what is counted,     *)
(* unless a ballot is cast after that.                                        *)

VoteCounts == [Standing -> Nat]

NotAbove(lower, upper) == \A c \in Standing : lower[c] <= upper[c]

\* Answers under way are no newer than the votes counted; the live one, if there is any,
\* is the only one and no older than what is shown.
ResultsRequestsInv ==
  /\ votesFor \in VoteCounts /\ shownResults \in VoteCounts /\ NotAbove(shownResults, votesFor)
  /\ resultsRequests \subseteq [live : BOOLEAN, votes : VoteCounts \union {Null}]
  /\ \A r, s \in resultsRequests : r.live /\ s.live => r = s
  /\ \A r \in resultsRequests :
       r.live /\ r.votes # Null => NotAbove(shownResults, r.votes) /\ NotAbove(r.votes, votesFor)

NoneCastLate ==
  /\ \A r \in resultsRequests : r.live /\ r.votes # Null => r.votes = votesFor
  /\ (\A r \in resultsRequests : ~r.live) => lastPollFailed \/ shownResults = votesFor

ResultsInv ==
  /\ ResultsRequestsInv
  /\ resultsPast \in [castLate : BOOLEAN]
  /\ PageStatus = "closed" /\ ~resultsPast.castLate => NoneCastLate

\* A refresh leaves one live request, without an answer.
LEMMA RefreshedRequests ==
  ASSUME ResultsRequestsInv, UNCHANGED <<votesFor, shownResults>>, Refresh
  PROVE  /\ ResultsRequestsInv'
         /\ (\E r \in resultsRequests' : r.live) /\ (\A r \in resultsRequests' : r.live => r.votes = Null)
<1> DEFINE fresh == [live |-> TRUE, votes |-> Null]
           dead == {[r EXCEPT !.live = FALSE] : r \in resultsRequests}
<1>1. resultsRequests' = {fresh} \union dead
  BY DEF Refresh
<1>2. \A s \in dead : s \in [live : BOOLEAN, votes : VoteCounts \union {Null}] /\ ~s.live
  BY DEF ResultsRequestsInv
<1>3. fresh \in [live : BOOLEAN, votes : VoteCounts \union {Null}] /\ fresh.live /\ fresh.votes = Null
  OBVIOUS
<1> HIDE DEF fresh, dead
<1>4. \A r \in resultsRequests' : r.live => r = fresh
  BY <1>1, <1>2
<1>5. resultsRequests' \subseteq [live : BOOLEAN, votes : VoteCounts \union {Null}]
  BY <1>1, <1>2, <1>3
<1>6. QED
  BY <1>1, <1>3, <1>4, <1>5 DEF ResultsRequestsInv, NotAbove, VoteCounts

\* Following the page's status, whether it closes or not.
LEMMA FollowStatusInv ==
  ASSUME ResultsInv, UNCHANGED <<votesFor, shownResults, lastPollFailed>>,
         FollowStatus(PageStatus, PageStatus'), PageStatus' \in {"open", "closed"}
  PROVE  ResultsInv'
<1>1. CASE PageStatus = "open" /\ PageStatus' = "closed"
  <2>1. Refresh /\ resultsPast' = [resultsPast EXCEPT !.castLate = FALSE]
    BY <1>1 DEF FollowStatus, RefreshAtEnd
  <2>2. QED
    BY <2>1, RefreshedRequests DEF ResultsInv, NoneCastLate
<1>2. CASE UNCHANGED <<resultsRequests, resultsPast>> /\ (PageStatus' = "closed" => PageStatus = "closed")
  BY <1>2 DEF ResultsInv, ResultsRequestsInv, NoneCastLate, NotAbove, VoteCounts
<1>3. PageStatus \in {"open", "closed"}
  BY DEF PageStatus, StatusAt
<1>4. QED
  BY <1>1, <1>2, <1>3 DEF FollowStatus

\* An answer with the votes as they are now replaces its request.
LEMMA ServeResultsInv ==
  ASSUME ResultsInv, NEW r \in resultsRequests, ServeResults(r) PROVE ResultsInv'
<1> DEFINE served_r == [r EXCEPT !.votes = votesFor]
<1>1. /\ resultsRequests' = (resultsRequests \ {r}) \union {served_r} /\ r.votes = Null
      /\ UNCHANGED <<votesFor, shownResults, lastPollFailed, resultsPast, knownElection, pageNow>>
  BY DEF ServeResults, resultsServerVars, resultsViewVars
<1>2. /\ served_r \in [live : BOOLEAN, votes : VoteCounts \union {Null}]
      /\ served_r.live = r.live /\ served_r.votes = votesFor
  BY DEF ResultsInv, ResultsRequestsInv
<1> HIDE DEF served_r
<1>3. ResultsRequestsInv'
  <2>1. NotAbove(shownResults, votesFor) /\ NotAbove(votesFor, votesFor)
    BY DEF ResultsInv, ResultsRequestsInv, NotAbove, VoteCounts
  <2>2. \A s \in resultsRequests' : s = served_r \/ (s \in resultsRequests /\ s # r)
    BY <1>1
  <2>3. QED
    BY <1>1, <1>2, <2>1, <2>2 DEF ResultsInv, ResultsRequestsInv, NotAbove
<1>4. NoneCastLate => NoneCastLate'
  <2>1. (\A s \in resultsRequests' : ~s.live) => (\A s \in resultsRequests : ~s.live)
    BY <1>1, <1>2
  <2>2. QED
    BY <1>1, <1>2, <2>1 DEF NoneCastLate
<1>5. QED
  BY <1>1, <1>3, <1>4 DEF ResultsInv, PageStatus

\* The live answer is shown, and no live request remains; another is dropped.
LEMMA ResultsArriveInv ==
  ASSUME ResultsInv, NEW r \in resultsRequests, ResultsArrive(r)
  PROVE  ResultsInv' /\ NotAbove(shownResults, shownResults')
<1>1. /\ resultsRequests' = resultsRequests \ {r} /\ r.votes # Null
      /\ shownResults' = IF r.live THEN r.votes ELSE shownResults
      /\ lastPollFailed' = IF r.live THEN FALSE ELSE lastPollFailed
      /\ UNCHANGED <<votesFor, resultsPast, knownElection, pageNow>>
  BY DEF ResultsArrive, Accepts, resultsServerVars
<1>2. r.live \in BOOLEAN /\ r.votes \in VoteCounts
  BY <1>1 DEF ResultsInv, ResultsRequestsInv
<1>3. CASE r.live
  <2>1. \A s \in resultsRequests' : ~s.live
    BY <1>1, <1>3 DEF ResultsInv, ResultsRequestsInv
  <2>2. shownResults' = r.votes /\ NotAbove(shownResults, r.votes) /\ NotAbove(r.votes, votesFor)
    BY <1>1, <1>3 DEF ResultsInv, ResultsRequestsInv
  <2>3. ResultsRequestsInv'
    BY <1>1, <1>2, <2>1, <2>2 DEF ResultsInv, ResultsRequestsInv, NotAbove
  <2>4. NoneCastLate => NoneCastLate'
    BY <1>1, <1>3, <2>1, <2>2 DEF NoneCastLate
  <2>5. QED
    BY <1>1, <2>2, <2>3, <2>4 DEF ResultsInv, PageStatus
<1>4. CASE ~r.live
  <2>1. NotAbove(shownResults, shownResults')
    BY <1>1, <1>4 DEF ResultsInv, ResultsRequestsInv, NotAbove, VoteCounts
  <2>2. ResultsRequestsInv'
    BY <1>1, <1>4 DEF ResultsInv, ResultsRequestsInv, NotAbove
  <2>3. NoneCastLate => NoneCastLate'
    BY <1>1, <1>4 DEF NoneCastLate
  <2>4. QED
    BY <1>1, <2>1, <2>2, <2>3 DEF ResultsInv, PageStatus
<1>5. QED
  BY <1>2, <1>3, <1>4

\* A failed request is remembered if it was the live one.
LEMMA ResultsFailInv ==
  ASSUME ResultsInv, NEW r \in resultsRequests, ResultsFail(r) PROVE ResultsInv'
<1>1. /\ resultsRequests' = resultsRequests \ {r}
      /\ lastPollFailed' = IF r.live THEN TRUE ELSE lastPollFailed
      /\ UNCHANGED <<votesFor, shownResults, resultsPast, knownElection, pageNow>>
  BY DEF ResultsFail, resultsServerVars
<1>2. ResultsRequestsInv'
  BY <1>1 DEF ResultsInv, ResultsRequestsInv, NotAbove
<1>3. NoneCastLate => NoneCastLate'
  BY <1>1 DEF NoneCastLate
<1>4. QED
  BY <1>1, <1>2, <1>3 DEF ResultsInv, PageStatus

\* A ballot cast after the page has closed is remembered.
LEMMA CastBallotInv ==
  ASSUME ResultsInv, NEW c \in Standing, CastBallot(c) PROVE ResultsInv'
<1>1. /\ votesFor' = [votesFor EXCEPT ![c] = @ + 1]
      /\ resultsPast' = [resultsPast EXCEPT !.castLate = @ \/ PageStatus = "closed"]
      /\ UNCHANGED <<shownResults, resultsRequests, lastPollFailed, knownElection, pageNow>>
  BY DEF CastBallot, resultsViewVars
<1>2. votesFor' \in VoteCounts /\ \A d \in Standing : votesFor[d] <= votesFor'[d]
  BY <1>1 DEF ResultsInv, ResultsRequestsInv, VoteCounts
<1>3. \A votes \in VoteCounts : NotAbove(votes, votesFor) => NotAbove(votes, votesFor')
  <2> SUFFICES ASSUME NEW votes \in VoteCounts, NotAbove(votes, votesFor), NEW d \in Standing
               PROVE  votes[d] <= votesFor'[d]
    BY DEF NotAbove
  <2>1. votes[d] \in Nat /\ votesFor[d] \in Nat /\ votesFor'[d] \in Nat
    BY <1>2 DEF ResultsInv, ResultsRequestsInv, VoteCounts
  <2>2. QED
    BY <1>2, <2>1 DEF NotAbove
<1>4. ResultsRequestsInv'
  BY <1>1, <1>2, <1>3 DEF ResultsInv, ResultsRequestsInv, NotAbove
<1>5. PageStatus' = "closed" /\ ~resultsPast'.castLate => FALSE
  BY <1>1 DEF ResultsInv, PageStatus
<1>6. resultsPast' \in [castLate : BOOLEAN]
  BY <1>1 DEF ResultsInv
<1>7. QED
  BY <1>4, <1>5, <1>6 DEF ResultsInv

\* What is shown is only ever replaced by the answer to a newer request.
LEMMA ResultsPageNextInv ==
  ASSUME ResultsInv, [ResultsPageNext]_resultsPageVars
  PROVE  ResultsInv' /\ NotAbove(shownResults, shownResults')
<1>1. shownResults' = shownResults => NotAbove(shownResults, shownResults')
  BY DEF ResultsInv, ResultsRequestsInv, NotAbove, VoteCounts
<1>2. PageStatus' \in {"open", "closed"}
  BY DEF PageStatus, StatusAt
<1>3. ASSUME NEW c \in Standing, CastBallot(c) PROVE ResultsInv' /\ UNCHANGED shownResults
  BY <1>3, CastBallotInv DEF CastBallot, resultsViewVars
<1>4. CASE UpdateNow
  <2>1. FollowStatus(PageStatus, PageStatus') /\ UNCHANGED <<votesFor, shownResults, lastPollFailed>>
    BY <1>4 DEF UpdateNow, PageStatus, resultsServerVars
  <2>2. QED
    BY <1>1, <1>2, <2>1, FollowStatusInv
<1>5. CASE Poll
  <2>1. /\ Refresh /\ PageStatus = "open"
        /\ UNCHANGED <<votesFor, shownResults, resultsPast, knownElection, pageNow>>
    BY <1>5 DEF Poll, resultsServerVars, resultsViewVars
  <2>2. QED
    BY <1>1, <2>1, RefreshedRequests DEF ResultsInv, PageStatus
<1>6. ASSUME NEW r \in electionRequests, ElectionArrives(r) PROVE ResultsInv' /\ UNCHANGED shownResults
  <2>1. UNCHANGED <<votesFor, pageNow, shownResults, lastPollFailed>>
    BY <1>6 DEF ElectionArrives, resultsServerVars
  <2>2. FollowStatus(PageStatus, PageStatus')
        \/ (UNCHANGED <<resultsRequests, resultsPast>> /\ (PageStatus' = "closed" => PageStatus = "closed"))
    BY <1>6, <2>1 DEF ElectionArrives, PageStatus, StatusAt
  <2>3. QED
    BY <1>2, <2>1, <2>2, FollowStatusInv
    DEF ResultsInv, ResultsRequestsInv, NoneCastLate, NotAbove, VoteCounts
<1>7. CASE UNCHANGED <<votesFor, knownElection, pageNow, shownResults, lastPollFailed, resultsRequests, resultsPast>>
  BY <1>1, <1>7 DEF ResultsInv, ResultsRequestsInv, NoneCastLate, NotAbove, VoteCounts, PageStatus
<1>8. ASSUME NEW r \in resultsRequests, ServeResults(r) \/ ResultsFail(r) PROVE ResultsInv' /\ UNCHANGED shownResults
  BY <1>8, ServeResultsInv, ResultsFailInv DEF ServeResults, ResultsFail, resultsViewVars
<1>9. QED
  <2>1. CASE UNCHANGED resultsPageVars
    BY <1>7, <2>1 DEF resultsPageVars, resultsServerVars, resultsViewVars
  <2>2. CASE ServerTick
    BY <1>7, <2>2 DEF ServerTick, resultsViewVars
  <2>3. ASSUME NEW election, ChangeElection(election) PROVE ResultsInv' /\ NotAbove(shownResults, shownResults')
    BY <1>7, <2>3 DEF ChangeElection, resultsViewVars
  <2>4. ASSUME NEW r \in electionRequests, ServeElection(r) \/ ElectionFails(r)
        PROVE  ResultsInv' /\ NotAbove(shownResults, shownResults')
    BY <1>7, <2>4 DEF ServeElection, ElectionFails, resultsServerVars, resultsViewVars
  <2>5. QED
    BY <1>1, <1>3, <1>4, <1>5, <1>6, <1>8, <2>1, <2>2, <2>3, <2>4, ResultsArriveInv DEF ResultsPageNext

\* Comparing the first two of the sorted candidates finds the one with more votes than
\* anybody else, if there is one.
LEMMA ElectedIsWinner ==
  ASSUME NEW votes \in VoteCounts
  PROVE  Elected(votes) = {c \in Standing : votes[c] > 0 /\ \A d \in Standing \ {c} : votes[c] > votes[d]}
<1> DEFINE top == {c \in Standing : IsTop(votes, c) /\ votes[c] > 0}
           ahead == {c \in Standing : votes[c] > 0 /\ \A d \in Standing \ {c} : votes[c] > votes[d]}
<1>1. \A c \in Standing : votes[c] \in Nat
  BY DEF VoteCounts
<1>2. Cardinality(top) = 1 <=> \E c : top = {c}
  BY StandingAssumption, FS_Subset, FS_Singleton
<1>3. ASSUME NEW c, top = {c} PROVE ahead = {c}
  BY <1>1, <1>3 DEF IsTop
<1>4. ASSUME NEW c \in ahead PROVE top = {c}
  BY <1>1 DEF IsTop
<1>5. QED
  BY <1>2, <1>3, <1>4 DEF Elected

\* The invariant holds, and what is shown is never taken back.
LEMMA ResultsPageInvariant == ResultsPageSpec => []ResultsInv /\ ResultsForward
<1>1. ResultsPageInit => ResultsInv
  BY StandingAssumption
  DEF ResultsPageInit, ResultsInv, ResultsRequestsInv, NoneCastLate, NotAbove, VoteCounts
<1>2. ResultsInv /\ NotAbove(shownResults, shownResults') =>
        \A c \in Standing : shownResults'[c] >= shownResults[c]
  BY DEF NotAbove
<1>3. QED
  BY <1>1, <1>2, ResultsPageNextInv, PTL DEF ResultsPageSpec, ResultsForward

\* The votes shown for a candidate never go down, whatever order answers arrive in (the
\* `results' entry of the cache).
THEOREM ResultsForwardCorrect == ResultsPageSpec => ResultsForward
BY ResultsPageInvariant, PTL

\* The winner named officially is the one who got more votes than anybody else, for any
\* candidates, numbers of votes, requests and clocks (the results pages).
THEOREM FinalCorrect == ResultsPageSpec => []FinalIsFinal
<1>1. ResultsInv => FinalIsFinal
  <2> SUFFICES ASSUME ResultsInv, PageStatus = "closed", ~lastPollFailed, ~resultsPast.castLate,
                      \A r \in resultsRequests : ~r.live
               PROVE  OfficialWinners = {c \in Standing : votesFor[c] > 0 /\ \A d \in Standing \ {c} : votesFor[c] > votesFor[d]}
    BY DEF FinalIsFinal
  <2>1. shownResults = votesFor
    BY DEF ResultsInv, NoneCastLate
  <2>2. QED
    BY <2>1, ElectedIsWinner DEF OfficialWinners, ResultsInv, ResultsRequestsInv
<1>2. QED
  BY <1>1, ResultsPageInvariant, PTL

-----------------------------------------------------------------------------
(* A behaviour of the pages together is one of each page: a step of another    *)
(* part leaves its variables alone.                                            *)

LEMMA PagesAreParts == VoterPagesSpec => VotingClientSpec /\ ResultsPageSpec /\ TurnoutSpec
<1>1. VoterPagesInit => Init /\ ResultsPageInit /\ TurnoutInit
  BY DEF VoterPagesInit
<1>2. ASSUME [VoterPagesNext]_voterPagesVars
      PROVE  [Next]_vars /\ [ResultsPageNext]_resultsPageVars /\ [TurnoutNext]_turnoutVars
  <2>1. CASE At("voting") /\ Next /\ UNCHANGED <<resultsPageVars, turnoutVars>>
    BY <2>1
  <2>2. CASE At("results") /\ ResultsPageNext /\ UNCHANGED <<vars, turnoutVars>>
    BY <2>2
  <2>3. CASE At("turnout") /\ TurnoutNext /\ UNCHANGED <<vars, resultsPageVars>>
    BY <2>3
  <2>4. CASE UNCHANGED voterPagesVars
    BY <2>4 DEF voterPagesVars
  <2>5. QED
    BY <1>2, <2>1, <2>2, <2>3, <2>4 DEF VoterPagesNext
<1>3. QED
  BY <1>1, <1>2, PTL DEF VoterPagesSpec, VotingClientSpec, ResultsPageSpec, TurnoutSpec

\* Whatever part a behaviour is about, what the pages show is right: the cache, what the
\* voter is told and offered, the results, and the turnout the server reads for them.
THEOREM VoterPagesCorrect ==
  VoterPagesSpec =>
    /\ [](CacheCorrect /\ OutcomeToldTruly /\ BallotOfferedRightly)
    /\ [](FinalIsFinal /\ TurnoutBracketed) /\ ResultsForward
BY PagesAreParts, VotingCacheCorrect, VoterToldTruly, VoterOfferedRightly, TurnoutReadsCorrect,
   ResultsForwardCorrect, FinalCorrect, PTL
=============================================================================
