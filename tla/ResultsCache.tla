----------------------------- MODULE ResultsCache -----------------------------
(***************************************************************************)
(* What a voter is shown of closed elections (getVotingState), and the     *)
(* cache of results that every isolate keeps. The cache has one entry. Its *)
(* key is the id of an election with the updated_at of the row that was    *)
(* read; its value is the promise of a query, so the requests that find    *)
(* the key share one query, running or not.                                *)
(*                                                                         *)
(* The isolates share nothing but the database, so one of them is          *)
(* modelled: the requests of the others only read. Of the response only    *)
(* the results are kept; next draft, ballot form and own vote are reads    *)
(* that nothing depends on.                                                *)
(***************************************************************************)
EXTENDS Elections

CONSTANTS
  RequestIds,   \* the requests for the voting state that reach the isolate
  MaxBallots,   \* bound: ballots per election
  MaxVersion    \* bound: updated_at stays below it

ASSUME BoundsAssumption == MaxBallots \in Nat /\ MaxVersion \in Int
ASSUME RequestsAssumption == Null \notin RequestIds

VARIABLES
  version,      \* elections.updated_at, which is kept in seconds
  tally,        \* how many ballots each election has
  request,      \* RequestIds -> what the request has read so far
  query,        \* RequestIds -> the query for results the request has issued
  cache,        \* the entry: the key, and the request whose query it holds
  rewound       \* history: the elections an edit has given an older version

serverVars == <<request, query, cache>>
vars == <<electionVars, version, tally, serverVars, rewound>>

\* What is used later of a row that was read.
ReadRow == [id : ElectionIds \union {Null}, version : Int, closesAt : Int \union {Null}]

NoRead == [id |-> Null, version |-> 0, closesAt |-> Null]

\* `open' says whether the open row is in its window by the request's clock, and
\* `expired' holds it when the clock has left it behind. `shown' is the closed
\* election whose results are awaited.
Request ==
  [phase : {"idle", "reading", "awaiting", "answered", "failed"}, clock : Int, ahead : BOOLEAN,
   pending : SUBSET {"open", "closed"}, open : BOOLEAN, expired : ReadRow, closed : ReadRow,
   shown : [id : ElectionIds \union {Null}, version : Int], promise : RequestIds \union {Null}]

NoRequest == [phase |-> "idle", clock |-> 0, ahead |-> FALSE, pending |-> {},
              open |-> FALSE, expired |-> NoRead, closed |-> NoRead,
              shown |-> [id |-> Null, version |-> 0], promise |-> Null]

\* A query for the results of an election; `ahead' says whether the clock of the
\* request that issued it was ahead of the database's.
NoQuery == [state |-> "none", election |-> Null, results |-> 0, ahead |-> FALSE]

Query == {NoQuery} \union [state : {"running", "done", "failed"}, election : ElectionIds,
                           results : 0..MaxBallots, ahead : BOOLEAN]

NoEntry == [id |-> Null, version |-> 0, promise |-> Null]

CacheTypeOK ==
  /\ ElectionsTypeOK
  /\ version \in [ElectionIds -> Int]
  /\ tally \in [ElectionIds -> 0..MaxBallots]
  /\ request \in [RequestIds -> Request]
  /\ query \in [RequestIds -> Query]
  /\ cache \in [id : ElectionIds \union {Null}, version : Int, promise : RequestIds \union {Null}]
  /\ rewound \in SUBSET ElectionIds

-----------------------------------------------------------------------------
(* The database: who writes updated_at, and how. *)

\* Mutant: a second change within a second keeps the version.
ClockVersion(e, t) == t

\* max(now, updated_at + 1)
NextVersion(e, t) == IF t > version[e] THEN t ELSE version[e] + 1

SetVersion(e, v) ==
  /\ v < MaxVersion
  /\ version' = [version EXCEPT ![e] = v]

Create(e, opens, closes, t) ==
  /\ CreateElection(e, opens, closes)
  /\ SetVersion(e, t)
  /\ UNCHANGED rewound

\* updateMetadata takes the Worker's clock as it is.
EditMetadata(e, opens, closes, t) ==
  /\ UpdateMetadata(e, opens, closes)
  /\ SetVersion(e, t)
  /\ rewound' = IF t < version[e] THEN rewound \union {e} ELSE rewound

Extend(e, closes, t) ==
  /\ ExtendClosingTime(e, closes, t)
  /\ SetVersion(e, NextVersion(e, now))
  /\ UNCHANGED rewound

ChangeStatus(e, to, opens, closes, t, ready) ==
  /\ Transition(e, to, opens, closes, t, ready, tally[e] > 0)
  /\ version' = [f \in ElectionIds |->
                   IF f = e \/ f \in Superseded(e, to) THEN NextVersion(f, t) ELSE version[f]]
  /\ \A f \in ElectionIds : version'[f] < MaxVersion
  /\ UNCHANGED rewound

CastBallot(e) ==
  /\ InWindow(e)
  /\ tally[e] < MaxBallots
  /\ tally' = [tally EXCEPT ![e] = @ + 1]
  /\ UNCHANGED <<electionVars, version, rewound>>

Administer ==
  /\ \E e \in ElectionIds, t \in WorkerClock :
       \/ \E opens \in OpenTimes \union {Null}, closes \in CloseTimes \union {Null} :
            Create(e, opens, closes, t)
       \/ \E opens \in OpenTimes \union {Null, election[e].opensAt},
             closes \in CloseTimes \union {Null, election[e].closesAt} :
            EditMetadata(e, opens, closes, t)
       \/ \E closes \in CloseTimes : Extend(e, closes, t)
       \/ \E to \in Statuses, opens \in OpenTimes \union {Null},
             closes \in CloseTimes \union {Null}, ready \in BOOLEAN :
            ChangeStatus(e, to, opens, closes, t, ready)
  /\ UNCHANGED tally

-----------------------------------------------------------------------------
(* getVotingState, await by await. *)

Read(e) == [id |-> e, version |-> version[e], closesAt |-> election[e].closesAt]

Start(r, t) ==
  /\ request[r].phase = "idle"
  /\ request' = [request EXCEPT ![r] =
                   [NoRequest EXCEPT !.phase = "reading", !.clock = t, !.ahead = t > now,
                                     !.pending = {"open", "closed"}]]
  /\ UNCHANGED <<query, cache>>

CurrentlyOpen(e, t) == EffectiveStatus(election[e], t) = "open"

\* Mutant: a row counts as expired on its last second already.
ExpiredAtDeadline(e, t) == election[e].closesAt # Null /\ t >= election[e].closesAt

\* An open row that the clock has left behind.
Expired(e, t) ==
  /\ ~CurrentlyOpen(e, t)
  /\ election[e].opensAt # Null /\ election[e].closesAt # Null
  /\ t > election[e].closesAt

\* The reads are issued together, and served in any order. The row is judged by
\* the clock that the request has read already.
FindOpen(r) ==
  LET row == request[r]
      expired == {e \in OpenElections : Expired(e, row.clock)}
  IN /\ "open" \in row.pending
     /\ \E read \in IF expired = {} THEN {NoRead} ELSE {Read(e) : e \in expired} :
          request' = [request EXCEPT ![r] =
                        [row EXCEPT !.pending = @ \ {"open"}, !.clock = 0, !.expired = read,
                                    !.open = \E e \in OpenElections \ expired : CurrentlyOpen(e, row.clock)]]
     /\ UNCHANGED <<query, cache>>

ClosedElections == {e \in ElectionIds : election[e].status \in {"closed", "archived"}}

LatestClosed ==
  {e \in ClosedElections : \A f \in ClosedElections : election[f].closesAt <= election[e].closesAt}

FindLatestClosed(r) ==
  LET row == request[r]
  IN /\ "closed" \in row.pending
     /\ \E read \in IF LatestClosed = {} THEN {NoRead} ELSE {Read(e) : e \in LatestClosed} :
          request' = [request EXCEPT ![r] = [row EXCEPT !.pending = @ \ {"closed"}, !.closed = read]]
     /\ UNCHANGED <<query, cache>>

\* The closed election of the response, which an expired open row may displace.
VirtualClosed(row) ==
  IF row.expired.id # Null /\ (row.closed.id = Null \/ row.expired.closesAt > row.closed.closesAt)
    THEN row.expired ELSE row.closed

NothingToShow(row) == row.open \/ VirtualClosed(row).id = Null

AnswerWithoutResults(r) ==
  /\ request[r].phase = "reading" /\ request[r].pending = {}
  /\ NothingToShow(request[r])
  /\ request' = [request EXCEPT ![r] = [NoRequest EXCEPT !.phase = "answered"]]
  /\ UNCHANGED <<query, cache>>

\* Mutant: the id is not part of the key.
HitOnVersion(read) == cache.promise # Null /\ cache.version = read.version

Hit(read) == cache.promise # Null /\ cache.id = read.id /\ cache.version = read.version

\* getCachedClosedResults runs without an await: look up, or issue and store.
Resolve(r) ==
  LET row == request[r]
      read == VirtualClosed(row)
  IN /\ row.phase = "reading" /\ row.pending = {}
     /\ ~NothingToShow(row)
     /\ IF Hit(read) THEN UNCHANGED <<query, cache>>
        ELSE /\ query' = [query EXCEPT ![r] =
                            [NoQuery EXCEPT !.state = "running", !.election = read.id,
                                            !.ahead = row.ahead]]
             /\ cache' = [id |-> read.id, version |-> read.version, promise |-> r]
     /\ request' = [request EXCEPT ![r] =
                      [NoRequest EXCEPT !.phase = "awaiting",
                                        !.shown = [id |-> read.id, version |-> read.version],
                                        !.promise = IF Hit(read) THEN cache.promise ELSE r]]

\* The database serves the query (one statement), and the promise settles.
GetResults(r) ==
  /\ query[r].state = "running"
  /\ query' = [query EXCEPT ![r] =
                 [@ EXCEPT !.state = "done", !.results = tally[query[r].election]]]
  /\ UNCHANGED <<request, cache>>

\* Mutant: a failed query stays in the cache.
FailureIsKept(r) ==
  /\ query[r].state = "running"
  /\ query' = [query EXCEPT ![r].state = "failed"]
  /\ UNCHANGED <<request, cache>>

\* The entry goes only if it is still the one that failed.
GetResultsFails(r) ==
  /\ query[r].state = "running"
  /\ query' = [query EXCEPT ![r].state = "failed"]
  /\ cache' = IF cache.promise = r THEN NoEntry ELSE cache
  /\ UNCHANGED request

Respond(r) ==
  /\ request[r].phase = "awaiting"
  /\ query[request[r].promise].state \in {"done", "failed"}
  /\ request' = [request EXCEPT ![r] =
                   [NoRequest EXCEPT !.phase = IF query[request[r].promise].state = "done"
                                                 THEN "answered" ELSE "failed"]]
  /\ UNCHANGED <<query, cache>>

Serve(r) ==
  \/ \E t \in WorkerClock : Start(r, t)
  \/ FindOpen(r)
  \/ FindLatestClosed(r)
  \/ AnswerWithoutResults(r)
  \/ Resolve(r)
  \/ GetResults(r)
  \/ GetResultsFails(r)
  \/ Respond(r)

-----------------------------------------------------------------------------
Init ==
  /\ ElectionsInit
  /\ version = [e \in ElectionIds |-> 0]
  /\ tally = [e \in ElectionIds |-> 0]
  /\ request = [r \in RequestIds |-> NoRequest]
  /\ query = [r \in RequestIds |-> NoQuery]
  /\ cache = NoEntry
  /\ rewound = {}

Next ==
  \/ Tick /\ UNCHANGED <<version, tally, serverVars, rewound>>
  \/ Administer /\ UNCHANGED serverVars
  \/ \E e \in ElectionIds : CastBallot(e) /\ UNCHANGED serverVars
  \/ \E r \in RequestIds : Serve(r) /\ UNCHANGED <<electionVars, version, tally, rewound>>

Spec == Init /\ [][Next]_vars

-----------------------------------------------------------------------------
(* Properties. *)

\* Results that are about to be shown are exact as long as the row they were
\* asked for is the current one: all ballots of that election and of no other,
\* whichever request fetched them and however long ago. Two things can spoil
\* them: an isolate whose clock was ahead fetched them before voting was over,
\* or an edit of the draft moved updated_at back, so that a version comes again.
ResultsCurrent ==
  \A r \in RequestIds :
    LET e == request[r].shown.id
        q == query[request[r].promise]
    IN request[r].phase = "awaiting" =>
         (/\ q.state = "done" /\ ~q.ahead
          /\ version[e] = request[r].shown.version /\ e \notin rewound
          => q.election = e /\ q.results = tally[e])

\* Ballots are not counted for voters while their election is voting, unless the
\* isolate's clock is ahead or the row it read has been replaced since.
NoPartialResults ==
  [][\A r \in RequestIds :
       LET e == query[r].election
       IN /\ query[r].state = "running" /\ query'[r].state = "done" /\ ~query[r].ahead
          /\ version[e] = request[r].shown.version /\ e \notin rewound
          => Ended(e)]_vars

\* Whoever finds an entry gets a query for the election of its key that has not
\* failed: one failure is not repeated to everyone until the election changes.
EntryServable ==
  cache.promise # Null =>
    query[cache.promise].election = cache.id /\ query[cache.promise].state # "failed"
=============================================================================
