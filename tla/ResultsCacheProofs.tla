-------------------------- MODULE ResultsCacheProofs --------------------------
(***************************************************************************)
(* Theorems about the results voters are shown, for any elections, clocks, *)
(* requests and bounds.                                                    *)
(***************************************************************************)
EXTENDS ResultsCache, ElectionsProofs

ServerTypeOK ==
  /\ version \in [ElectionIds -> Int]
  /\ tally \in [ElectionIds -> 0..MaxBallots]
  /\ request \in [RequestIds -> Request]
  /\ query \in [RequestIds -> Query]
  /\ cache \in [id : ElectionIds \union {Null}, version : Int, promise : RequestIds \union {Null}]
  /\ rewound \in SUBSET ElectionIds

\* A row of a closed or expired election that was read some time ago is older than
\* the present row, or it is the present row, and then voting is over.
Seen(e, v, ahead) ==
  /\ election[e].status # "absent"
  /\ e \notin rewound => v <= version[e]
  /\ e \notin rewound /\ v = version[e] /\ ~ahead => Ended(e)

\* What the holder of a key and a promise may count on.
Answer(e, v, p) ==
  /\ query[p].state # "none" /\ query[p].election = e
  /\ Seen(e, v, query[p].ahead)
  /\ query[p].state = "done" /\ ~query[p].ahead /\ e \notin rewound /\ v = version[e]
       => query[p].results = tally[e]

\* What a request has read, and that it has issued no query before.
Reading(r) ==
  LET row == request[r]
  IN /\ "open" \in row.pending /\ ~row.ahead => row.clock <= now
     /\ row.pending # {} => row.phase = "reading"
     /\ row.expired.id # Null => Seen(row.expired.id, row.expired.version, row.ahead)
     /\ row.closed.id # Null => Seen(row.closed.id, row.closed.version, row.ahead)
     /\ row.phase \in {"idle", "reading"} => query[r].state = "none"

\* What a request that awaits a promise may count on.
Awaiting(r) ==
  request[r].phase = "awaiting" =>
    /\ request[r].shown.id \in ElectionIds /\ request[r].promise \in RequestIds
    /\ Answer(request[r].shown.id, request[r].shown.version, request[r].promise)

ReadingInv == \A r \in RequestIds : Reading(r)

AwaitingInv == \A r \in RequestIds : Awaiting(r)

EntryInv ==
  cache.promise # Null =>
    /\ cache.id \in ElectionIds
    /\ Answer(cache.id, cache.version, cache.promise)
    /\ query[cache.promise].state # "failed"

\* Whoever issued a query awaits it while it runs.
RunningInv ==
  \A r \in RequestIds :
    query[r].state = "running" => request[r].phase = "awaiting" /\ request[r].promise = r

ServerInv == ServerTypeOK /\ ReadingInv /\ AwaitingInv /\ EntryInv /\ RunningInv

CacheInv == ElectionsInv /\ ServerInv

-----------------------------------------------------------------------------
(* Steps of the database. *)

\* A query of any state has its fields.
LEMMA QueryFields ==
  ASSUME ServerTypeOK, NEW p \in RequestIds
  PROVE  query[p] \in Query /\ query[p].ahead \in BOOLEAN
<1>1. query[p] \in Query
  BY DEF ServerTypeOK
<1>2. CASE query[p] = NoQuery
  BY <1>1, <1>2 DEF NoQuery
<1>3. CASE query[p] # NoQuery
  BY <1>1, <1>3 DEF Query
<1>4. QED
  BY <1>1, <1>2, <1>3

\* What requests and the cache count on survives a step of the database when an
\* election whose version stays does not resume and gets no ballot.
LEMMA DatabaseStep ==
  ASSUME CacheInv, UNCHANGED serverVars, now' \in Int, now <= now',
         version' \in [ElectionIds -> Int], tally' \in [ElectionIds -> 0..MaxBallots],
         rewound' \in SUBSET ElectionIds, rewound \subseteq rewound',
         \A e \in ElectionIds :
           election[e].status # "absent" =>
             /\ election'[e].status # "absent"
             /\ e \notin rewound' => version[e] <= version'[e]
             /\ e \notin rewound' /\ version'[e] = version[e] /\ Ended(e)
                  => Ended(e)' /\ tally'[e] = tally[e]
  PROVE  ServerInv'
<1>0. /\ now \in Int /\ version \in [ElectionIds -> Int]
      /\ request' = request /\ query' = query /\ cache' = cache
  BY DEF CacheInv, ElectionsInv, ElectionsTypeOK, ServerInv, ServerTypeOK, serverVars
<1>1. ASSUME NEW e \in ElectionIds, NEW v \in Int, NEW ahead \in BOOLEAN, Seen(e, v, ahead)
      PROVE  Seen(e, v, ahead)' /\ (e \notin rewound' /\ v = version'[e] => version[e] = v)
  <2>1. election[e].status # "absent"
    BY <1>1 DEF Seen
  <2>2. e \notin rewound' => v <= version[e] /\ version[e] <= version'[e]
    BY <1>1, <2>1 DEF Seen
  <2>3. e \notin rewound' /\ v = version'[e] => version[e] = v
    BY <1>0, <2>2
  <2>4. e \notin rewound' /\ v = version'[e] /\ ~ahead => Ended(e)'
    BY <1>1, <2>1, <2>3 DEF Seen
  <2>5. QED
    BY <1>0, <2>1, <2>2, <2>3, <2>4 DEF Seen
<1>2. ASSUME NEW e \in ElectionIds, NEW v \in Int, NEW p \in RequestIds, Answer(e, v, p)
      PROVE  Answer(e, v, p)'
  <2>1. query[p].ahead \in BOOLEAN
    BY QueryFields DEF CacheInv, ServerInv
  <2>2. Seen(e, v, query[p].ahead)
    BY <1>2 DEF Answer
  <2>3. Seen(e, v, query[p].ahead)' /\ (e \notin rewound' /\ v = version'[e] => version[e] = v)
    BY <1>0, <1>1, <2>1, <2>2
  <2>4. ASSUME query[p].state = "done", ~query[p].ahead, e \notin rewound', v = version'[e]
        PROVE  query[p].results = tally'[e]
    <3>1. version[e] = v /\ e \notin rewound /\ Ended(e) /\ election[e].status # "absent"
      BY <2>2, <2>3, <2>4 DEF Seen
    <3>2. query[p].results = tally[e]
      BY <1>2, <2>4, <3>1 DEF Answer
    <3>3. QED
      BY <2>4, <3>1, <3>2
  <2>5. QED
    BY <1>0, <1>2, <2>3, <2>4 DEF Answer
<1>3. ReadingInv'
  <2> SUFFICES ASSUME NEW r \in RequestIds PROVE Reading(r)'
    BY DEF ReadingInv
  <2>1. request[r] \in Request
    BY DEF CacheInv, ServerInv, ServerTypeOK
  <2>2. "open" \in request[r].pending /\ ~request[r].ahead => request[r].clock <= now'
    BY <1>0, <2>1 DEF CacheInv, ServerInv, ReadingInv, Reading, Request
  <2>3. request[r].expired.id # Null =>
          Seen(request[r].expired.id, request[r].expired.version, request[r].ahead)'
    BY <1>0, <1>1, <2>1 DEF CacheInv, ServerInv, ReadingInv, Reading, Request, ReadRow
  <2>4. request[r].closed.id # Null =>
          Seen(request[r].closed.id, request[r].closed.version, request[r].ahead)'
    BY <1>0, <1>1, <2>1 DEF CacheInv, ServerInv, ReadingInv, Reading, Request, ReadRow
  <2>5. QED
    BY <1>0, <2>2, <2>3, <2>4 DEF CacheInv, ServerInv, ReadingInv, Reading
<1>4. AwaitingInv'
  <2> SUFFICES ASSUME NEW r \in RequestIds, request[r].phase = "awaiting"
               PROVE  /\ request[r].shown.id \in ElectionIds /\ request[r].promise \in RequestIds
                      /\ Answer(request[r].shown.id, request[r].shown.version, request[r].promise)'
    BY <1>0 DEF AwaitingInv, Awaiting
  <2>1. request[r].shown.version \in Int
    BY DEF CacheInv, ServerInv, ServerTypeOK, Request
  <2>2. QED
    BY <1>0, <1>2, <2>1 DEF CacheInv, ServerInv, AwaitingInv, Awaiting
<1>5. EntryInv'
  BY <1>0, <1>2 DEF CacheInv, ServerInv, ServerTypeOK, EntryInv
<1>6. RunningInv'
  BY <1>0 DEF CacheInv, ServerInv, RunningInv
<1>7. QED
  BY <1>0, <1>3, <1>4, <1>5, <1>6 DEF CacheInv, ServerInv, ServerTypeOK

\* Time passes, and the requests keep what they count on.
LEMMA TickStep ==
  ASSUME CacheInv, Tick, UNCHANGED <<version, tally, serverVars, rewound>>
  PROVE  CacheInv'
<1>1. ElectionsInv'
  BY TickInv DEF CacheInv
<1>2. now' \in Int /\ now <= now' /\ election' = election
  BY ClockAssumption DEF Tick, CacheInv, ElectionsInv, ElectionsTypeOK
<1>3. /\ version' = version /\ tally' = tally /\ rewound' = rewound
      /\ version \in [ElectionIds -> Int] /\ tally \in [ElectionIds -> 0..MaxBallots]
      /\ rewound \in SUBSET ElectionIds
  BY DEF CacheInv, ServerInv, ServerTypeOK
<1>4. \A e \in ElectionIds : version[e] <= version'[e]
  BY <1>3
<1>5. \A e \in ElectionIds : Ended(e) => Ended(e)'
  BY TickKeepsEnded DEF CacheInv
<1>6. ServerInv'
  BY <1>2, <1>3, <1>4, <1>5, DatabaseStep
<1>7. QED
  BY <1>1, <1>6 DEF CacheInv

\* A ballot is cast in a window, that is, for an election that has not ended.
LEMMA CastBallotStep ==
  ASSUME CacheInv, NEW e \in ElectionIds, CastBallot(e), UNCHANGED serverVars
  PROVE  CacheInv'
<1>1. /\ now' = now /\ election' = election /\ version' = version /\ rewound' = rewound
      /\ now \in Int /\ version \in [ElectionIds -> Int] /\ rewound \in SUBSET ElectionIds
      /\ tally \in [ElectionIds -> 0..MaxBallots]
  BY DEF CastBallot, electionVars, CacheInv, ElectionsInv, ElectionsTypeOK, ServerInv, ServerTypeOK
<1>2. ElectionsInv'
  BY <1>1 DEF CacheInv, ElectionsInv, ElectionsTypeOK, OneOpenElection, IdxOneOpen, OpenHasWindow,
              OpenElections
<1>3. tally' \in [ElectionIds -> 0..MaxBallots] /\ (\A f \in ElectionIds : f # e => tally'[f] = tally[f])
  BY <1>1, BoundsAssumption DEF CastBallot
<1>4. ~Ended(e)
  BY <1>1, NullAssumption DEF CastBallot, InWindow, Ended, CacheInv, ElectionsInv, ElectionsTypeOK, Row
<1>5. \A f \in ElectionIds : version[f] <= version'[f] /\ (Ended(f) => Ended(f)' /\ tally'[f] = tally[f])
  BY <1>1, <1>3, <1>4 DEF Ended
<1>6. ServerInv'
  BY <1>1, <1>3, <1>5, DatabaseStep
<1>7. QED
  BY <1>2, <1>6 DEF CacheInv

\* An administrator creates, edits or extends an election: its version grows, or
\* it is a draft, or the edit is on record as one that moved the version back.
LEMMA EditStep ==
  ASSUME CacheInv, NEW e \in ElectionIds, EditElection(e), UNCHANGED <<tally, serverVars>>,
         NEW v \in Int, version' = [version EXCEPT ![e] = v],
         rewound' \in SUBSET ElectionIds, rewound \subseteq rewound',
         election[e].status # "absent" /\ e \notin rewound' => version[e] <= v
  PROVE  CacheInv'
<1>1. /\ tally' = tally /\ version \in [ElectionIds -> Int] /\ now \in Int
      /\ tally \in [ElectionIds -> 0..MaxBallots]
  BY DEF CacheInv, ElectionsInv, ElectionsTypeOK, ServerInv, ServerTypeOK
<1>2. ElectionsInv'
  BY EditElectionInv DEF CacheInv
<1>3. now' = now
  BY DEF EditElection, CreateElection, UpdateMetadata, ExtendClosingTime
<1>4. \A f \in ElectionIds : election[f].status # "absent" => election'[f].status # "absent"
  BY EditElectionStatus DEF CacheInv
<1>5. \A f \in ElectionIds : Ended(f) => Ended(f)'
  BY EditElectionKeepsEnded DEF CacheInv
<1>6. \A f \in ElectionIds : election[f].status # "absent" /\ f \notin rewound' => version[f] <= version'[f]
  BY <1>1
<1>7. UNCHANGED serverVars /\ version' \in [ElectionIds -> Int]
  BY <1>1
<1>8. ServerInv'
  BY <1>1, <1>3, <1>4, <1>5, <1>6, <1>7, DatabaseStep
<1>9. QED
  BY <1>2, <1>8 DEF CacheInv

\* An administrator changes the status: the version of every election that the
\* change touches grows, so that no key matches it any longer.
LEMMA ChangeStatusStep ==
  ASSUME CacheInv, NEW e \in ElectionIds, NEW to, NEW opens, NEW closes, NEW t,
         Inputs(to, opens, closes, t), NEW ready,
         ChangeStatus(e, to, opens, closes, t, ready), UNCHANGED <<tally, serverVars>>
  PROVE  CacheInv'
<1>1. /\ tally' = tally /\ rewound' = rewound /\ version \in [ElectionIds -> Int] /\ now \in Int
      /\ tally \in [ElectionIds -> 0..MaxBallots] /\ rewound \in SUBSET ElectionIds
      /\ election \in [ElectionIds -> Row]
  BY DEF ChangeStatus, CacheInv, ElectionsInv, ElectionsTypeOK, ServerInv, ServerTypeOK
<1>2. t \in Int
  BY <1>1, ClockAssumption DEF Inputs, WorkerClock
<1>3. Transition(e, to, opens, closes, t, ready, tally[e] > 0)
  BY DEF ChangeStatus
<1>4. ElectionsInv'
  BY <1>3, TransitionInv DEF CacheInv
<1>5. now' = now
  BY <1>3 DEF Transition
<1>6. version' \in [ElectionIds -> Int]
  BY <1>1, <1>2 DEF ChangeStatus, NextVersion
<1>7. ASSUME NEW f \in ElectionIds, election[f].status # "absent"
      PROVE  /\ election'[f].status # "absent" /\ version[f] <= version'[f]
             /\ version'[f] = version[f] /\ Ended(f) => Ended(f)' /\ tally'[f] = tally[f]
  <2>1. version'[f] = IF f = e \/ f \in Superseded(e, to) THEN NextVersion(f, t) ELSE version[f]
    BY DEF ChangeStatus
  <2>2. NextVersion(f, t) > version[f]
    BY <1>1, <1>2 DEF NextVersion
  <2>3. CASE f = e
    <3>1. election'[f].status = to
      BY <1>3, <2>3 DEF Transition
    <3>2. QED
      BY <1>1, <1>6, <2>1, <2>2, <2>3, <3>1 DEF Inputs, Statuses
  <2>4. CASE f # e /\ f \in Superseded(e, to)
    <3>1. election'[f].status = "closed"
      BY <1>1, <1>3, <2>4 DEF Transition, Row
    <3>2. QED
      BY <1>1, <1>6, <2>1, <2>2, <2>4, <3>1
  <2>5. CASE f # e /\ f \notin Superseded(e, to)
    <3>1. election'[f] = election[f]
      BY <1>3, <2>5 DEF Transition
    <3>2. Ended(f) => Ended(f)'
      BY <1>5, <3>1 DEF Ended
    <3>3. version'[f] = version[f] /\ version[f] \in Int
      BY <1>1, <2>1, <2>5
    <3>4. QED
      BY <1>1, <1>7, <3>1, <3>2, <3>3
  <2>6. QED
    BY <2>3, <2>4, <2>5
<1>8. UNCHANGED serverVars
  OBVIOUS
<1>9. ServerInv'
  BY <1>1, <1>5, <1>6, <1>7, <1>8, DatabaseStep
<1>10. QED
  BY <1>4, <1>9 DEF CacheInv

\* Whatever an administrator does.
LEMMA AdministerStep ==
  ASSUME CacheInv, Administer, UNCHANGED serverVars
  PROVE  CacheInv'
<1>0. /\ version \in [ElectionIds -> Int] /\ now \in Int /\ rewound \in SUBSET ElectionIds
      /\ UNCHANGED <<tally, serverVars>>
  BY DEF Administer, CacheInv, ElectionsInv, ElectionsTypeOK, ServerInv, ServerTypeOK
<1>1. ASSUME NEW e \in ElectionIds, NEW t \in WorkerClock,
             NEW opens \in OpenTimes \union {Null}, NEW closes \in CloseTimes \union {Null},
             Create(e, opens, closes, t)
      PROVE  CacheInv'
  <2>1. EditElection(e) /\ election[e].status = "absent"
    BY <1>1 DEF Create, EditElection, CreateElection
  <2>2. t \in Int /\ version' = [version EXCEPT ![e] = t] /\ rewound' = rewound
    BY <1>0, <1>1, ClockAssumption DEF Create, SetVersion, WorkerClock
  <2>3. QED
    BY <1>0, <2>1, <2>2, EditStep
<1>2. ASSUME NEW e \in ElectionIds, NEW t \in WorkerClock,
             NEW opens \in OpenTimes \union {Null, election[e].opensAt},
             NEW closes \in CloseTimes \union {Null, election[e].closesAt},
             EditMetadata(e, opens, closes, t)
      PROVE  CacheInv'
  <2>1. EditElection(e)
    BY <1>2 DEF EditMetadata, EditElection
  <2>2. t \in Int /\ version' = [version EXCEPT ![e] = t]
    BY <1>0, <1>2, ClockAssumption DEF EditMetadata, SetVersion, WorkerClock
  <2>3. rewound' = IF t < version[e] THEN rewound \union {e} ELSE rewound
    BY <1>2 DEF EditMetadata
  <2>4. e \notin rewound' => version[e] <= t
    BY <1>0, <2>2, <2>3
  <2>5. QED
    BY <1>0, <2>1, <2>2, <2>3, <2>4, EditStep
<1>3. ASSUME NEW e \in ElectionIds, NEW t \in WorkerClock, NEW closes \in CloseTimes,
             Extend(e, closes, t)
      PROVE  CacheInv'
  <2>1. EditElection(e)
    BY <1>3 DEF Extend, EditElection
  <2>2. NextVersion(e, now) \in Int /\ version[e] <= NextVersion(e, now)
    BY <1>0 DEF NextVersion
  <2>3. version' = [version EXCEPT ![e] = NextVersion(e, now)] /\ rewound' = rewound
    BY <1>3 DEF Extend, SetVersion
  <2>4. QED
    BY <1>0, <2>1, <2>2, <2>3, EditStep
<1>4. ASSUME NEW e \in ElectionIds, NEW t \in WorkerClock, NEW to \in Statuses,
             NEW opens \in OpenTimes \union {Null}, NEW closes \in CloseTimes \union {Null},
             NEW ready \in BOOLEAN, ChangeStatus(e, to, opens, closes, t, ready)
      PROVE  CacheInv'
  BY <1>0, <1>4, ChangeStatusStep DEF Inputs
<1>5. QED
  BY <1>1, <1>2, <1>3, <1>4 DEF Administer

-----------------------------------------------------------------------------
(* Steps of the isolate. *)

\* One request moves on and nothing else does: what it has read, and what it
\* awaits, has to be such as the invariant says.
LEMMA RequestStep ==
  ASSUME CacheInv, NEW r \in RequestIds, NEW row \in Request,
         request' = [request EXCEPT ![r] = row],
         UNCHANGED <<electionVars, version, tally, rewound, query, cache>>,
         "open" \in row.pending /\ ~row.ahead => row.clock <= now,
         row.pending # {} => row.phase = "reading",
         row.expired.id # Null => Seen(row.expired.id, row.expired.version, row.ahead),
         row.closed.id # Null => Seen(row.closed.id, row.closed.version, row.ahead),
         row.phase \in {"idle", "reading"} => query[r].state = "none",
         row.phase = "awaiting" =>
           /\ row.shown.id \in ElectionIds /\ row.promise \in RequestIds
           /\ Answer(row.shown.id, row.shown.version, row.promise),
         query[r].state = "running" => row.phase = "awaiting" /\ row.promise = r
  PROVE  CacheInv'
<1>1. /\ now' = now /\ election' = election /\ version' = version /\ tally' = tally
      /\ rewound' = rewound /\ query' = query /\ cache' = cache
      /\ request \in [RequestIds -> Request]
  BY DEF electionVars, CacheInv, ServerInv, ServerTypeOK
<1>2. ElectionsInv'
  BY <1>1 DEF CacheInv, ElectionsInv, ElectionsTypeOK, OneOpenElection, IdxOneOpen, OpenHasWindow,
              OpenElections
<1>3. request'[r] = row /\ \A s \in RequestIds : s # r => request'[s] = request[s]
  BY <1>1
<1>4. /\ \A e, v, ahead : Seen(e, v, ahead)' <=> Seen(e, v, ahead)
      /\ \A e, v, p : Answer(e, v, p)' <=> Answer(e, v, p)
  BY <1>1 DEF Seen, Answer, Ended
<1>5. ServerTypeOK'
  BY <1>1 DEF CacheInv, ServerInv, ServerTypeOK
<1>6. ReadingInv'
  <2> SUFFICES ASSUME NEW s \in RequestIds PROVE Reading(s)'
    BY DEF ReadingInv
  <2>1. CASE s = r
    BY <1>1, <1>3, <1>4, <2>1 DEF Reading
  <2>2. CASE s # r
    BY <1>1, <1>3, <1>4, <2>2 DEF Reading, CacheInv, ServerInv, ReadingInv
  <2>3. QED
    BY <2>1, <2>2
<1>7. AwaitingInv'
  <2> SUFFICES ASSUME NEW s \in RequestIds PROVE Awaiting(s)'
    BY DEF AwaitingInv
  <2>1. CASE s = r
    BY <1>1, <1>3, <1>4, <2>1 DEF Awaiting
  <2>2. CASE s # r
    BY <1>1, <1>3, <1>4, <2>2 DEF Awaiting, CacheInv, ServerInv, AwaitingInv
  <2>3. QED
    BY <2>1, <2>2
<1>8. EntryInv'
  BY <1>1, <1>4 DEF EntryInv, CacheInv, ServerInv
<1>9. RunningInv'
  BY <1>1, <1>3 DEF RunningInv, CacheInv, ServerInv
<1>10. QED
  BY <1>2, <1>5, <1>6, <1>7, <1>8, <1>9 DEF CacheInv, ServerInv

\* A running query comes to an end, and the entry that holds it goes if it failed.
LEMMA QueryStep ==
  ASSUME CacheInv, NEW r \in RequestIds, NEW q \in Query,
         query' = [query EXCEPT ![r] = q], query[r].state = "running",
         q.state \in {"done", "failed"}, q.election = query[r].election,
         q.ahead = query[r].ahead, q.state = "done" => q.results = tally[q.election],
         UNCHANGED <<electionVars, version, tally, rewound, request>>,
         cache' = IF q.state = "failed" /\ cache.promise = r THEN NoEntry ELSE cache
  PROVE  CacheInv'
<1>1. /\ now' = now /\ election' = election /\ version' = version /\ tally' = tally
      /\ rewound' = rewound /\ request' = request /\ query \in [RequestIds -> Query]
  BY DEF electionVars, CacheInv, ServerInv, ServerTypeOK
<1>2. ElectionsInv'
  BY <1>1 DEF CacheInv, ElectionsInv, ElectionsTypeOK, OneOpenElection, IdxOneOpen, OpenHasWindow,
              OpenElections
<1>3. query'[r] = q /\ \A p \in RequestIds : p # r => query'[p] = query[p]
  BY <1>1
<1>4. \A e, v, ahead : Seen(e, v, ahead)' <=> Seen(e, v, ahead)
  BY <1>1 DEF Seen, Ended
<1>5. ASSUME NEW e \in ElectionIds, NEW v \in Int, NEW p \in RequestIds, Answer(e, v, p)
      PROVE  Answer(e, v, p)'
  <2>1. CASE p = r
    BY <1>1, <1>3, <1>4, <1>5, <2>1 DEF Answer
  <2>2. CASE p # r
    BY <1>1, <1>3, <1>4, <1>5, <2>2 DEF Answer
  <2>3. QED
    BY <2>1, <2>2
<1>6. ServerTypeOK'
  <2>1. query' \in [RequestIds -> Query]
    BY <1>1
  <2>2. NoEntry \in [id : ElectionIds \union {Null}, version : Int, promise : RequestIds \union {Null}]
    BY DEF NoEntry
  <2>3. QED
    BY <1>1, <2>1, <2>2 DEF CacheInv, ServerInv, ServerTypeOK
<1>7. ReadingInv'
  <2> SUFFICES ASSUME NEW s \in RequestIds PROVE Reading(s)'
    BY DEF ReadingInv
  <2>1. request[s].phase \in {"idle", "reading"} => query'[s].state = "none"
    BY <1>3 DEF CacheInv, ServerInv, ReadingInv, Reading, RunningInv
  <2>2. QED
    BY <1>1, <1>4, <2>1 DEF CacheInv, ServerInv, ReadingInv, Reading
<1>8. AwaitingInv'
  <2> SUFFICES ASSUME NEW s \in RequestIds, request[s].phase = "awaiting"
               PROVE  /\ request[s].shown.id \in ElectionIds /\ request[s].promise \in RequestIds
                      /\ Answer(request[s].shown.id, request[s].shown.version, request[s].promise)'
    BY <1>1 DEF AwaitingInv, Awaiting
  <2>1. request[s].shown.version \in Int
    BY DEF CacheInv, ServerInv, ServerTypeOK, Request
  <2>2. QED
    BY <1>5, <2>1 DEF CacheInv, ServerInv, AwaitingInv, Awaiting
<1>9. EntryInv'
  <2> SUFFICES ASSUME cache'.promise # Null PROVE cache' = cache /\ EntryInv'
    BY DEF EntryInv
  <2>1. cache' = cache /\ (cache.promise = r => q.state # "failed")
    BY DEF NoEntry
  <2>2. cache.promise \in RequestIds /\ cache.version \in Int
    BY <2>1 DEF CacheInv, ServerInv, ServerTypeOK
  <2>3. query'[cache.promise].state # "failed"
    BY <1>3, <2>1, <2>2 DEF CacheInv, ServerInv, EntryInv
  <2>4. QED
    BY <1>5, <2>1, <2>2, <2>3 DEF CacheInv, ServerInv, EntryInv
<1>10. RunningInv'
  BY <1>1, <1>3 DEF RunningInv, CacheInv, ServerInv
<1>11. QED
  BY <1>2, <1>6, <1>7, <1>8, <1>9, <1>10 DEF CacheInv, ServerInv

\* A request keeps its form when one of its fields is written.
LEMMA WriteField ==
  ASSUME NEW row \in Request
  PROVE  /\ \A phase \in {"idle", "reading", "awaiting", "answered", "failed"} :
              [row EXCEPT !.phase = phase] \in Request
         /\ \A clock \in Int : [row EXCEPT !.clock = clock] \in Request
         /\ \A ahead \in BOOLEAN : [row EXCEPT !.ahead = ahead] \in Request
         /\ \A pending \in SUBSET {"open", "closed"} : [row EXCEPT !.pending = pending] \in Request
         /\ \A open \in BOOLEAN : [row EXCEPT !.open = open] \in Request
         /\ \A expired \in ReadRow : [row EXCEPT !.expired = expired] \in Request
         /\ \A closed \in ReadRow : [row EXCEPT !.closed = closed] \in Request
         /\ \A shown \in [id : ElectionIds \union {Null}, version : Int] :
              [row EXCEPT !.shown = shown] \in Request
         /\ \A promise \in RequestIds \union {Null} : [row EXCEPT !.promise = promise] \in Request
BY DEF Request

\* The fields of a request that is idle.
LEMMA NoRequestFields ==
  /\ NoRead \in ReadRow /\ NoRequest \in Request
  /\ NoRequest.expired.id = Null /\ NoRequest.closed.id = Null
<1>1. NoRead \in ReadRow /\ NoRead.id = Null
  BY DEF NoRead, ReadRow
<1>2. [id |-> Null, version |-> 0] \in [id : ElectionIds \union {Null}, version : Int]
  OBVIOUS
<1>3. NoRequest \in Request
  BY <1>1, <1>2 DEF NoRequest, Request
<1>4. NoRequest.expired = NoRead /\ NoRequest.closed = NoRead
  BY DEF NoRequest
<1>5. QED
  BY <1>1, <1>3, <1>4

\* A request starts with the clock it will judge the open row by.
LEMMA StartStep ==
  ASSUME CacheInv, NEW r \in RequestIds, NEW t \in WorkerClock, Start(r, t),
         UNCHANGED <<electionVars, version, tally, rewound>>
  PROVE  CacheInv'
<1> DEFINE ahead == t > now
           row == [NoRequest EXCEPT !.phase = "reading", !.clock = t, !.ahead = ahead,
                                    !.pending = {"open", "closed"}]
<1>1. t \in Int /\ now \in Int
  BY ClockAssumption DEF WorkerClock, CacheInv, ElectionsInv, ElectionsTypeOK
<1>2. ahead \in BOOLEAN /\ (~ahead => t <= now)
  BY <1>1
<1>3. request' = [request EXCEPT ![r] = row] /\ UNCHANGED <<query, cache>>
  BY DEF Start
<1>4. query[r].state = "none"
  <2>1. Reading(r) /\ request[r].phase = "idle"
    BY DEF Start, CacheInv, ServerInv, ReadingInv
  <2>2. QED
    BY <2>1 DEF Reading
<1> HIDE DEF ahead
<1>5. /\ row.phase = "reading" /\ row.clock = t /\ row.ahead = ahead
      /\ row.expired.id = Null /\ row.closed.id = Null
  BY NoRequestFields DEF NoRequest
<1>6. row \in Request
  <2> DEFINE begun == [NoRequest EXCEPT !.phase = "reading"]
             timed == [begun EXCEPT !.clock = t]
             marked == [timed EXCEPT !.ahead = ahead]
  <2>1. row = [marked EXCEPT !.pending = {"open", "closed"}]
    OBVIOUS
  <2>2. begun \in Request
    BY NoRequestFields, WriteField
  <2> HIDE DEF begun, row
  <2>3. timed \in Request
    BY <1>1, <2>2, WriteField
  <2> HIDE DEF timed
  <2>4. marked \in Request
    BY <1>2, <2>3, WriteField
  <2> HIDE DEF marked
  <2>5. QED
    BY <2>1, <2>4, WriteField
<1>7. ~row.ahead => row.clock <= now
  BY <1>2, <1>5
<1> HIDE DEF row
<1>8. QED
  BY <1>3, <1>4, <1>5, <1>6, <1>7, RequestStep

\* The row of an election whose voting is over, as it is read.
LEMMA ReadOver ==
  ASSUME CacheInv, NEW e \in ElectionIds, NEW ahead \in BOOLEAN, election[e].status # "absent",
         ~ahead => Ended(e)
  PROVE  /\ Read(e) \in ReadRow /\ Read(e).id = e /\ Read(e).version = version[e]
         /\ Seen(e, version[e], ahead)
<1>1. version[e] \in Int /\ election[e].closesAt \in Int \union {Null}
  BY DEF CacheInv, ServerInv, ServerTypeOK, ElectionsInv, ElectionsTypeOK, Row
<1>2. QED
  BY <1>1 DEF Read, ReadRow, Seen

\* The open row has expired when the request's clock says so, which is true
\* unless that clock was ahead.
LEMMA FindOpenStep ==
  ASSUME CacheInv, NEW r \in RequestIds, FindOpen(r),
         UNCHANGED <<electionVars, version, tally, rewound>>
  PROVE  CacheInv'
<1> DEFINE row == request[r]
           expired == {e \in OpenElections : Expired(e, row.clock)}
<1>1. row \in Request /\ row.clock \in Int /\ row.ahead \in BOOLEAN /\ Reading(r)
  BY DEF CacheInv, ServerInv, ServerTypeOK, ReadingInv, Request
<1>2. PICK read \in IF expired = {} THEN {NoRead} ELSE {Read(e) : e \in expired} :
        request' = [request EXCEPT ![r] =
                      [row EXCEPT !.pending = @ \ {"open"}, !.clock = 0, !.expired = read,
                                  !.open = \E e \in OpenElections \ expired : CurrentlyOpen(e, row.clock)]]
  BY DEF FindOpen
<1> DEFINE open == \E e \in OpenElections \ expired : CurrentlyOpen(e, row.clock)
           next == [row EXCEPT !.pending = @ \ {"open"}, !.clock = 0, !.expired = read, !.open = open]
<1>3. "open" \in row.pending /\ UNCHANGED <<query, cache>>
  BY DEF FindOpen
<1>4. row.phase = "reading" /\ (~row.ahead => row.clock <= now)
  BY <1>1, <1>3 DEF Reading
<1>5. read \in ReadRow /\ (read.id # Null => Seen(read.id, read.version, row.ahead))
  <2>1. CASE read = NoRead
    BY <2>1 DEF NoRead, ReadRow
  <2>2. ASSUME NEW e \in expired, read = Read(e)
        PROVE  read \in ReadRow /\ Seen(read.id, read.version, row.ahead)
    <3>1. e \in ElectionIds /\ election[e].status = "open" /\ Expired(e, row.clock)
      BY DEF OpenElections
    <3>2. election[e].closesAt \in Int /\ row.clock > election[e].closesAt
      BY <3>1, NullAssumption DEF Expired, CacheInv, ElectionsInv, ElectionsTypeOK, Row
    <3>3. ~row.ahead => Ended(e)
      BY <1>1, <1>4, <3>1, <3>2 DEF Ended, CacheInv, ElectionsInv, ElectionsTypeOK
    <3>4. QED
      BY <1>1, <2>2, <3>1, <3>3, ReadOver
  <2>3. QED
    BY <2>1, <2>2
<1>6. open \in BOOLEAN
  OBVIOUS
<1>7. request' = [request EXCEPT ![r] = next]
  BY <1>2
<1> HIDE DEF open
<1>8. /\ next.phase = row.phase /\ next.ahead = row.ahead
      /\ next.pending = row.pending \ {"open"} /\ next.closed = row.closed /\ next.expired = read
  BY <1>1 DEF Request
<1>11. next \in Request
  <2> DEFINE served == [row EXCEPT !.pending = @ \ {"open"}]
             timed == [served EXCEPT !.clock = 0]
             judged == [timed EXCEPT !.expired = read]
  <2>1. next = [judged EXCEPT !.open = open]
    OBVIOUS
  <2>2. served \in Request
    BY <1>1 DEF Request
  <2> HIDE DEF served, next, row
  <2>3. timed \in Request
    BY <2>2 DEF Request
  <2> HIDE DEF timed
  <2>4. judged \in Request
    BY <1>5, <2>3, WriteField
  <2> HIDE DEF judged
  <2>5. QED
    BY <1>6, <2>1, <2>4, WriteField
<1> HIDE DEF next
<1>9. /\ row.closed.id # Null => Seen(row.closed.id, row.closed.version, row.ahead)
      /\ query[r].state = "none"
  BY <1>1, <1>4 DEF Reading
<1> HIDE DEF row, expired
<1>10. QED
  BY <1>3, <1>4, <1>5, <1>7, <1>8, <1>9, <1>11, RequestStep

\* A closed or archived row that is read is over.
LEMMA FindLatestClosedStep ==
  ASSUME CacheInv, NEW r \in RequestIds, FindLatestClosed(r),
         UNCHANGED <<electionVars, version, tally, rewound>>
  PROVE  CacheInv'
<1> DEFINE row == request[r]
<1>1. row \in Request /\ row.ahead \in BOOLEAN /\ Reading(r)
  BY DEF CacheInv, ServerInv, ServerTypeOK, ReadingInv, Request
<1>2. PICK read \in IF LatestClosed = {} THEN {NoRead} ELSE {Read(e) : e \in LatestClosed} :
        request' = [request EXCEPT ![r] = [row EXCEPT !.pending = @ \ {"closed"}, !.closed = read]]
  BY DEF FindLatestClosed
<1> DEFINE next == [row EXCEPT !.pending = @ \ {"closed"}, !.closed = read]
<1>3. "closed" \in row.pending /\ UNCHANGED <<query, cache>>
  BY DEF FindLatestClosed
<1>4. row.phase = "reading" /\ query[r].state = "none"
  BY <1>1, <1>3 DEF Reading
<1>5. read \in ReadRow /\ (read.id # Null => Seen(read.id, read.version, row.ahead))
  <2>1. CASE read = NoRead
    BY <2>1 DEF NoRead, ReadRow
  <2>2. ASSUME NEW e \in LatestClosed, read = Read(e)
        PROVE  read \in ReadRow /\ Seen(read.id, read.version, row.ahead)
    <3>1. e \in ElectionIds /\ election[e].status \in {"closed", "archived"}
      BY DEF LatestClosed, ClosedElections
    <3>2. QED
      BY <1>1, <2>2, <3>1, ReadOver DEF Ended
  <2>3. QED
    BY <2>1, <2>2
<1>6. request' = [request EXCEPT ![r] = next]
  BY <1>2
<1>7. /\ next \in Request /\ next.phase = row.phase /\ next.ahead = row.ahead
      /\ next.pending = row.pending \ {"closed"} /\ next.expired = row.expired
      /\ next.closed = read /\ next.clock = row.clock
  BY <1>1, <1>5 DEF Request
<1> HIDE DEF next
<1>8. /\ row.expired.id # Null => Seen(row.expired.id, row.expired.version, row.ahead)
      /\ "open" \in row.pending /\ ~row.ahead => row.clock <= now
  BY <1>1 DEF Reading
<1> HIDE DEF row
<1>9. QED
  BY <1>3, <1>4, <1>5, <1>6, <1>7, <1>8, RequestStep

\* A request that has nothing to show ends without results.
LEMMA AnswerWithoutResultsStep ==
  ASSUME CacheInv, NEW r \in RequestIds, AnswerWithoutResults(r),
         UNCHANGED <<electionVars, version, tally, rewound>>
  PROVE  CacheInv'
<1> DEFINE next == [NoRequest EXCEPT !.phase = "answered"]
<1>1. next \in Request
  BY NoRequestFields, WriteField
<1>2. /\ next.phase = "answered" /\ next.pending = {}
      /\ next.expired.id = Null /\ next.closed.id = Null
  BY NoRequestFields DEF NoRequest
<1>3. request' = [request EXCEPT ![r] = next] /\ UNCHANGED <<query, cache>>
  BY DEF AnswerWithoutResults
<1>4. query[r].state = "none"
  <2>1. Reading(r) /\ request[r].phase = "reading"
    BY DEF AnswerWithoutResults, CacheInv, ServerInv, ReadingInv
  <2>2. QED
    BY <2>1 DEF Reading
<1> HIDE DEF next
<1>5. QED
  BY <1>1, <1>2, <1>3, <1>4, RequestStep

\* A request whose promise has settled answers or fails, and keeps nothing. Its
\* own query, if it has one, is the one that has settled.
LEMMA RespondStep ==
  ASSUME CacheInv, NEW r \in RequestIds, Respond(r),
         UNCHANGED <<electionVars, version, tally, rewound>>
  PROVE  CacheInv'
<1> DEFINE phase == IF query[request[r].promise].state = "done" THEN "answered" ELSE "failed"
           next == [NoRequest EXCEPT !.phase = phase]
<1>1. phase \in {"answered", "failed"}
  OBVIOUS
<1>2. request' = [request EXCEPT ![r] = next] /\ UNCHANGED <<query, cache>>
  BY DEF Respond
<1> HIDE DEF phase
<1>3. next \in Request
  BY <1>1, NoRequestFields, WriteField
<1>4. /\ next.phase = phase /\ next.pending = {}
      /\ next.expired.id = Null /\ next.closed.id = Null
  BY NoRequestFields DEF NoRequest
<1>5. query[r].state # "running"
  BY DEF Respond, CacheInv, ServerInv, RunningInv
<1> HIDE DEF next
<1>6. QED
  BY <1>1, <1>2, <1>3, <1>4, <1>5, RequestStep

\* The closed election of the response is one whose voting is over, unless the
\* request's clock was ahead or the row has been replaced since.
LEMMA VirtualClosedSeen ==
  ASSUME CacheInv, NEW r \in RequestIds, VirtualClosed(request[r]).id # Null
  PROVE  LET read == VirtualClosed(request[r])
         IN /\ read.id \in ElectionIds /\ read.version \in Int
            /\ Seen(read.id, read.version, request[r].ahead)
<1>1. request[r] \in Request /\ Reading(r)
  BY DEF CacheInv, ServerInv, ServerTypeOK, ReadingInv
<1>2. request[r].expired \in ReadRow /\ request[r].closed \in ReadRow
  BY <1>1 DEF Request
<1>3. CASE VirtualClosed(request[r]) = request[r].expired
  BY <1>1, <1>2, <1>3 DEF Reading, ReadRow
<1>4. CASE VirtualClosed(request[r]) = request[r].closed
  BY <1>1, <1>2, <1>4 DEF Reading, ReadRow
<1>5. QED
  BY <1>3, <1>4 DEF VirtualClosed

\* A request that awaits the promise p for the row `read'.
Waiting(read, p) ==
  [NoRequest EXCEPT !.phase = "awaiting", !.shown = [id |-> read.id, version |-> read.version],
                    !.promise = p]

\* The fields of a request that has begun to wait.
LEMMA WaitingFields ==
  ASSUME NEW read, read.id \in ElectionIds, read.version \in Int, NEW p \in RequestIds
  PROVE  LET next == Waiting(read, p)
         IN /\ next \in Request /\ next.phase = "awaiting" /\ next.pending = {}
            /\ next.expired.id = Null /\ next.closed.id = Null
            /\ next.shown.id = read.id /\ next.shown.version = read.version /\ next.promise = p
<1> DEFINE shown == [id |-> read.id, version |-> read.version]
           begun == [NoRequest EXCEPT !.phase = "awaiting"]
           named == [begun EXCEPT !.shown = shown]
           next == Waiting(read, p)
<1>1. shown \in [id : ElectionIds \union {Null}, version : Int]
      /\ shown.id = read.id /\ shown.version = read.version
  OBVIOUS
<1> HIDE DEF shown
<1>2. begun \in Request
  BY NoRequestFields, WriteField
<1>3. next = [named EXCEPT !.promise = p]
  BY DEF Waiting, shown
<1>4. /\ next.phase = "awaiting" /\ next.pending = {} /\ next.expired = NoRequest.expired
      /\ next.closed = NoRequest.closed /\ next.shown = shown /\ next.promise = p
  BY <1>3 DEF NoRequest
<1> HIDE DEF begun, next
<1>5. named \in Request
  BY <1>1, <1>2, WriteField
<1> HIDE DEF named
<1>6. next \in Request
  BY <1>3, <1>5, WriteField
<1>7. QED
  BY <1>1, <1>4, <1>6, NoRequestFields DEF next

\* A request that finds its key shares the promise of the entry.
LEMMA ResolveHitStep ==
  ASSUME CacheInv, NEW r \in RequestIds, Resolve(r), Hit(VirtualClosed(request[r])),
         UNCHANGED <<electionVars, version, tally, rewound>>
  PROVE  CacheInv'
<1> DEFINE read == VirtualClosed(request[r])
           next == Waiting(read, cache.promise)
<1>1. read.id # Null /\ request[r].phase = "reading"
  BY DEF Resolve, NothingToShow
<1>2. read.id \in ElectionIds /\ read.version \in Int
  BY <1>1, VirtualClosedSeen
<1>3. cache.promise # Null /\ cache.id = read.id /\ cache.version = read.version
  BY DEF Hit
<1>4. cache.promise \in RequestIds
  BY <1>3 DEF CacheInv, ServerInv, ServerTypeOK
<1>5. Answer(read.id, read.version, cache.promise)
  BY <1>3 DEF CacheInv, ServerInv, EntryInv
<1>6. request' = [request EXCEPT ![r] = next] /\ UNCHANGED <<query, cache>>
  BY DEF Resolve, Waiting
<1>7. query[r].state = "none"
  BY <1>1 DEF CacheInv, ServerInv, ReadingInv, Reading
<1> HIDE DEF read
<1>8. /\ next \in Request /\ next.phase = "awaiting" /\ next.pending = {}
      /\ next.expired.id = Null /\ next.closed.id = Null
      /\ next.shown.id = read.id /\ next.shown.version = read.version
      /\ next.promise = cache.promise
  BY <1>2, <1>4, WaitingFields
<1> HIDE DEF next
<1>9. QED
  BY <1>2, <1>4, <1>5, <1>6, <1>7, <1>8, RequestStep

\* A request that does not find its key issues a query of its own, which takes
\* the place of the entry; nobody held its promise before.
LEMMA ResolveMissStep ==
  ASSUME CacheInv, NEW r \in RequestIds, Resolve(r), ~Hit(VirtualClosed(request[r])),
         UNCHANGED <<electionVars, version, tally, rewound>>
  PROVE  CacheInv'
<1> DEFINE read == VirtualClosed(request[r])
<1>1. read.id # Null /\ request[r].phase = "reading"
  BY DEF Resolve, NothingToShow
<1>2. PICK e \in ElectionIds, v \in Int, ahead \in BOOLEAN :
        e = read.id /\ v = read.version /\ ahead = request[r].ahead /\ Seen(e, v, ahead)
  <2>1. request[r].ahead \in BOOLEAN
    BY DEF CacheInv, ServerInv, ServerTypeOK, Request
  <2>2. QED
    BY <1>1, <2>1, VirtualClosedSeen
<1>3. query[r].state = "none"
  BY <1>1 DEF CacheInv, ServerInv, ReadingInv, Reading
<1> DEFINE next == Waiting(read, r)
           named == [NoQuery EXCEPT !.state = "running", !.election = read.id]
           q == [named EXCEPT !.ahead = request[r].ahead]
           entry == [id |-> read.id, version |-> read.version, promise |-> r]
<1>5. request' = [request EXCEPT ![r] = next]
  BY DEF Resolve, Waiting
<1>6. query' = [query EXCEPT ![r] = q] /\ cache' = entry
  BY DEF Resolve
<1> HIDE DEF read
<1>7. /\ next \in Request /\ next.phase = "awaiting" /\ next.pending = {}
      /\ next.expired.id = Null /\ next.closed.id = Null
      /\ next.shown.id = e /\ next.shown.version = v /\ next.promise = r
  BY <1>2, WaitingFields
<1>8. q.state = "running" /\ q.election = e /\ q.ahead = ahead
  BY <1>2 DEF NoQuery
<1>9. q \in Query
  <2> DEFINE Queries == [state : {"running", "done", "failed"}, election : ElectionIds,
                         results : 0..MaxBallots, ahead : BOOLEAN]
  <2>1. named \in Queries
    <3> DEFINE Begun == [state : {"none", "running"}, election : ElectionIds \union {Null},
                         results : 0..MaxBallots, ahead : BOOLEAN]
               begun == [NoQuery EXCEPT !.state = "running"]
    <3>1. NoQuery \in Begun
      BY BoundsAssumption DEF NoQuery
    <3>2. begun \in Begun /\ begun.state = "running"
      BY <3>1
    <3>3. named = [begun EXCEPT !.election = read.id]
      OBVIOUS
    <3> HIDE DEF begun, named
    <3>4. QED
      BY <1>2, <3>2, <3>3
  <2> HIDE DEF named
  <2>2. q \in Queries
    BY <1>2, <2>1
  <2> HIDE DEF q
  <2>3. QED
    BY <2>2 DEF Query
<1>10. entry.id = e /\ entry.version = v /\ entry.promise = r
  BY <1>2
<1>11. entry \in [id : ElectionIds \union {Null}, version : Int, promise : RequestIds \union {Null}]
  BY <1>2
<1> HIDE DEF next, named, q, entry
<1>12. /\ now' = now /\ election' = election /\ version' = version /\ tally' = tally
       /\ rewound' = rewound
       /\ request \in [RequestIds -> Request] /\ query \in [RequestIds -> Query]
  BY DEF electionVars, CacheInv, ServerInv, ServerTypeOK
<1>13. /\ request'[r] = next /\ query'[r] = q
       /\ \A s \in RequestIds : s # r => request'[s] = request[s] /\ query'[s] = query[s]
  BY <1>5, <1>6, <1>12
<1>14. ElectionsInv'
  BY <1>12 DEF CacheInv, ElectionsInv, ElectionsTypeOK, OneOpenElection, IdxOneOpen, OpenHasWindow,
               OpenElections
<1>15. ServerTypeOK'
  <2>1. request' \in [RequestIds -> Request] /\ query' \in [RequestIds -> Query]
    BY <1>5, <1>6, <1>7, <1>9, <1>12
  <2>2. QED
    BY <1>6, <1>11, <1>12, <2>1 DEF CacheInv, ServerInv, ServerTypeOK
<1>16. \A f, w, a : Seen(f, w, a)' <=> Seen(f, w, a)
  BY <1>12 DEF Seen, Ended
<1>17. ASSUME NEW f, NEW w, NEW p \in RequestIds, Answer(f, w, p)
       PROVE  Answer(f, w, p)'
  <2>1. p # r
    BY <1>3, <1>17 DEF Answer
  <2>2. QED
    BY <1>12, <1>13, <1>16, <1>17, <2>1 DEF Answer
<1>18. Answer(e, v, r)'
  <2>1. query'[r].state = "running" /\ query'[r].election = e /\ query'[r].ahead = ahead
    BY <1>8, <1>13
  <2>2. Seen(e, v, ahead)'
    BY <1>2, <1>16
  <2>3. QED
    BY <2>1, <2>2 DEF Answer
<1>19. ReadingInv'
  <2> SUFFICES ASSUME NEW s \in RequestIds PROVE Reading(s)'
    BY DEF ReadingInv
  <2>1. CASE s = r
    BY <1>7, <1>13, <2>1 DEF Reading
  <2>2. CASE s # r
    BY <1>12, <1>13, <1>16, <2>2 DEF Reading, CacheInv, ServerInv, ReadingInv
  <2>3. QED
    BY <2>1, <2>2
<1>20. AwaitingInv'
  <2> SUFFICES ASSUME NEW s \in RequestIds PROVE Awaiting(s)'
    BY DEF AwaitingInv
  <2>1. CASE s = r
    BY <1>2, <1>7, <1>13, <1>18, <2>1 DEF Awaiting
  <2>2. CASE s # r
    BY <1>13, <1>17, <2>2 DEF Awaiting, CacheInv, ServerInv, AwaitingInv
  <2>3. QED
    BY <2>1, <2>2
<1>21. EntryInv'
  BY <1>2, <1>6, <1>8, <1>10, <1>13, <1>18 DEF EntryInv
<1>22. RunningInv'
  BY <1>7, <1>13 DEF RunningInv, CacheInv, ServerInv
<1>23. QED
  BY <1>14, <1>15, <1>19, <1>20, <1>21, <1>22 DEF CacheInv, ServerInv

\* The database serves a query: it counts the ballots of now.
LEMMA GetResultsStep ==
  ASSUME CacheInv, NEW r \in RequestIds, GetResults(r),
         UNCHANGED <<electionVars, version, tally, rewound>>
  PROVE  CacheInv'
<1> DEFINE q == [query[r] EXCEPT !.state = "done", !.results = tally[query[r].election]]
<1>1. query[r].state = "running" /\ UNCHANGED <<request, cache>>
  BY DEF GetResults
<1>2. query[r] \in [state : {"running", "done", "failed"}, election : ElectionIds,
                    results : 0..MaxBallots, ahead : BOOLEAN]
  <2>1. query[r] \in Query
    BY QueryFields DEF CacheInv, ServerInv
  <2>2. query[r] # NoQuery
    BY <1>1 DEF NoQuery
  <2>3. QED
    BY <2>1, <2>2 DEF Query
<1>3. tally[query[r].election] \in 0..MaxBallots
  BY <1>2 DEF CacheInv, ServerInv, ServerTypeOK
<1>4. /\ q.state = "done" /\ q.election = query[r].election /\ q.ahead = query[r].ahead
      /\ q.results = tally[q.election]
  BY <1>2
<1>5. q \in Query
  BY <1>2, <1>3 DEF Query
<1>6. query' = [query EXCEPT ![r] = q]
  BY DEF GetResults
<1> HIDE DEF q
<1>7. cache' = IF q.state = "failed" /\ cache.promise = r THEN NoEntry ELSE cache
  BY <1>1, <1>4
<1>8. QED
  BY <1>1, <1>4, <1>5, <1>6, <1>7, QueryStep

\* A query fails, and takes its own entry with it but no other.
LEMMA GetResultsFailsStep ==
  ASSUME CacheInv, NEW r \in RequestIds, GetResultsFails(r),
         UNCHANGED <<electionVars, version, tally, rewound>>
  PROVE  CacheInv'
<1> DEFINE q == [query[r] EXCEPT !.state = "failed"]
<1>1. query[r].state = "running" /\ UNCHANGED request
  BY DEF GetResultsFails
<1>2. query[r] \in [state : {"running", "done", "failed"}, election : ElectionIds,
                    results : 0..MaxBallots, ahead : BOOLEAN]
  <2>1. query[r] \in Query
    BY QueryFields DEF CacheInv, ServerInv
  <2>2. query[r] # NoQuery
    BY <1>1 DEF NoQuery
  <2>3. QED
    BY <2>1, <2>2 DEF Query
<1>3. q.state = "failed" /\ q.election = query[r].election /\ q.ahead = query[r].ahead
  BY <1>2
<1>4. q \in Query
  BY <1>2 DEF Query
<1>5. query' = [query EXCEPT ![r] = q]
  BY DEF GetResultsFails, CacheInv, ServerInv, ServerTypeOK
<1>6. cache' = IF cache.promise = r THEN NoEntry ELSE cache
  BY DEF GetResultsFails
<1> HIDE DEF q
<1>7. cache' = IF q.state = "failed" /\ cache.promise = r THEN NoEntry ELSE cache
  BY <1>3, <1>6
<1>8. QED
  BY <1>1, <1>3, <1>4, <1>5, <1>7, QueryStep

-----------------------------------------------------------------------------
(* The theorems. *)

\* Every step of a request keeps the invariant.
LEMMA ServeStep ==
  ASSUME CacheInv, NEW r \in RequestIds, Serve(r),
         UNCHANGED <<electionVars, version, tally, rewound>>
  PROVE  CacheInv'
<1>1. ASSUME NEW t \in WorkerClock, Start(r, t) PROVE CacheInv'
  BY <1>1, StartStep
<1>2. CASE FindOpen(r)
  BY <1>2, FindOpenStep
<1>3. CASE FindLatestClosed(r)
  BY <1>3, FindLatestClosedStep
<1>4. CASE AnswerWithoutResults(r)
  BY <1>4, AnswerWithoutResultsStep
<1>5. CASE Resolve(r)
  BY <1>5, ResolveHitStep, ResolveMissStep
<1>6. CASE GetResults(r)
  BY <1>6, GetResultsStep
<1>7. CASE GetResultsFails(r)
  BY <1>7, GetResultsFailsStep
<1>8. CASE Respond(r)
  BY <1>8, RespondStep
<1>9. QED
  BY <1>1, <1>2, <1>3, <1>4, <1>5, <1>6, <1>7, <1>8 DEF Serve

\* Every step of the system keeps the invariant.
LEMMA CacheStep == CacheInv /\ [Next]_vars => CacheInv'
<1> SUFFICES ASSUME CacheInv, [Next]_vars PROVE CacheInv'
  OBVIOUS
<1>1. CASE Tick /\ UNCHANGED <<version, tally, serverVars, rewound>>
  BY <1>1, TickStep
<1>2. CASE Administer /\ UNCHANGED serverVars
  BY <1>2, AdministerStep
<1>3. ASSUME NEW e \in ElectionIds, CastBallot(e), UNCHANGED serverVars PROVE CacheInv'
  BY <1>3, CastBallotStep
<1>4. ASSUME NEW r \in RequestIds, Serve(r), UNCHANGED <<electionVars, version, tally, rewound>>
      PROVE  CacheInv'
  BY <1>4, ServeStep
<1>5. CASE UNCHANGED vars
  <2>1. /\ now' = now /\ election' = election /\ version' = version /\ tally' = tally
        /\ rewound' = rewound /\ request' = request /\ query' = query /\ cache' = cache
    BY <1>5 DEF vars, electionVars, serverVars
  <2>2. ElectionsInv'
    BY <2>1 DEF CacheInv, ElectionsInv, ElectionsTypeOK, OneOpenElection, IdxOneOpen, OpenHasWindow,
                OpenElections
  <2>3. now \in Int /\ version \in [ElectionIds -> Int] /\ tally \in [ElectionIds -> 0..MaxBallots]
        /\ rewound \in SUBSET ElectionIds
    BY DEF CacheInv, ElectionsInv, ElectionsTypeOK, ServerInv, ServerTypeOK
  <2>4. \A e \in ElectionIds : version[e] <= version'[e] /\ (Ended(e) => Ended(e)')
    BY <2>1, <2>3 DEF Ended
  <2>5. UNCHANGED serverVars
    BY <2>1 DEF serverVars
  <2>6. ServerInv'
    BY <2>1, <2>3, <2>4, <2>5, DatabaseStep
  <2>7. QED
    BY <2>2, <2>6 DEF CacheInv
<1>6. QED
  BY <1>1, <1>2, <1>3, <1>4, <1>5 DEF Next

\* The invariant holds at the start.
LEMMA CacheInit == Init => CacheInv
<1> SUFFICES ASSUME Init PROVE CacheInv
  OBVIOUS
<1>1. ElectionsInv
  BY ElectionsInitInv DEF Init
<1>2. /\ \A r \in RequestIds : request[r] = NoRequest /\ query[r] = NoQuery
      /\ cache = NoEntry
  BY DEF Init
<1>3. /\ NoRequest.phase = "idle" /\ NoRequest.pending = {} /\ NoQuery.state = "none"
      /\ NoEntry.promise = Null
  BY DEF NoRequest, NoQuery, NoEntry
<1>4. ServerTypeOK
  <2>1. NoRequest \in Request /\ NoQuery \in Query
    BY NoRequestFields DEF Query
  <2>2. cache \in [id : ElectionIds \union {Null}, version : Int, promise : RequestIds \union {Null}]
    BY <1>2 DEF NoEntry
  <2>3. QED
    BY <2>1, <2>2, BoundsAssumption DEF Init, ServerTypeOK
<1>5. ReadingInv
  BY <1>2, <1>3, NoRequestFields DEF ReadingInv, Reading
<1>6. AwaitingInv /\ EntryInv /\ RunningInv
  BY <1>2, <1>3 DEF AwaitingInv, Awaiting, EntryInv, RunningInv
<1>7. QED
  BY <1>1, <1>4, <1>5, <1>6 DEF CacheInv, ServerInv

\* Every key that is held, by a request or by the entry, names a row that the
\* database has replaced since or whose voting is over, and every promise that is
\* held for it is a query for that election.
THEOREM CacheInvariant == Spec => []CacheInv
<1>1. QED
  BY CacheInit, CacheStep, PTL DEF Spec

\* The state keeps its form, for any elections, requests and bounds.
THEOREM CacheTypeCorrect == Spec => []CacheTypeOK
<1>1. CacheInv => CacheTypeOK
  BY DEF CacheInv, ElectionsInv, ServerInv, ServerTypeOK, CacheTypeOK
<1>2. QED
  BY <1>1, CacheInvariant, PTL

\* Results that are about to be shown count every ballot of their election, for as
\* long as the row they were asked for is the current one (getCachedClosedResults
\* with updated_at in its key).
THEOREM ResultsCurrentCorrect == Spec => []ResultsCurrent
<1>1. CacheInv => ResultsCurrent
  <2> SUFFICES ASSUME CacheInv, NEW r \in RequestIds, request[r].phase = "awaiting",
                      LET e == request[r].shown.id
                          q == query[request[r].promise]
                      IN /\ q.state = "done" /\ ~q.ahead
                         /\ version[e] = request[r].shown.version /\ e \notin rewound
               PROVE  LET e == request[r].shown.id
                          q == query[request[r].promise]
                      IN q.election = e /\ q.results = tally[e]
    BY DEF ResultsCurrent
  <2>1. Answer(request[r].shown.id, request[r].shown.version, request[r].promise)
    BY DEF CacheInv, ServerInv, AwaitingInv, Awaiting
  <2>2. QED
    BY <2>1 DEF Answer
<1>2. QED
  BY <1>1, CacheInvariant, PTL

\* The entry never holds a query that failed, nor one for another election than
\* its key's (the handler of a failed query removes its own entry only).
THEOREM EntryServableCorrect == Spec => []EntryServable
<1>1. CacheInv => EntryServable
  BY DEF CacheInv, ServerInv, EntryInv, Answer, EntryServable
<1>2. QED
  BY <1>1, CacheInvariant, PTL

\* No query of an isolate whose clock is not ahead counts the ballots of an
\* election in which voting goes on, as long as the row it was issued for is the
\* current one.
THEOREM NoPartialResultsCorrect == Spec => NoPartialResults
<1> DEFINE Complete == \A r \in RequestIds :
             LET e == query[r].election
             IN /\ query[r].state = "running" /\ query'[r].state = "done" /\ ~query[r].ahead
                /\ version[e] = request[r].shown.version /\ e \notin rewound
                => Ended(e)
<1>1. CacheInv => Complete
  <2> SUFFICES ASSUME CacheInv, NEW r \in RequestIds, query[r].state = "running", ~query[r].ahead,
                      version[query[r].election] = request[r].shown.version,
                      query[r].election \notin rewound
               PROVE  Ended(query[r].election)
    OBVIOUS
  <2>1. request[r].phase = "awaiting" /\ request[r].promise = r
    BY DEF CacheInv, ServerInv, RunningInv
  <2>2. Answer(request[r].shown.id, request[r].shown.version, r)
    BY <2>1 DEF CacheInv, ServerInv, AwaitingInv, Awaiting
  <2>3. QED
    BY <2>2 DEF Answer, Seen
<1>2. QED
  BY <1>1, CacheInvariant, PTL DEF NoPartialResults
=============================================================================
