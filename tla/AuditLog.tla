------------------------------ MODULE AuditLog ------------------------------
(***************************************************************************)
(* The audit log: rows are only ever added; the administrators' page reads *)
(* them newest first, in batches behind a cursor, and pages through what   *)
(* it has read.                                                            *)
(*                                                                         *)
(* A row is its time, its id (random, so ties of one second fall in any    *)
(* order) and its target. The six filters are treated alike and are one    *)
(* here, on the target. A worker's clock may be behind: the time of a new  *)
(* row is any. BATCH_SIZE stands for 100, PageSizes for 10, 20 and 50.     *)
(***************************************************************************)
EXTENDS OnePart, Absence, Integers, FiniteSets, SequencesExt

CONSTANTS
  LogTimes, LogIds, Targets,
  InitialRows,       \* the rows there are when the page is opened
  PageSizes, DefaultPageSize, BATCH_SIZE,
  AuditBudgets       \* bound: how often [write, filter, turn, expand] may happen

VARIABLES
  auditRows,
  fetchedItems, pageIndex, limitFilter, nextCursor, isLoading, loadFailed,
  targetFilter,
  logRequests,       \* the requests under way, by query id
  currentQueryId,
  targetNames,       \* resolvedNames and resolvingIds, and the row that is expanded
  auditPast,         \* history, see the properties
  auditBudget

readerVars == <<fetchedItems, pageIndex, limitFilter, nextCursor, isLoading, loadFailed,
                targetFilter, logRequests, currentQueryId>>
auditLogVars == <<auditRows, readerVars, targetNames, auditPast, auditBudget>>

AuditRow == [time : LogTimes, id : LogIds, target : Targets]

ASSUME LogAssumption ==
  /\ LogTimes \union LogIds \subseteq Int
  /\ Null \notin Int \union AuditRow
  /\ InitialRows \subseteq AuditRow /\ IsFiniteSet(InitialRows)
  /\ \A a, b \in InitialRows : a.id = b.id => a = b

\* A batch is a whole number of pages of any size.
ASSUME PagesAssumption ==
  /\ BATCH_SIZE \in Nat \ {0} /\ PageSizes \subseteq Nat \ {0} /\ DefaultPageSize \in PageSizes
  /\ \A size \in PageSizes : \E n \in 1..BATCH_SIZE : BATCH_SIZE = n * size

SpendAudit(what) ==
  /\ auditBudget[what] > 0
  /\ auditBudget' = [auditBudget EXCEPT ![what] = @ - 1]

\* (createdAt, id) descending, the order of the log and of the cursor.
Newer(a, b) == a.time > b.time \/ (a.time = b.time /\ a.id > b.id)

Matches(row, filter) == filter = Null \/ row.target = filter

\* Mutant: the next page starts at the next second.
BeyondBySecond(row, cursor) == cursor = Null \/ row.time < cursor.time

\* The cursor predicate: strictly past the last row of the page before.
Beyond(row, cursor) == cursor = Null \/ Newer(cursor, row)

\* The first rows in the order of the log, n of them if there are as many.
FirstOf(rows, n) ==
  LET rank(row) == Cardinality({other \in rows : Newer(other, row)}) + 1
      size == IF Cardinality(rows) < n THEN Cardinality(rows) ELSE n
  IN [i \in 1..size |-> CHOOSE row \in rows : rank(row) = i]

\* auditLogRepo.list(): a page, and the cursor of the next one when the page is full.
ListPage(filter, cursor) ==
  LET items == FirstOf({row \in auditRows : Matches(row, filter) /\ Beyond(row, cursor)}, BATCH_SIZE)
  IN [items |-> items, nextCursor |-> IF Len(items) = BATCH_SIZE THEN Last(items) ELSE Null]

\* A row is inserted; its id is new.
WriteAudit(row) ==
  /\ SpendAudit("write")
  /\ \A other \in auditRows : other.id # row.id
  /\ auditRows' = auditRows \union {row}
  /\ UNCHANGED <<readerVars, targetNames, auditPast>>

-----------------------------------------------------------------------------
\* fetchNextBatch(): a new query with the filter and the cursor of this moment. `offset' is
\* where handleNext() wants to be, or Null for a load from the start.
Fetch(filter, cursor, offset) ==
  /\ isLoading' = TRUE /\ loadFailed' = FALSE
  /\ currentQueryId' = currentQueryId + 1
  /\ logRequests' = logRequests \union
       {[query |-> currentQueryId + 1, filter |-> filter, cursor |-> cursor, offset |-> offset,
         page |-> Null]}

\* resetAndLoad(), when a filter changes and when the page is opened. `toBeListed' is what
\* the log has for it then.
ResetAndLoad(filter) ==
  /\ fetchedItems' = <<>> /\ nextCursor' = Null /\ pageIndex' = 0
  /\ Fetch(filter, Null, Null)
  /\ auditPast' = [auditPast EXCEPT !.toBeListed = {row \in auditRows : Matches(row, filter)},
                                    !.lateTurn = FALSE]

HandleFilterChange(filter) ==
  /\ SpendAudit("filter")
  /\ filter # targetFilter
  /\ targetFilter' = filter
  /\ ResetAndLoad(filter)
  /\ UNCHANGED <<auditRows, limitFilter, targetNames>>

ClearAuditFilters ==
  /\ SpendAudit("filter")
  /\ targetFilter # Null
  /\ targetFilter' = Null /\ limitFilter' = DefaultPageSize
  /\ ResetAndLoad(Null)
  /\ UNCHANGED <<auditRows, targetNames>>

ServeLog(r) ==
  /\ r \in logRequests /\ r.page = Null
  /\ logRequests' = (logRequests \ {r}) \union {[r EXCEPT !.page = ListPage(r.filter, r.cursor)]}
  /\ UNCHANGED <<auditRows, fetchedItems, pageIndex, limitFilter, nextCursor, isLoading, loadFailed,
                 targetFilter, currentQueryId, targetNames, auditPast, auditBudget>>

\* Mutant: every answer is taken.
CurrentAlways(r) == TRUE

Current(r) == r.query = currentQueryId

\* The end of handleNext(): the page is turned if by now there is something on it.
TurnAfter(r) ==
  LET turns == r.offset # Null /\ r.offset < Len(fetchedItems')
  IN /\ pageIndex' = IF turns THEN pageIndex + 1 ELSE pageIndex
     /\ auditPast' = [auditPast EXCEPT !.lateTurn = @ \/ (turns /\ ~Current(r))]

\* Mutant: the flag is cleared by an answer that arrives, not by an error.
LogFailsLoading(r) ==
  /\ r \in logRequests
  /\ logRequests' = logRequests \ {r}
  /\ loadFailed' = (loadFailed \/ Current(r))
  /\ UNCHANGED <<fetchedItems, nextCursor, isLoading>>
  /\ TurnAfter(r)
  /\ UNCHANGED <<auditRows, limitFilter, targetFilter, currentQueryId, targetNames, auditBudget>>

LogFails(r) ==
  /\ r \in logRequests
  /\ logRequests' = logRequests \ {r}
  /\ IF Current(r) THEN isLoading' = FALSE /\ loadFailed' = TRUE
     ELSE UNCHANGED <<isLoading, loadFailed>>
  /\ UNCHANGED <<fetchedItems, nextCursor>>
  /\ TurnAfter(r)
  /\ UNCHANGED <<auditRows, limitFilter, targetFilter, currentQueryId, targetNames, auditBudget>>

LogArrives(r) ==
  /\ r \in logRequests /\ r.page # Null
  /\ logRequests' = logRequests \ {r}
  /\ IF Current(r)
     THEN /\ fetchedItems' = fetchedItems \o r.page.items
          /\ nextCursor' = r.page.nextCursor
          /\ isLoading' = FALSE
     ELSE UNCHANGED <<fetchedItems, nextCursor, isLoading>>
  /\ TurnAfter(r)
  /\ UNCHANGED <<auditRows, loadFailed, limitFilter, targetFilter, currentQueryId, targetNames,
                 auditBudget>>

\* Mutant: the page after the last full one can be turned to.
HasFetchedTo(offset) == offset <= Len(fetchedItems)

HasFetched(offset) == offset < Len(fetchedItems)

HandleNext ==
  LET nextOffset == (pageIndex + 1) * limitFilter
  IN /\ SpendAudit("turn")
     /\ ~isLoading
     /\ \/ /\ HasFetched(nextOffset)
           /\ pageIndex' = pageIndex + 1
           /\ UNCHANGED <<isLoading, loadFailed, currentQueryId, logRequests>>
        \/ /\ ~HasFetched(nextOffset) /\ nextCursor # Null
           /\ Fetch(targetFilter, nextCursor, nextOffset)
           /\ UNCHANGED pageIndex
     /\ UNCHANGED <<auditRows, fetchedItems, limitFilter, nextCursor, targetFilter, targetNames,
                    auditPast>>

TurnTo(index, limit) ==
  /\ SpendAudit("turn")
  /\ ~isLoading
  /\ pageIndex' = index /\ limitFilter' = limit
  /\ UNCHANGED <<auditRows, fetchedItems, nextCursor, isLoading, loadFailed, targetFilter, logRequests,
                 currentQueryId, targetNames, auditPast>>

HandlePrev == pageIndex > 0 /\ TurnTo(pageIndex - 1, limitFilter)

HandlePageSizeChange(limit) == limit # limitFilter /\ TurnTo(0, limit)

DisplayedItems ==
  LET first == pageIndex * limitFilter + 1
  IN SubSeq(fetchedItems, first,
            IF first + limitFilter - 1 < Len(fetchedItems) THEN first + limitFilter - 1 ELSE Len(fetchedItems))

-----------------------------------------------------------------------------
\* A row is opened: the name of its target is looked up unless it is known or on its way.
ToggleExpand(row) ==
  /\ SpendAudit("expand")
  /\ row \in ToSet(DisplayedItems)
  /\ targetNames' =
       IF targetNames.expanded = row THEN [targetNames EXCEPT !.expanded = Null]
       ELSE [targetNames EXCEPT !.expanded = row,
                                !.of[row.target] = IF @ = "none" THEN "resolving" ELSE @]
  /\ UNCHANGED <<auditRows, readerVars, auditPast>>

\* The look-up ends with a name, or by failing with the target's id.
TargetNameResolved(t) ==
  /\ targetNames.of[t] = "resolving"
  /\ targetNames' = [targetNames EXCEPT !.of[t] = "known"]
  /\ UNCHANGED <<auditRows, readerVars, auditPast, auditBudget>>

-----------------------------------------------------------------------------
\* The page is opened: onMount() runs resetAndLoad().
AuditLogInit ==
  /\ auditRows = InitialRows
  /\ fetchedItems = <<>> /\ pageIndex = 0 /\ limitFilter = DefaultPageSize /\ nextCursor = Null
  /\ isLoading = TRUE /\ loadFailed = FALSE /\ targetFilter = Null
  /\ currentQueryId = 1
  /\ logRequests = {[query |-> 1, filter |-> Null, cursor |-> Null, offset |-> Null, page |-> Null]}
  /\ targetNames = [expanded |-> Null, of |-> [t \in Targets |-> "none"]]
  /\ auditPast = [toBeListed |-> InitialRows, lateTurn |-> FALSE]
  /\ auditBudget \in AuditBudgets

AuditLogNext ==
  \/ \E row \in AuditRow : WriteAudit(row)
  \/ \E filter \in Targets : HandleFilterChange(filter)
  \/ ClearAuditFilters
  \/ \E r \in logRequests : ServeLog(r) \/ LogArrives(r) \/ LogFails(r)
  \/ HandleNext \/ HandlePrev
  \/ \E limit \in PageSizes : HandlePageSizeChange(limit)
  \/ \E row \in ToSet(DisplayedItems) : ToggleExpand(row)
  \/ \E t \in Targets : TargetNameResolved(t)

AuditLogSpec == AuditLogInit /\ [][AuditLogNext]_auditLogVars

\* A request ends, with its answer or by failing.
AuditLogFairness ==
  /\ WF_auditLogVars(At("audit") /\ \E r \in logRequests : LogArrives(r) \/ LogFails(r))
  /\ \A t \in Targets : WF_auditLogVars(At("audit") /\ TargetNameResolved(t))

-----------------------------------------------------------------------------
\* What is shown is newest first, no row twice, and of the filter that is set: answers of
\* an earlier query, rows written between two batches and rows of one second never mix
\* into it.
LogInOrder ==
  /\ \A i, j \in DOMAIN fetchedItems : i < j => Newer(fetchedItems[i], fetchedItems[j])
  /\ \A i \in DOMAIN fetchedItems : Matches(fetchedItems[i], targetFilter)

\* No row is passed over: what was in the log when this filter was loaded and is not newer
\* than the last row read has been read, and at the end of the log all of it has.
LogComplete ==
  \A row \in auditPast.toBeListed :
    \/ row \in ToSet(fetchedItems)
    \/ fetchedItems = <<>> /\ (isLoading \/ loadFailed)
    \/ fetchedItems # <<>> /\ nextCursor # Null /\ Newer(Last(fetchedItems), row)

\* The page shown has rows on it, as many as its size unless it is the last one: `No audit
\* entries yet' is not shown for a page past the end. Excepted is a Next whose answer
\* arrives after the filter was changed and this many rows were read again: it still
\* turns the page.
PageShown ==
  \/ auditPast.lateTurn
  \/ fetchedItems = <<>> /\ pageIndex = 0
  \/ DisplayedItems # <<>> /\ (nextCursor # Null => Len(DisplayedItems) = limitFilter)

\* A load ends, and so does the look-up of a name.
AuditLoadEnds ==
  []<>(part # "audit" \/ (~isLoading /\ \A t \in Targets : targetNames.of[t] # "resolving"))

\* The log on the page is the log, in its order and without a gap, page by page.
AuditLogCorrect == LogInOrder /\ LogComplete /\ PageShown
=============================================================================
