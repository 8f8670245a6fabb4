# Verification of ocsvs

ocsvs is the voting system of a student organisation: administrators register
students and draft an election (positions, candidates, a window), students cast
one ballot each while the election is open, and the results and the turnout are
read from the tables afterwards. It runs as a stateless Worker in front of a
libSQL (Turso) database, with a picture store beside it and a Svelte frontend.
There is no lock and no queue anywhere: what keeps the tables right is SQL
transactions, unique indexes, triggers, compare-and-set updates and the order in
which the handlers read. In the browser, pages share a cache whose fetches overtake
one another, and have to find out what became of requests whose answers were lost.
That is what these modules are about.

Source paths are relative to `src/apps/backend/src/` (`lib`, `database`, `scripts` one
level up), or, where the table says "frontend", to `src/apps/frontend/src/`, unless they
begin with `src/`.

## The system: components, state, operations

| Component | State it keeps | Operations | Hard because | Modelled in |
|---|---|---|---|---|
| Election lifecycle (`lib/election-lifecycle-coordinator.ts`, `lib/election-lifecycle.ts`) | `elections`: status, window, electorate count | create, updateMetadata, extendClosingTime, transition | the Worker's clock decides first and the database clock decides again; opening one election closes another | `Elections` |
| Ballot form (`lib/position-lifecycle-coordinator.ts`, `lib/candidate-lifecycle-coordinator.ts`) | `positions`, `candidates` | create, delete, deactivate | must not move under ballots already cast or being cast | `Roster` |
| Position order (`database/repositories/position.repository.ts`) | `display_order` with a unique index per election | create, update, delete, reorder | a permutation written row by row under a unique index | `PositionOrder` |
| Electorate and accounts (`lib/user-lifecycle-coordinator.ts`) | `accounts`, `users` | register, bulkImport, update, softDelete, restore, hardDelete | checks apart from the transactions; two administrators remove each other; frozen while an election is open, by a Worker clock | `Electorate` (its effect on elections), `Accounts` (requests and ranks) |
| Ballot casting (`lib/ballot-caster.ts`) | `votes`, `ballot_snapshots`, `voter_election_participation` | cast | six separate reads, then one batch; every other writer may commit in between | `Voting`, `BallotBox` |
| Legacy anonymisation and secrets (`src/apps/backend/scripts/anonymize-votes.ts`, `lib/ballot-caster.ts`) | `votes.user_id`, hashes per secret | backfill, rotation | converts the very rows the double-vote check reads | `Voting` |
| Turnout and results (`database/queries/election.queries.ts`) | none | getResults, getTurnout | five or six statements beside casting and the backfill | `Turnout`, `Voting` (`TotalBallotsCast`) |
| Voting state and results cache (`database/queries/voting-state.queries.ts`) | one entry per isolate | getVotingState | requests share a query that may be old, or fail; the key is `id:updated_at`, and `updated_at` is not monotone | `ResultsCache` |
| Credentials (`lib/session.ts`, `authenticate`, `resetPassword`, `changePassword`) | `sessions`, `login_attempts`, password hashes | login, logout, reset, change, unlock, purge | a slow verify between read and write; opportunistic rehash; attempts counted before they are recorded | `Credentials` |
| Candidate pictures (`lib/candidate-lifecycle-coordinator.ts`, `lib/b2-client.ts`) | a key in the row, an object in the store | upload, delete, download | two stores, no transaction across them, compensation | `AvatarStore` |
| Audit log (`database/repositories/audit-log.repository.ts`, frontend `routes/(admin)/admin/audit-log`) | rows that are only added; the page's rows, cursor and page | list behind a cursor; filter, next, previous, expand | rows arrive while the cursor walks; answers and filters overtake each other | `AuditLog` |
| Reading of rosters (frontend `lib/utils/pdf-parser.ts`; `src/packages/student-csv-parser`; `scripts/import-students.ts`) | none | parse a CSV, columns on pages, rows, a stream of lines | damaged extractions; the page and the script choose their readers by different signs | `RosterParsing` |
| Student import (frontend `routes/(admin)/admin/users/import`; `scripts/import-students.ts`) | rows to be sent, batches, credentials | drop a file, edit, submit in batches, download; the script | plain passwords exist only in what is shown or written; a batch fails or its answer is lost | `RosterImport` |
| Voting page, caches and session (frontend `lib/cache`, `lib/stores`, `lib/vote-submission.ts`, `lib/api/client.ts`, `routes/(protected)/voting`) | cache entries, the user, the ballot being filled in | fetch, invalidate, log in and out in several tabs, submit, reconcile, count down | answers out of order, answers lost, tabs put away | `ClientCache`, `BallotStepper`, `VotingClient` |
| Users page (frontend `routes/(admin)/admin/users`) | the list with its search, filters and pages in the URL; dialogs | search, filter, page, and a dialog per operation with its handler | a timer, the router and handlers overtake each other; a dialog may be for another account by the time its answer comes | `UsersPage` |
| Results pages (frontend `routes/(admin)/admin/results`, `routes/(protected)/elections/[electionId]/results`) | the last election and results fetched, the page's clock | poll, last refresh | the page's clock, extensions, slow polls | `ResultsPage` |
| Election page (frontend `routes/(admin)/admin/elections/[electionId]`) | the list of positions with a local order, forms, lifecycle controls | create, edit, delete, common positions, reorder, transition, extend | saved but not shown; local orders beside loaded ones | `ElectionPage` |
| Party lists, middleware, remaining pages, operator scripts | | | single-row edits, header checks, forms over one call, one-shot scripts | not modelled |

Interactions. Every handler reaches the database through its coordinator. A
transition of an election reads the form (is it complete), the ballots (may it go
back to draft) and the active voters (the size of the electorate). The form may be
edited only while its election is a draft. Accounts may be changed only while no
election is open. Deleting a user clears `votes.user_id`. A cast reads all of
these tables and writes three of its own. The only messages are HTTP requests, so
concurrency is what two requests do to the same tables between their statements; the
results cache is the one piece of memory that requests share. In the browser the pages
share the cache, the router and the session, and tabs share a broadcast channel.

## What an atomic step is

* `db.transaction(...)` runs as `BEGIN IMMEDIATE`: it holds the write lock from its
  first statement on. A coordinator call inside a transaction is one action.
* `db.batch([...])` is one transaction as well: all its inserts or none.
* A read outside a transaction is an action of its own, and anything may commit
  before the next one. Reads issued together by `Promise.all` may be served in
  either order (`pending` in `Voting`).
* A Worker that dies takes no further step. No step of the server is fair, so every
  request may stop anywhere, and a retry is another request of the same account.
* In the browser, what runs between two awaits is one action: an answer arrives and
  everything the page does with it, derived state included. An answer arrives in any
  order, after the server has handled the request, or is lost before or after that.
* There are two clocks: the database's (`now`, the `unixepoch()` of the triggers
  and of the update of an extension) and the Worker's, which may be off by at most
  `Skew` seconds and is drawn anew for every request (`WorkerClock`).

## Modules

| Module | What it holds |
|---|---|
| `Absence`, `OnePart` | `Null`; the choice of one part where parts are checked beside one another |
| `Elections` | the elections table, the clocks, the four lifecycle calls |
| `Roster` | positions and candidates under the draft-only rule (extends `Elections`) |
| `Electorate` | voter accounts and the freeze (extends `Elections`) |
| `Voting` | `cast` read by read, the earlier writer, the backfill, rotation of secrets; composes all the above |
| `BallotBox` | the abstract specification of voting, which `Voting` implements and whose steps the server of `VotingClient` takes |
| `PositionOrder` | display orders and the two-pass reorder (extends `Roster`) |
| `Credentials` | login, change of password, resets, archival, the lockout, step by step |
| `ResultsCache` | `getVotingState` of one isolate, its cache, and every writer of `updated_at` (extends `Elections`) |
| `AvatarStore` | pictures over database and object store (extends `Roster`) |
| `Accounts` | the requests of administrators of both ranks: registration, import with its user names, update, archival, restoration, deletion |
| `Turnout` | `getResults` and `getTurnout` statement by statement |
| `ClientCache` | one entry of the browser's cache, as operators on a record |
| `BallotStepper` | the ballot being filled in, as operators |
| `VotingClient` | session, cache, voting page, countdown and reconciliation of one tab against a changing server (uses both) |
| `ResultsPage`, `UsersPage`, `AuditLog`, `ElectionPage`, `RosterImport` | a page each; `AuditLog` with its query, `RosterImport` with the script |
| `RosterParsing` | the readers of rosters, on texts written and damaged step by step |
| `Preparation` | orders and pictures at once, with the form, the lifecycle and time (extends `PositionOrder` and `AvatarStore`) |
| `Drafting`, `Administration`, `VoterPages` | parts side by side: orders and pictures; the administrators' pages, lifecycle, accounts and rosters; the voters' pages and the turnout |
| `MCVoting`, `MCPositionOrder`, `MCCredentials`, `MCResultsCache`, `MCDrafting`, `MCAdministration`, `MCVoterPages` | instances for TLC |
| `ElectionsProofs` (with the lemmas on the roster), `VotingProofs`, `DraftingProofs`, `CredentialsProofs`, `ResultsCacheProofs`, `RosterProofs`, `AdministrationProofs`, `VoterPagesProofs` | theorems and proofs |

Where parts are checked side by side, `part` is chosen in the initial state and stays,
so that the states of the parts add up instead of multiplying. That is sound because
the parts have no variable in common. In `Drafting` they share the election and the form;
there `Preparation` has both at once, which TLC can follow on the smallest instance only
(the third part of `drafting`), and the theorems on any (`PreparationCorrect`).

How they correspond to the code:

* `Elections.Transition` is the whole transaction of `transition`: the other open
  election is closed if its window has passed (`Superseded`), times are resolved
  (`ResolvedOpensAt`, `ResolvedClosesAt`), the edge is validated (`TRANSITIONS`,
  `MayOpen`, `~hasBallots`) and the row is written under the one-open index
  (`IdxOneOpen`). What it must know of other tables is a parameter that the
  composing module fills in; alone, `ElectionsNext` leaves it free.
* `ExtendClosingTime` has two tests of the window on two clocks, as the code does.
* `Voting.Receive .. ReadForm` are the awaits of `cast` in order; the outcome of a
  read is stored in the request's row (`CastRow`) and used later. `CommitBallot`,
  `AbortNotOpen` and `AbortDuplicate` are the three ends of the batch: the
  trigger fires on the inserts of votes, which come first, so a batch that is both
  late and a duplicate ends as `ELECTION_NOT_OPEN`.
* `votes` and `snapshots` are kept apart because the queries and the guard of
  reopening read both. A ballot is named by the request that wrote it, so a second
  ballot of a student is visible as a second request.
* A voter hash is the pair of secret and student. The normalisation before the HMAC
  is injective on real student IDs, and blank IDs cannot be registered. Secret 0
  is the unkeyed hash that the code still looks for.
* `LegacyVote` is the writer of earlier releases, which named the user. It runs
  only before the first request of the present code, as the release procedure
  orders; `AnonymizeVotes` is `anonymize-votes.ts --apply`.
* The error codes of steps 5 to 7 of `cast` are one outcome, `BALLOT_REFUSED`: no
  property tells them apart. An empty selection is refused after the participation
  check, as in the code.
* `openings` and the `opening` of a request are history: they let a property speak
  of a ballot that belongs to an earlier opening.
* `Credentials`: a login is `ReceiveLogin`, `DeleteExpiredAttempts`,
  `CheckLockout` (the recent attempts are counted), `FindAccount` (the hash is read; PBKDF2
  follows), then `RecordAttempt`, or `Rehash`, `ClearAttempts` and `OpenSession`;
  a change is `ReceiveChange` (the session is checked), `GetPasswordHash`,
  `CommitChange`, `RotateSession`. The WHERE clauses that name the verified hash are
  the guards of `Rehash`, `CommitChange` and `OpenSession`. A failed attempt is
  named by the login that left it and is recent or expired; that is all of time the
  lockout looks at. `ResetPassword` also stands for `reset-password.ts`, which works
  on archived accounts too. Roles and the freeze only restrict administrators and
  are left open; the expiry of sessions only removes rows. `disturbed` is history.
* `ResultsCache`: the isolates share only the database, so one is modelled. A
  promise is named by the request that issued the query. `Resolve` is
  `getCachedClosedResults`, which has no await; `GetResultsFails` is the `catch`
  that drops the entry if it is still its own. The open row is judged at the read,
  by the clock the request took at its start, as the code does later with the same
  two values. `Administer` composes the lifecycle calls with what each writes to
  `updated_at`: `updateStatus` and `extendClosingTime` take the larger of the clock
  and the successor, `updateMetadata` takes the clock. A call takes one reading of the
  Worker's clock (the coordinator's and the repository's `Date.now()` are a few
  statements apart). `ahead` and `rewound` are
  history.
* `AvatarStore`: an object is named by the upload that stores it (keys are UUIDs).
  Every call may fail, may fail after having had its effect, or may not return at
  all. `unsure`, `leaked` and `redrafted` are history. The entity tag is a digest of
  the reference, so `not modified` is the same answer as the picture. An object that
  is already gone counts as deleted, as in `deleteImage`.

* `Accounts`: a request is authenticated once (`Authenticate`) and carries the role it
  was given to its end. Archiving, restoring, updating and deleting are one transaction
  with their counts of administrators. Registering (`BeginRegister`, `CommitRegister`)
  and importing (`BeginImport`, `ReadNames`, `CommitImport`) read before their
  transaction and rely on the unique indexes for what has changed since. A user name is a
  base and a number. `by` and `overtaken` are history.
* `Turnout`: `Statements` are the reads of `getResults` and `getTurnout`, in any order
  where `Promise.all` issues them together; casting and the backfill run between any two.
* `ClientCache`: a request remembers whether it is still the newest instead of an
  epoch's number. `VotingClient` follows one request of each caller: the route's load,
  the submission (which reads the state back when an answer was lost) and the countdown's
  refresh. `Serve` is the server's reading, `Deliver...` what the page does with the
  answer, `Rederive` the page's derived state (`Kind`, `Ballot`, the selections kept or
  dropped by `PreserveVotingState`). Versions are history. The server itself is a status,
  a form and a set of votes, and moves as `BallotBox` does.
* `ResultsPage`: `ServerTick` and `UpdateNow` are the two clocks, off by `ClockOffsets`;
  `Refresh...` are the three effects that fetch; only the newest fetch counts, as in
  `CacheEntry` with force.
* `UsersPage`: `Navigate` is `goto()` and `ListArrives` the end of the load of the
  latest one. Every dialog is `OpenDialog`, `Confirm`, the server's handling, the answer
  and the reload that follows it. The form of a new account stays open to edits while its
  account is being added, as its inputs and Generate do (`EnterAnother`). `lost`,
  `formMoved` and what is asked are history.
* `AuditLog`: `ListPage` is the repository's query with its cursor on the pair of time
  and id; `Fetch`, `LogArrives` and `HandleNext` are the page's reading in batches.
* `ElectionPage`: a cached resource counts its changes as a version. `LoadAfter`,
  `FetchArrives` and `OrphanArrives` are the route's load over the cache, where an
  invalidation drops the entry but not the request under way. `MovePosition` begins a
  reorder with its local list; `LifecycleAnswered`, `RefreshPage` and `RefreshFinishes`
  are `TransitionButton` and the extension with their refresh afterwards.
* `RosterImport`: `ParseFile` and `ParseEnds` (files may end in another order),
  `SubmitImport`, `ServeBatch` (the server's transaction), `BatchAnswered` or
  `BatchFails`; `ScriptReads`, `ScriptPlans`, `ScriptAdds`, `ScriptWrites` are the script.
  The page's `importedList` and `skippedList` are one list here, `toldRows`, in which
  each row says which of the two it is in.
* `RosterParsing`: characters, cells and lines are classes; which cells a writer has is
  a constant. A text is written piece by piece together with what was meant (`WriteCell`,
  `PrintStudent`, `PrintRow`, `PrintBlock`), and the readers are operators on it, recursive
  functions over characters (`ReadText`) and over lines. A PDF is printed in one of three
  layouts: columns under headings (`splitPdf`), a row of cells for each student, or a stream
  of lines; `rowPdf` is what `toPageRows` makes of the latter two, `linePdf` the same cells
  each on a line (`fullText`). `ParseRosterPdf` is the page's choice of a reader: headings
  lead to the columns; a cell that is a whole student number, anywhere, to the reader of
  rows, which then answers for the whole file; what is left to `ParseLines`. The script
  (`ScriptStudents`) has no reader of rows and asks no number whether it is one. `.trim()` also takes the ends of lines off a
  cell in quotes (`Trimmed`).

The operators whose names end in `Always`, `Unchecked`, `IgnoringError` and the like,
next to the operator they vary, are plausible wrong forms of it; no specification uses
them. `PROJECT.json` lists which property tells each of them from the code.

The foreign keys of `votes` cannot fail: a position that has, or had, a candidate
cannot be deleted (`CandidatesListed`), and candidates are deactivated, never deleted.

## Runs

All are exhaustive for their instance. `CHECK_DEADLOCK FALSE` throughout: the
bounded clock and counters make every instance come to rest, and a server without
requests is idle.

| Run | Question | Instance |
|---|---|---|
| `voting_race` | two requests of one student racing with all administration, over two accounts | 1 election, 2 accounts of 1 student, 2 requests |
| `voting_form` | do the reads of the form agree with each other and with the form | 2 positions, 2 candidates, 2 openings |
| `voting_legacy` | linked ballots, backfill, deletion, second secret; the inductive invariant | 2 accounts, 1 request, 2 secrets |
| `voting_skew` | is what is in the box at the end the result; refinement of `BallotBox` | 2 openings, an extension, Skew 1 |
| `voting_incomplete` | every ballot has a selection per position (`src/CONTEXT.md:23`) | violated |
| `position_order_collides` | a reorder never violates the index (comment in the repository) | violated |
| `credentials` | sessions against changes, resets and archival; the lockout; who may replace a password | 1 account, 2 passwords, 3 logins (2 together), 1 change, limit 1 |
| `credentials_refused` | verified credentials may log in (comment in `authenticate`) | violated |
| `results_cache` | are the results that are shown those of the election, and complete | 2 elections, 2 requests, Skew 1, versions below 5 |
| `drafting` | what a reorder yields and exactly when it fails; do rows and pictures agree, and does a voter find the picture | 3 positions in 2 elections, orders -1..3; 1 candidate, 3 uploads or deletions, 1 viewer; both at once: 2 positions, 1 upload or deletion |
| `administration` | windows, deadlines and displacement; ranks under concurrent administrators; the pages of users, import, audit log and one election; the readers of rosters | 2 elections with times 0..2 and Skew 1; 5 identities, 2 requests; page budgets below; texts of 3 cells or 3 students |
| `voter_pages` | the voting page with its session and caches; the results page; the reads of a turnout | 2 voters in one browser, 2 elections, 1 position; 2 candidates, clocks -1, 0, 1; page budgets below |

Several properties gather what one part promises:

* `OrderCorrect`: the type invariant of the orders, `ReorderAsAsked` and `CandidatesListed`.
* `AdministrationKept`: `AdministratorRemains`, `SuperAdministratorRemains`,
  `AdministratorsBySuper`.
* `UsersPageCorrect`: `OwnChangesListed`, `ResetShowsItsUser`, `AddShowsItsUser`,
  `AuditLogsOfViewed`. `ImportCorrect`: `CredentialsKept`, `ImportAccountsForAll`,
  `ImportedOnce`, `ScriptCredentials`. `AuditLogCorrect`: `LogInOrder`, `LogComplete`,
  `PageShown`. `ElectionPageCorrect`: `OwnPositionsShown`, `NoBlindTransition`,
  `PresetsAskedOnce`. `RostersReadRightly`: `CsvReadAsWritten`, `SplitRowsAligned`,
  `LinesNotMixed`, `IntactStudentsRead`, `ScriptTakesTablesAsPage`,
  `ScriptReadsIntactStudents`.
* `CacheCorrect`: the client's type invariant, `CacheFresh`, `CacheIsOwn`.
  `OutcomeToldTruly`: `SubmittedMeansCounted`, `FailureMeansUncounted`.
  `BallotOfferedRightly`: `NotOfferedAgain`, `SelectionsOnForm`.
* `AdministrationProgress`: `HandlersEnd`, `SearchSettles`, `ImportEnds`,
  `AuditLoadEnds`, `ElectionPageSettles`. `PagesProgress`: `EveryWaitEnds`,
  `ClosedBallotRetires`, `ClosesEventually`. These two are liveness.

Bounds. `MaxTime` stops the clock one or two seconds after the last closing time, so
every window has a before, an inside, both edges and an after. `MaxOpenings` is 2
where a request has to survive from one opening to the next, which is the shortest
way to a stale read of the form, and 1 elsewhere. `MaxKey` is 2 where rotation
matters. Two requests are enough for a double vote to appear because the unique
index and the reads relate two requests at a time; the theorem removes the bound.
Runs on `Voting` start from `DraftedInit`, a state the administrators can reach in a
few calls (elections drafted, one candidate on each form), so that the states go
into what follows. Accounts, requests, students and positions are interchangeable,
and symmetry is used only in runs whose properties do not single one out and are not
liveness.
`Credentials` has a limit of 1 instead of 5, which makes two concurrent logins pass
it at once, and counts hashes (`MaxSalts`): two are enough for a rehash and a change,
or a reset, to meet. `ResultsCache` starts from a past election with a ballot
(`PastInit`), so that there is something to show and something to displace; versions
below 5 leave room for an opening, an extension, a closing and an edit that sets the
version back. Three jobs on one candidate are an upload, the one that replaces it,
and one that races with both; pictures of two candidates do not interact.
Two requests of administrators are each other's removal; five identities are two super
administrators, one administrator and two that are made or imported.

A page spends a budget: how often the user does each kind of thing, and how often
others change what the page shows. A behaviour begins with one of several budgets
(`MCPageBudgets`, `MCAuditBudgets`, `MCImportBudget`, `MCElectionPageBudgets`, `MCBudgets`,
`MCResultsBudgets`), each with what one kind of overtaking needs: two navigations and a
filter; two dialogs; a filter against a page turn; two lifecycle changes; a cast
elsewhere while a submission is under way; a logout and a login in another tab, the login perhaps over the session that is there.
Batch and page sizes are 1 or 2 instead of 10 to 100, so that a batch boundary falls
between two rows of one second. Three cells are the shortest CSV text in which a quoted
cell stands between two others.

Fairness. None in the server's modules: a client that goes away leaves its request
undone, and nothing there waits. On the pages weak fairness is assumed of what the
browser and the network do by themselves: a request that was sent is answered or fails
(`fetch` resolves or rejects), and what waits for it continues; a timer that was set
fires; clocks go on; the logout that was broadcast is received. None is assumed of the
user or of other users. A tab that is put away (`frozen`) is exempt in the
properties.

## What the checks show

* One ballot per student and election, through every interleaving of two requests,
  deletion and re-registration, backfill and (quiet) rotation of the secret.
* `VOTE_ALREADY_CAST` is only said to a student who has a ballot. The frontend relies
  on that when an answer was lost.
* A ballot names active candidates of its election's positions, one per position,
  unless its request is older than the present opening; the form does not move once
  there is a ballot.
* After voting has ended with a ballot in the box, the box does not change and
  voting does not resume, with Worker clocks off by `Skew`.
* The turnout equals the number of ballots while three writers fill its tables.
* The whole of `Voting` implements `BallotBox`.
* No session outlives, or is let in after, a reset, a change of the password, an
  archival or a deletion (`SessionsKnowPassword`); no write that is late overwrites a
  newer password (`PasswordChangesAuthorised`); concurrent logins pass the lockout
  limit by less than their number (`LockoutBounded`).
* The results a voter is shown count every ballot of their election and of no other
  as long as the row they were asked for is the current one (`ResultsCurrent`), and
  ballots are not counted for voters while voting is on (`NoPartialResults`). The
  exemptions are stated in the properties: an isolate whose clock is ahead of the
  database's caches a count before the deadline, and keeps showing it until
  `updated_at` changes, which takes another status change; and
  `updateMetadata` may set `updated_at` back, so that a key can come again
  (`election.repository.test.ts:150` asks for unique versions of status changes
  only, and there they are unique).
* A row names a missing picture in one case only, a commit whose answer was lost
  (`NoDanglingReference`); no picture is forgotten without a failed call
  (`OrphansAccountedFor`); a voter given a reference finds it (`VoterFindsPicture`).

* At no time is the system without an administrator, in whatever order administrators
  archive or delete each other, nor without a super administrator unless a request acted
  for one who had been archived since it was authenticated (`AdministrationKept`); an import
  that answers tells of every record what became of it (`ImportAnswersTrue`).
* A turnout that is read while ballots are cast is one of the moments of the request,
  except for ballots a backfill moves between two of its statements, by whose number it
  may be off (`TurnoutBracketed`).
* The browser's cache never shows an answer that is older than what was asked for last, nor
  anything fetched for a user from before it was last emptied (`CacheCorrect`). "Submitted"
  is said only of counted ballots, "not submitted" only of others (`OutcomeToldTruly`): a
  lost answer is told by reading the state back. A ballot just cast is not offered again
  (`BallotOfferedRightly`).
* Every page comes to rest, whatever is refused, lost or overtaken
  (`AdministrationProgress`, `PagesProgress`).
* Accounts an import has made have their passwords in what the page or the script hands
  over, except where an answer was lost or a script failed (`ImportCorrect`).
* The log an administrator pages through is in order and without a gap, though rows
  arrive meanwhile and share their second (`AuditLogCorrect`).

What happens at the edge of these properties, most of it the exemptions they state, and
none of it said otherwise by a document of the repository:

* Voting page: the answer of `me()` that comes after a broadcast logout brings the old
  user back (frontend `routes/+layout.svelte:22-23`); a late 401 of an old session logs out
  the next one (`lib/api/client.ts:43`); a refresh of the countdown that supersedes the
  reconciliation's forced fetch makes a counted ballot be told as failed; when the refresh
  after a counted ballot is lost, the entry keeps its error until a forced refresh.
* Voting page, two tabs: whoever logs in where `/auth` was left open replaces the session,
  and no tab is told (only a logout is broadcast, frontend `lib/stores/auth.svelte.ts:80-83`;
  backend `auth.handler.ts:16-96` logs in whatever the cookie is). The other tab goes on
  showing the former user's form until its next fetch, or a logout. `CacheIsOwn` therefore
  speaks of users the browser has had a session of since the slot was emptied, not of the
  present one only.
* Results page: the last refresh is not tried again when it fails, and the page keeps the
  counts it had under "Official Final Results"; a browser clock that is ahead, or an
  extension the page has not seen, shows results as final while ballots are cast.
* Users page: the timer of a saved edit closes the edit dialog of whichever account is
  open 800 ms later; a filter that is toggled during a navigation takes its parameters
  from the page it leaves; clearing the filters leaves the search timer running; the
  password form of a new account is read after the await (`+page.svelte:227`), and the form
  can be edited until then. The password that is shown is not the account's exactly when
  the form was edited, or its dialog left, while the account was being added
  (`AddShowsItsUser`; the model always enters another password).
* Audit log: a Next whose batch was overtaken by a change of the filter still turns the
  page.
* Import: the answer that is lost takes the passwords of its batch with it; a file that
  is read late replaces the rows under the credentials on the screen; an error of the
  script loses all passwords up to then, as the file is written at the end.
* Rosters: one line of a stream that is a whole student number sends the file to the reader
  of rows, and the page then reads none of its students (`pdf-parser.ts:293-323`,
  `IntactStudentsRead`). The script asks no number whether it is one, and takes damaged
  blocks that the page marks as wrong; it skips the student after a block without a course
  line, which the page does not (`ScriptReadsIntactStudents`). So the two agree on every CSV
  file and every file in columns that the script takes (`ScriptTakesTablesAsPage`), not on
  streams. A last row of one empty quoted cell is dropped; columns of equal length are
  paired though each has lost a row.
* Election page: a reorder that fails puts back the list it began with, without positions
  added meanwhile; two lifecycle changes at a time reset each other's flag; the router's
  `invalidate` returns when a later one has overtaken it, so a form or the lifecycle
  controls go on while the page still shows what was loaded before, until that one is done.

Disagreements with the documentation (`findings` in `PROJECT.json`):

1. `voting_incomplete`: a request that validated in one opening commits in the next
   one, whose form has meanwhile grown; the ballot lacks a position.
2. `position_order_collides`: the parking orders of a reorder start at min - n, and
   when 1 <= min < n they overlap the final orders 0..n-1; the request fails with an
   internal error. `ReorderCollidesExactly` gives the exact condition.
3. `credentials_refused`: two logins upgrade one legacy hash; the one that comes
   second compares its session insert with the hash that is gone and is refused.
   `RefusalHasCause` says that it is the only way to be refused for nothing.

One hypothesis on operations: a secret must become current while no request is in
flight. The rotation steps (`src/ONBOARDING.md:262-272`) ask for no pause; with
`RotateInFlight = TRUE` two requests of one voter under different secrets insert
different hashes, which the unique index does not relate, and both ballots count.

## What is proved

Assumptions, in the modules that declare the constants. `NullAssumption`,
`RequestsAssumption` (of `ResultsCache`), `JobsAssumption`, `AbsenceAssumption`,
`UsersPageAssumption` and `ElectionPageAssumption` say that `Null` is nothing else.
`ClockAssumption`, `KeyAssumption`, `SubmissionsAssumption`, `FlagAssumption`,
`LockoutAssumption`, `BoundsAssumption`, `OrdersAssumption`, `BudgetsAssumption`,
`CountsAssumption`, `CallersAssumption`, `CellsAssumption` (cells are sequences of
characters, and one without quotes has none that the reader would take for syntax) and
`RosterImportAssumption` (rosters are sequences of rows, and a batch has at least one)
give constants their types. The rest
say how a system starts or what the code's own tables are like: `AccountsAssumption`
(which also says that import lists are sequences), `StartAssumption` (one election is
open), `FormsAssumption` (a form lists a position once, as the primary key gives),
`StandingAssumption` (candidates are finitely many), `PresetsAssumption` (no common
position is listed twice in the code's list),
`LogAssumption` (times and ids are ordered, and ids are not used twice) and
`PagesAssumption` (100 rows of a batch are a number of pages of 10, 20 or 50).

`ElectionsProofs`: `ElectionsInv` (types, one open election, a window for every
open one) is inductive, for any elections, times and skew. From it follow
`OpenHasWindow` and the action properties `NoSilentResume` and
`NoEarlyDisplacement`.

`VotingProofs`: `IInv == ElectionsInv /\ TypeInv /\ ParticipationInv` is inductive,
for any number of students, accounts, requests, elections, positions and secrets,
under two hypotheses stated in the theorems:

* `~RotateInFlight`: a secret becomes current while no request is in flight.
* `LegacyBallots => Skew = 0`: where linked ballots were ever written, the freeze of
  the accounts is exact. With a fast Worker clock an account may be deleted and
  registered again while its election still takes linked ballots, and the link was
  all the earlier writer knew.

Why `OneBallotPerStudent` is not inductive by itself: the batch checks only the hash
under the request's own secret, so the step that commits needs to know that no hash
of the student under another secret, and no linked ballot, is on record. That is
`OnlyOwnHash` and `NoOwnLink`, and they hold from the two participation reads up to
the batch only because nobody can add such a record meanwhile: hashes under other
secrets need another secret to be current (`SecretsAgree`), the backfill makes hashes
only of links, links of the student belong to the request's own account
(`LinksAreOwn`, from `AccountsUnique` and the freeze) and the request has seen that
there is none. `BallotsRecorded` ties each ballot to a record, and
`BallotsHoldElection` keeps elections with ballots out of draft, which is what makes
the deadline final. `voting_legacy` checks `ParticipationInv` with TLC.

The other theorems of `VotingProofs` rest on `IInv` and have the same two hypotheses, except
where they say so.

* `AlreadyCastIsTrue`: `AnswersInv` adds to `IInv` that every recorded hash is of a
  student with a ballot (`HashesOfVoters`) and that whatever a request has found on
  record is too (`FoundOfVoters`). Both are stable because nothing takes a voter back
  (`VotersRemain`): ballots stay, a request goes on for the account it came with, an
  account keeps its student, and a link becomes an anonymous ballot of the same account.
* `FormFixedByBallots`: the form changes in drafts only, and `BallotsHoldElection` keeps
  an election with ballots out of draft.
* `ResultsAreFinal`: the batch and the earlier writer need the window (`WindowIsOpen`),
  which an ended election does not have again, because a deadline that has passed is
  never extended and a return to draft is refused to an election with ballots.
* `OnlyElectorateVotes` needs `Skew = 0` outright, as the freeze is by a Worker's clock.
  An election is voting only because it was, or because it was opened in this step, which
  counts the active accounts and begins a new opening (`OpeningsMove`). In between, an
  account becomes active only by a super administrator's registration
  (`ElectorateFrozen`). So whoever might ask to vote is eligible (`ActiveEligible`), and a
  request that has been received since the opening stays so (`RequestsEligible`).
* `BallotsFitForm`: what a request of the present opening has read of the form is still
  the form (`FormReadsAgree`), as the election has been open from its arrival on and the
  form of an open election does not change. A candidate of another election's form may
  have gone meanwhile, which is why `Stands` asks only about the own form, and why the
  check against the listed positions matters.
* `TurnoutExact`: a student has at most one hash, and it stands for a ballot that names
  nobody (`HashesExact`), so hashes and such ballots are in bijection by the student;
  with a linked ballot there is no hash. The sets are finite because each step adds at
  most one ballot; nothing is assumed of the constants.
* The refinement of `BallotBox`: the batch and the earlier writer are `Deposit`, whose
  guard is what `CommitIsFirst` and `OneBallotPerStudent` give; transitions are `Open`,
  `Close` and `Reopen`; archiving, the backfill, the rotation of secrets and every
  change of accounts, forms and times is a stutter.

`CredentialsProofs`: `SessionInv` is inductive, for any accounts, clients, logins and
changes. It says of every request between its read and its write that the hash it
read is of the password it presented, and of every session that it knows the
account's current password. `OpenSession` compares salts, not passwords, so the
invariant also needs that salts are never reused (`salts` is the largest): a hash
that is still stored is the hash that was verified. `LockoutBounded` follows from
`LockInv`: the failures counted and the logins admitted together (`Pending`) are at
most `LockoutLimit - 1 + Workers`. A login is admitted only when fewer than the limit
are counted, and the other pending ones are under way, of which there are at most
`Workers`. The count alone is not inductive, since a login that has been admitted
adds to it without looking again. `PasswordChangesAuthorised` is an action property:
the only steps that write a hash are registration, a reset, a rehash and the commit of a
change, and `SessionInv` says of the last two that what they replace is what they
verified. `RefusalHasCause` needs `CauseInv`: a login between its read and its end that
nobody has disturbed holds the hash that is stored, or it holds a legacy one; so its
insert of a session fails only in the second case. (Whoever writes the row otherwise
disturbs every login that has read it, which is what the property exempts.)

`DraftingProofs`: `OrderInv` is inductive, for any positions, orders and lists. It says
that just the listed positions have an order, that they are finitely many, and that no
election has two of the same; and, with `RosterInv`, that whoever has been put up stands for
a listed position, which `CandidatesListed` needs: a position with a candidate is not deleted,
and no candidate, active or not, is taken back. `OrderCorrect` and `ReorderCollidesExactly` follow from it,
by what the two passes do to a list of any length: the parking orders are consecutive
below the minimum, so they miss everything that stands in the table (`ParkingSucceeds`);
the final ones meet them just when the minimum is positive and below the length
(`NumberingSucceeds`). What is proved about the finite sets of orders (that they have a
least element, `ExtremesExist`) is by the well-foundedness of the strict-subset ordering,
as the induction rules are out of reach.

In the same module, `AvatarInv` is inductive, for any candidates, elections, requests
and viewers. A reference names an upload of its own candidate that has committed, so
no two rows share an object and the object an upload replaces is named by nobody; an
upload that rolls back is named only if its commit was told to have failed; a viewer
who has read a reference and not been overtaken by a return to draft still has the
row's reference, because pictures change in drafts only. All three properties follow.

Both at once: `PreparationInv` (`AvatarInv` and `OrderInv`) is inductive for
`PreparationSpec`, in which positions, orders, candidates, the lifecycle, time, pictures and
viewers take their steps in any order. Every step of it is one of `AvatarStore` or leaves
pictures and form alone (`PicturesStep`), because what is done to an order is a change of
the form that `AvatarStore` knows, or none (`ChangeOrderEdits`). So `PreparationSpec`
implements `AvatarStore`'s, and its theorems carry over. Of the other steps none touches an
order (`OrdersStep`).

`ResultsCacheProofs`: `CacheInv` is inductive, for any elections, requests and
clocks. Its core is `Seen`: a row that was read of a closed or expired election is
older than the present row, or it is the present row and voting is over. It survives
every writer because each either raises the version of the rows it touches (status
changes and extensions), touches a draft (a metadata edit, which is why an edit that
moves the version back is exempt), or touches an election in its window (a ballot).
Every key that a request or the entry holds is `Seen`, and its promise is a query for
the same election whose count, once made, is still the tally (`Answer`); a request
that issues a query has held none before, so no key comes to name a promise that was
made for another (`Reading`). `ResultsCurrent`, `EntryServable` and
`NoPartialResults` follow.

`AdministrationProofs` and `RosterProofs` have the parts of `Administration` beside the
lifecycle, which is in `ElectionsProofs`. First,
`AccountsInv` is inductive, for any accounts, requests, students and
lists, and gives `AdministrationKept`. That an administrator remains follows from the
counts inside the transactions, since they are one step with the change. That a super
administrator remains is not counted anywhere: the counts are of administrators of both
ranks, and the code refuses that a request archives its own actor. It holds because a
request that was not overtaken has an actor who is still a super administrator and who
is not the target. For that the invariant needs that a request has its actor's role (`ActorInv`: no account changes its rank, and
no identity is used twice), that only requests of super administrators make
administrators (`RegisterInv`), and that an account's maker has finished (`MadeInv`), so
that the maker's rank is settled.

Beside it, `ImportInv`: an import that has answered has named every student of its list,
and the accounts with its mark are just those it calls imported (`AnswerTrue`); accounts
that are not made yet have no mark, and no account changes its mark or its student, so
the answer stays true. That the plan covers its list, of any length (`PlanCoversList`), is
by induction on the records. The library's induction rules take an operator, so the
induction is by the least number for which the claim fails (`UpTo`).

Second, `UsersInv`: the list of accounts and its dialogs. That no list is older than a
change whose handler is done (`ListsFresh`) is inductive only together with the handlers:
while one has been told of its change and has not yet emptied the cache (`NoneToReload`
fails), entries and fetches may be older, and afterwards none is, since every entry was
dropped and every fetch that had been sent was cut off from its entry. `DialogsInv` says
of each answer under way to which account it belongs, so that a dialog that was closed
and opened again for another one does not take it. `UsersPageCorrect` follows.

Third, `ElectionPageInv`: the page of an election. The server has what the page was told
(`ServerTold`); cache, fetches and loads have it too (`PageFresh`), except while the
handler that was told has not begun to load the page again (`ListDue`, `RowDue`); a
local list hides the data only while its reorder goes on, or was put back (`LocalGoes`);
what a form of common positions is still to ask for has not been made (`StillToMake`);
and one change of the lifecycle goes on at a time unless a dialog was closed while it
worked (`OneChange`).

Fourth, `AuditInv`: the page of the audit log. The page is loading just while the one
query that is heeded is under way (`QueriesOK`); what that query asks for, and what it
has been answered, goes on from the last row read, in the order of the log and past no
row of the filter (`CurrentOK`, `GoesOn`). Rows that are written meanwhile have any time,
so `ReadOK` speaks of the rows there were when the filter was loaded: each has been read,
or is older than the cursor. That a page is never empty or short (`PageShown`) needs
`WholePages`: while there is a cursor, whole batches have been read, and a batch is a
number of pages of any size (`PageIsFull`), so a page that begins within them is full.
That a query returns the first rows beyond its cursor (`FirstOfIsPage`) is by counting:
how many rows come before a row tells it from any other, since the order is total on
rows with different ids (`RankTells`).

Fifth, in `RosterProofs`, `RosterImportInv`: the import of a roster. The rows that have been answered, with those
of the answer under way (`RowsAnswered`), are the first rows submitted, in order
(`TellInOrder`), and call a student imported once, whose account the page made
(`TellOnce`). So it is while the table is edited, other files are read and others
register the same students, because the batch is cut from what was submitted
(`BatchIsPart`) where the answered rows end (`GoesAhead`), and because the server calls
imported only students who had no account. Whoever has an account from the page is in a
file, in an answer that was lost, or in `RowsAnswered` while the import goes on
(`PageHas`). Of the script, its rows are the accounts it made (`ScriptInv`); that it plans
for students of its roster (`PlanOfStudents`) is again by induction on the rows.

Sixth, in the same module, `RosterReadingInv`: the readers of rosters, for any cells, any
number of students and whichever lines are lost. `RostersReadRightly` speaks of what the
readers make of a text and says nothing of how the text came about, so it is not inductive;
the invariant says what a text is made of.

* `CsvInv`: at every moment the reader, having read the text so far, has the rows that
  were meant, the row under way among them, and no field begun; or it has refused. A cell
  leads it from one such state to the next (`CellWritten`), as each of its characters moves
  the reader on by one (`ReadTextSteps`) and a quote that the writer doubles is taken for
  one (`QuotedCellRead`). An LF is passed over only after a CR, which is why the
  invariant remembers how the text ends.
* `SplitInv`: the lines of enrollment before the first that was lost are each in their
  student's place. That the numbers of the identity column run from 1 without a gap is
  what `Aligned` checks, so a record's student is its place, and a record with the
  course of another comes from a line behind a loss.
* `PdfInv`: a PDF has one layout (`OneLayout`). If it has rows, each is its student's, whole
  or without one cell (`RowsInv`); the reader of rows is not recursive, and what it makes of
  the six possible rows is `RowRead`. If it is a stream, its rows are its lines, one each
  (`StreamInv`), so a number that is whole sends the file to the reader of rows, which finds
  no course beside it (`NothingToRead`), and otherwise the lines are read (`StreamRead`).
* `LinesInv`, for a stream: the text is one block after another, each whole or without one of
  its lines, with at most one of the latter; `first` and `last` say where each is
  (`BlocksAt`). A scan from a block's first line stops at its course or, if that was lost,
  at the next block or a footer (`ScanOfBlock`); the script's, which skips three lines, is
  only followed where the number has three (`ScriptScanOfBlock`). A reader then arrives at
  every block that is to be read by induction on the place in the text, and every record it
  makes is of a block (`ScriptStreamRead` for the script).

`ReadText`, the collectors of rows and `ParseLines` are recursive functions; each needs
that the function is what it says (`ScanExists`) and an induction of its own, from the
least number for which the claim fails (`UpTo`), as the induction rules of the library
take an operator.

`AdministrationCorrect` puts the seven parts beside one another: a behaviour of
`Administration` is one of each part, and every invariant and action property of the run
`administration` holds of it, for every value of the constants.

`VoterPagesProofs` does the same for `VoterPages`.

* `CacheInv`: what the slot has, and every live answer on its way to it, is no older than
  the last forced refresh (`SlotOK`) and is of a session that the browser has had since the
  slot was last emptied (`Owned`, with `had` for those sessions); unless the tab is put away
  or a logout has not reached it, a browser without a session has had none since
  (`PastOK`). The version of a
  state grows with every change of the server, of which there are finitely many, as every
  ballot and change is one that the budget pays for.
* `OutcomeInv` adds the submission (`SubmitInv`): while the browser is still the voter's
  own, a ballot that was accepted, or that a read has found, is counted; and while
  nothing else has happened a ballot that was taken is found by the read of the
  reconciliation, whose answer is the slot's live one (`CalmSubmission`). From it follow
  `OutcomeToldTruly` and, with what the page does after a success (`ConfirmedInv`) and
  with each refresh of the form (`SelectionsInv`), `BallotOfferedRightly`.
* `ServerKeepsBallotBoxCorrect`: the server of the voting page, whose clients are the page
  and other devices, takes only steps of `BallotBox`, under the mapping of `ServerBox`. So
  what these theorems take the server to do is what `Voting` is proved to do, as far as
  the box shows it; what a voting state says of the box is read in one step here. No run
  lists `ServerKeepsBallotBox`; it was checked once with the instance of `voter_pages`
  before it was proved. Stated this way it showed that an election had been taken back
  with ballots in it, which the coordinator refuses (`BackToDraft`).
* `TurnoutBracketed`: each of the three reads is bracketed by what was counted when the
  request began and what is counted now, give or take the ballots moved since
  (`ReadsBracketed`); their sum is within the same bounds (`BracketsAddUp`).
* `ResultsForward` and `FinalIsFinal`: an answer that is heeded is at least what is shown,
  since an earlier request is dead once a later one is sent; after a page has closed with
  no ballot cast later, every live answer is the final count (`NoneCastLate`), and the
  winner's bound is that of the largest of finitely many counts.

What these proofs changed. Attempts that failed showed cases that the runs' budgets had
not reached; each was reproduced by TLC before the property was put right. On the
election page a reload that is overtaken by another returns early, so `NoBlindTransition`
holds only once the router has come to rest, and `PresetsAskedOnce` only for a form that
was not sent during a load (`behind`); a budget in which it happens is now among those
checked. In `Turnout` snapshots outlive voters whom earlier releases deleted, so a total
taken from the snapshots is bounded by the snapshots only. `FinalIsFinal` as it was said
that a lone candidate without a vote wins. `CacheIsOwn` and `NotOfferedAgain`, on the
other hand, turned out to hold in more states than they spoke of, and say so now.

`CacheIsOwn` and `AddShowsItsUser` once relied on guards of the model that the pages do not
have: that a tab with a session offers no login, and that a form being sent is closed to
edits. They now say what holds without them.

What proving the readers changed: with cells of any characters, `.trim()` could no longer
be modelled for spaces only. It takes line ends off too, which a cell in quotes may begin
or end with. And what the cells are had to be said (`CellsAssumption`).

Every invariant and action property of the passing runs is proved. Only model-checked is
the progress of the pages (`AdministrationProgress`, `PagesProgress`): it is liveness,
for which the prover has no rule. `BallotsComplete`,
`ReorderNeverCollides` and `VerifiedLoginSucceeds` fail, as their runs show.

## Not modelled

* Names, descriptions, parties, manifestos, percentages, locale formatting, HTTP parsing,
  the order of columns, messages. A change and its audit row are written in one
  transaction, so the row is part of the change and left out, except in `AuditLog`.
* `listByTarget` of the audit log, a single query. (Its comment says that it does not cap,
  `audit-log.repository.ts:185`; it takes a limit, lines 203-209.)
* Of rosters: the geometry of a PDF page (which text items make a line or a cell), several
  students run together in a row, heading rows, damaged headings, and layouts mixed in one
  PDF.
* Party lists and the parties' tab of the election page with its two forms: they follow
  the pattern of positions, a party on a ballot has no effect on what is counted.
* The pages of settings and profile, the list of elections, the landing page: forms
  over one call, and presentation.
* Middleware (origin, body and header checks, environment): stateless.
* Operator scripts that seed, migrate or test. `anonymize-votes.ts`, `import-students.ts`
  and the effect of `reset-password.ts` are modelled.
* In `VotingClient`: an extension of the closing time, which only starts the countdown
  anew, and the administrator's view of the voting page, which offers nothing. One
  submission, one countdown refresh and one bootstrap at a time, as the page's own flags
  enforce.
* In `ElectionPage`: the loads of parties and candidates, which follow that of the
  positions and fail like it.

External to the code under `src/`, and modelled by how the code uses it: the write
lock of libSQL, the router's `goto` and `invalidate`, `fetch`, timers and the broadcast
channel, the writer of earlier releases, the operator who installs a secret.

## Plan

Done: all the modules above, and a theorem for every invariant and action property of
the passing runs. What is left, in this order:

1. The reads of `getVotingState` (`ResultsCache`) as the answers of `VotingClient`, which
   has the server read the box and the status at once; the box itself is the same.
2. Party lists with their tab, and `listByTarget`.
