------------------------------ MODULE UsersPage ------------------------------
(***************************************************************************)
(* The administrators' page of accounts (admin/users): the list with its   *)
(* search, filters and pages, which live in the URL and are loaded through *)
(* the cache, and the dialogs that change an account. Course, year level,  *)
(* role and `archived' are treated alike by the code and are one filter    *)
(* here; the order of the columns and the messages are left out.           *)
(*                                                                         *)
(* goto() and invalidate() of the router are external: the latest of them  *)
(* wins, and the page gets its data when the load of the winner is done.   *)
(***************************************************************************)
EXTENDS OnePart, Absence, Integers, FiniteSets

CONSTANTS
  ListedUsers,     \* the accounts
  RoleOf,          \* their roles
  Viewer,          \* the administrator in front of the page
  SearchTexts, NoText,
  PageBudgets      \* bound: how often [type, filter, change, view, other] may happen

VARIABLES
  userRow,         \* the server's rows: state and number of changes
  usersEntry,      \* the cache: URL parameters -> the rows fetched for them, or Null
  usersFlight,     \* URL parameters -> the fetch under way: whether one, and the rows read
  usersNav,        \* the navigation or reload the router waits for, or Null
  usersList,       \* `data': the parameters and rows shown; rows Null shows an empty list
  searchBox,       \* localSearch, and the debounced text in searchTimeoutId
  dialog,          \* the open dialog, with the account and the row it was opened on
  saving,          \* per flag (isEditSaving, ...) the handler that runs
  shown,           \* what the dialogs show: details of a reset and an addition, audit logs
  auditRequests,   \* requests for the audit logs of one account
  usersPast,       \* history, see the properties
  usersBudget

listVars == <<usersEntry, usersFlight, usersNav, usersList, searchBox>>
dialogVars == <<dialog, saving, shown, auditRequests>>
usersPageVars == <<userRow, listVars, dialogVars, usersPast, usersBudget>>

ListParams == [page : 1..2, search : SearchTexts \union {NoText}, filter : BOOLEAN]

SavingFlags == {"edit", "action", "reset", "add"}

\* What the router can wait for: parameters, and who asked for the data.
Navigations == [params : ListParams, by : SavingFlags \union {"goto"}]

ASSUME UsersPageAssumption == Null \notin Navigations

FirstParams == [page |-> 1, search |-> NoText, filter |-> FALSE]

NoFlight == [sent |-> FALSE, rows |-> Null]
SentFlight == [sent |-> TRUE, rows |-> Null]

NoHandler == [phase |-> "idle", kind |-> "none", user |-> Null]

NoDialog == [kind |-> "none", user |-> Null, row |-> Null]

SpendUsers(what) ==
  /\ usersBudget[what] > 0
  /\ usersBudget' = [usersBudget EXCEPT ![what] = @ - 1]

-----------------------------------------------------------------------------
\* A goto() or invalidate('app:users'), whose load asks the cache: with a value there
\* the page has its data at once, otherwise it waits for the fetch under way or a new one.
Navigate(entry, flight, params, by) ==
  IF entry[params] # Null
  THEN /\ usersList' = [params |-> params, rows |-> entry[params]]
       /\ usersNav' = Null
       /\ usersFlight' = flight
  ELSE /\ usersNav' = [params |-> params, by |-> by]
       /\ usersFlight' = [flight EXCEPT ![params] = IF @ = NoFlight THEN SentFlight ELSE @]
       /\ UNCHANGED usersList

\* Whenever `data' changes, the search box shows its search.
SyncSearchBox(text) ==
  searchBox' = [searchBox EXCEPT !.local = IF usersNav' = Null THEN usersList'.params.search ELSE text]

\* The navigation under way carried the search asked for last, and this one does not.
Overtakes(params) ==
  usersNav # Null /\ usersNav.params.search = usersPast.asked /\ params.search # usersPast.asked

\* updateFilters(): what is not given is taken from the search box and from `data'.
UpdateFilters(params) ==
  /\ Navigate(usersEntry, usersFlight, params, "goto")
  /\ UNCHANGED <<userRow, usersEntry, dialogVars>>

HandleSearchInput(text) ==
  /\ dialog = NoDialog /\ SpendUsers("type")
  /\ searchBox' = [local |-> text, timer |-> text]
  /\ usersPast' = [usersPast EXCEPT !.asked = text]
  /\ UNCHANGED <<userRow, usersEntry, usersFlight, usersNav, usersList, dialogVars>>

\* Mutant: the timer drops the text if the page has loaded something since.
SearchTimerFiresUnlessLoaded ==
  LET params == [page |-> 1, search |-> searchBox.local, filter |-> usersList.params.filter]
  IN /\ searchBox.timer # Null
     /\ UpdateFilters(params)
     /\ searchBox' = [local |-> IF usersNav' = Null THEN params.search ELSE searchBox.local, timer |-> Null]
     /\ UNCHANGED <<usersPast, usersBudget>>

SearchTimerFires ==
  LET params == [page |-> 1, search |-> searchBox.timer, filter |-> usersList.params.filter]
  IN /\ searchBox.timer # Null
     /\ UpdateFilters(params)
     /\ searchBox' = [local |-> IF usersNav' = Null THEN params.search ELSE searchBox.local, timer |-> Null]
     /\ UNCHANGED <<usersPast, usersBudget>>

\* The filters, `archived' and the buttons of the pages.
ClickFilter(params) ==
  /\ dialog = NoDialog /\ SpendUsers("filter")
  /\ UpdateFilters(params) /\ SyncSearchBox(searchBox.local)
  /\ usersPast' = [usersPast EXCEPT !.lost = @ \/ Overtakes(params)]

ToggleFilter ==
  ClickFilter([page |-> 1, search |-> searchBox.local, filter |-> ~usersList.params.filter])

ClickPage ==
  ClickFilter([page |-> 3 - usersList.params.page, search |-> searchBox.local,
               filter |-> usersList.params.filter])

\* clearFilters() leaves the timer of the search box running.
ClearFilters ==
  LET params == [FirstParams EXCEPT !.filter = usersList.params.filter]
  IN /\ dialog = NoDialog /\ SpendUsers("filter")
     /\ UpdateFilters(params) /\ SyncSearchBox(NoText)
     /\ usersPast' = [usersPast EXCEPT !.asked = NoText, !.lost = searchBox.timer # Null]

ServeList(params) ==
  /\ usersFlight[params] = SentFlight
  /\ usersFlight' = [usersFlight EXCEPT ![params].rows = userRow]
  /\ UNCHANGED <<userRow, usersEntry, usersNav, usersList, searchBox, dialogVars, usersPast, usersBudget>>

\* The answer of a fetch: it fills the entry, and the page if the router waits for it.
\* A failed one leaves an empty list.
ListArrives(params, rows) ==
  /\ usersFlight[params].sent
  /\ rows \in {Null, usersFlight[params].rows}
  /\ usersFlight' = [usersFlight EXCEPT ![params] = NoFlight]
  /\ usersEntry' = [usersEntry EXCEPT ![params] = rows]
  /\ IF usersNav # Null /\ usersNav.params = params
     THEN /\ usersNav' = Null
          /\ usersList' = [params |-> params, rows |-> rows]
          /\ SyncSearchBox(searchBox.local)
     ELSE UNCHANGED <<usersNav, usersList, searchBox>>
  /\ UNCHANGED <<userRow, dialogVars, usersPast, usersBudget>>

-----------------------------------------------------------------------------
\* Who is listed, and what the menu of a row and the view of an account offer.
Listed(u) ==
  /\ usersList.rows # Null /\ usersList.rows[u].state # "deleted"
  /\ usersList.rows[u].state = "archived" => usersList.params.filter

MayManage(u) == RoleOf[u] = "user" \/ RoleOf[Viewer] = "super_admin"

Offered(kind, u, row) ==
  CASE kind = "view" -> TRUE
    [] kind = "restore" -> row.state = "archived" /\ MayManage(u)
    [] kind = "archive" -> row.state = "active" /\ u # Viewer /\ MayManage(u)
    [] kind = "reset" -> row.state = "active" /\ u # Viewer /\ MayManage(u)
    [] kind = "unlock" -> row.state = "active"
    [] OTHER -> u # Viewer /\ MayManage(u)

Kinds == {"edit", "archive", "restore", "unlock", "delete", "reset"}

FlagOf(kind) ==
  CASE kind = "edit" -> "edit" [] kind = "reset" -> "reset" [] kind = "add" -> "add" [] OTHER -> "action"

OpenDialog(kind, u) ==
  /\ dialog = NoDialog /\ Listed(u) /\ Offered(kind, u, usersList.rows[u])
  /\ SpendUsers("view")
  /\ dialog' = [kind |-> kind, user |-> u, row |-> usersList.rows[u]]
  /\ UNCHANGED <<userRow, listVars, saving, auditRequests, usersPast, shown>>

\* The view of an account, whose effect asks for its audit logs.
OpenView(u) ==
  /\ dialog = NoDialog /\ Listed(u) /\ SpendUsers("view")
  /\ dialog' = [kind |-> "view", user |-> u, row |-> usersList.rows[u]]
  /\ auditRequests' = {[r EXCEPT !.newest = FALSE] : r \in auditRequests} \union {[user |-> u, newest |-> TRUE]}
  /\ shown' = [shown EXCEPT !.auditLoading = TRUE, !.auditError = FALSE]
  /\ UNCHANGED <<userRow, listVars, saving, usersPast>>

\* queueMobileAction(): the view closes, then the dialog opens on the row viewed.
OpenFromView(kind) ==
  /\ dialog.kind = "view" /\ Offered(kind, dialog.user, dialog.row)
  /\ dialog' = [dialog EXCEPT !.kind = kind]
  /\ UNCHANGED <<userRow, listVars, saving, shown, auditRequests, usersPast, usersBudget>>

OpenAdd ==
  /\ dialog = NoDialog /\ SpendUsers("view")
  /\ dialog' = [NoDialog EXCEPT !.kind = "add"]
  /\ UNCHANGED <<userRow, listVars, saving, shown, auditRequests, usersPast>>

\* Mutant: an answer of the audit log is shown whoever it is about.
AuditAnsweredUnchecked(r, ok) ==
  /\ r \in auditRequests
  /\ auditRequests' = auditRequests \ {r}
  /\ shown' = [shown EXCEPT !.auditLoading = FALSE, !.auditError = ~ok, !.audit = IF ok THEN r.user ELSE @]
  /\ UNCHANGED <<userRow, listVars, dialog, saving, usersPast, usersBudget>>

\* loadUserAuditLogs(): only the newest request is heeded.
AuditAnswered(r, ok) ==
  /\ r \in auditRequests
  /\ auditRequests' = auditRequests \ {r}
  /\ shown' = IF ~r.newest THEN shown
              ELSE [shown EXCEPT !.auditLoading = FALSE, !.auditError = ~ok, !.audit = IF ok THEN r.user ELSE @]
  /\ UNCHANGED <<userRow, listVars, dialog, saving, usersPast, usersBudget>>

\* Mutant: the dialog of a reset can be closed while it is sent.
MayCloseAlways == dialog # NoDialog

\* closeResetModal() waits for the answer, the other dialogs do not.
MayClose == dialog # NoDialog /\ (dialog.kind = "reset" => saving["reset"].phase = "idle")

\* Mutant: closing the dialog keeps the details of the account added.
CleanedKeepingDetails(kind) ==
  CASE kind = "reset" -> [shown EXCEPT !.reset = Null]
    [] kind = "add" -> [shown EXCEPT !.addForm = 0]
    [] OTHER -> shown

\* What closeResetModal() and closeAddModal() forget.
Cleaned(kind) ==
  CASE kind = "reset" -> [shown EXCEPT !.reset = Null]
    [] kind = "add" -> [shown EXCEPT !.addForm = 0, !.added = Null]
    [] OTHER -> shown

CloseDialog ==
  /\ MayClose
  /\ dialog' = NoDialog
  /\ shown' = Cleaned(dialog.kind)
  /\ usersPast' = [usersPast EXCEPT !.formMoved = @ \/ (dialog.kind = "add" /\ saving["add"].phase # "idle")]
  /\ UNCHANGED <<userRow, listVars, saving, auditRequests, usersBudget>>

-----------------------------------------------------------------------------
\* handleEditSave, handleArchive, handleRestore, handleUnlock, handleHardDelete and
\* handleResetPasswordSave up to their request. Their buttons are disabled by the flag.
Confirm ==
  LET flag == FlagOf(dialog.kind)
  IN /\ dialog.kind \in Kinds /\ saving[flag].phase = "idle"
     /\ dialog.kind = "reset" => shown.reset = Null
     /\ SpendUsers("change")
     /\ saving' = [saving EXCEPT ![flag] = [phase |-> "sent", kind |-> dialog.kind, user |-> dialog.user]]
     /\ UNCHANGED <<userRow, listVars, dialog, shown, auditRequests, usersPast>>

\* handleAddSave(), for the n-th person entered.
ConfirmAdd ==
  LET n == usersPast.persons + 1
  IN /\ dialog.kind = "add" /\ saving["add"].phase = "idle" /\ shown.added = Null
     /\ SpendUsers("change")
     /\ saving' = [saving EXCEPT !["add"] = [phase |-> "sent", kind |-> "add", user |-> n]]
     /\ shown' = [shown EXCEPT !.addForm = n]
     /\ usersPast' = [usersPast EXCEPT !.persons = n, !.formMoved = FALSE]
     /\ UNCHANGED <<userRow, listVars, dialog, auditRequests>>

\* While an addition runs its form goes on taking what is typed or generated, in the
\* dialog it was sent from as in one opened since: only `Create' is disabled.
EnterAnother ==
  /\ dialog.kind = "add" /\ saving["add"].phase # "idle" /\ shown.added = Null
  /\ shown' = [shown EXCEPT !.addForm = usersPast.persons + 1]
  /\ usersPast' = [usersPast EXCEPT !.formMoved = TRUE]
  /\ UNCHANGED <<userRow, listVars, dialog, saving, auditRequests, usersBudget>>

ResultState(kind, state) ==
  CASE kind = "archive" -> "archived" [] kind = "restore" -> "active" [] kind = "delete" -> "deleted" [] OTHER -> state

ServerAccepts(kind, u) ==
  CASE kind = "archive" -> userRow[u].state = "active"
    [] kind = "restore" -> userRow[u].state = "archived"
    [] kind \in {"unlock", "reset", "add"} -> TRUE
    [] OTHER -> userRow[u].state # "deleted"

\* The server handles the request (for its further conditions see Accounts) and answers,
\* or the answer to a change that was made is lost.
ServerHandles(flag) ==
  LET h == saving[flag]
  IN /\ h.phase = "sent"
     /\ \/ saving' = [saving EXCEPT ![flag].phase = "failed"] /\ UNCHANGED <<userRow, usersPast>>
        \/ /\ ServerAccepts(h.kind, h.user)
           /\ userRow' = IF h.kind \in {"unlock", "reset", "add"} THEN userRow
                         ELSE [userRow EXCEPT ![h.user] =
                                 [state |-> ResultState(h.kind, @.state), changes |-> @.changes + 1]]
           /\ \/ /\ saving' = [saving EXCEPT ![flag].phase = "ok"]
                 /\ usersPast' = IF h.kind \in {"unlock", "reset", "add"} THEN usersPast
                                 ELSE [usersPast EXCEPT !.own[h.user] = userRow'[h.user].changes]
              \/ saving' = [saving EXCEPT ![flag].phase = "failed"] /\ UNCHANGED usersPast
     /\ UNCHANGED <<listVars, dialog, shown, auditRequests, usersBudget>>

\* Mutant: a handler that fails returns before it resets its flag.
HandlerFailsForGood(flag) == saving[flag].phase = "failed" /\ UNCHANGED usersPageVars

\* catch and finally.
HandlerFails(flag) ==
  /\ saving[flag].phase = "failed"
  /\ saving' = [saving EXCEPT ![flag] = NoHandler]
  /\ UNCHANGED <<userRow, listVars, dialog, shown, auditRequests, usersPast, usersBudget>>

\* Mutant: the page is loaded again before the cache is told.
ReloadCached(flag) == Navigate(usersEntry, usersFlight, usersList.params, flag) /\ UNCHANGED usersEntry

\* appCache.invalidate({ resource: 'users' }), then invalidate('app:users').
Reload(flag) ==
  LET empty == [p \in ListParams |-> Null]
  IN /\ usersEntry' = empty
     /\ Navigate(empty, [p \in ListParams |-> NoFlight], usersList.params, flag)

ReloadsAfter(kind) == kind \notin {"unlock", "reset"}

HandlerAnswered(flag) ==
  LET h == saving[flag]
  IN /\ h.phase = "ok"
     /\ IF ReloadsAfter(h.kind)
        THEN /\ saving' = [saving EXCEPT ![flag].phase = "reloading"]
             /\ Reload(flag) /\ SyncSearchBox(searchBox.local)
             /\ usersPast' = [usersPast EXCEPT !.lost = @ \/ Overtakes(usersList.params)]
             /\ UNCHANGED <<dialog, shown>>
        ELSE /\ saving' = [saving EXCEPT ![flag] = NoHandler]
             /\ dialog' = IF h.kind = dialog.kind /\ h.kind = "unlock" THEN NoDialog ELSE dialog
             /\ shown' = IF h.kind = "reset" THEN [shown EXCEPT !.reset = h.user] ELSE shown
             /\ UNCHANGED <<listVars, usersPast>>
     /\ UNCHANGED <<userRow, auditRequests, usersBudget>>

\* The reload is done, or has been overtaken. The handlers close the dialog of their kind,
\* whichever account it is open for by now; an edit does so 800 ms later.
HandlerFinishes(flag) ==
  LET h == saving[flag]
  IN /\ h.phase = "reloading"
     /\ usersNav # Null => usersNav.by # flag
     /\ saving' = [saving EXCEPT ![flag] = NoHandler]
     /\ dialog' = IF h.kind = dialog.kind /\ flag = "action" THEN NoDialog ELSE dialog
     /\ shown' = CASE flag = "add" -> [shown EXCEPT !.added = [user |-> h.user, password |-> shown.addForm]]
                   [] flag = "edit" -> [shown EXCEPT !.editTimers = @ + 1]
                   [] OTHER -> shown
     /\ UNCHANGED <<userRow, listVars, auditRequests, usersPast, usersBudget>>

EditTimerFires ==
  /\ shown.editTimers > 0
  /\ shown' = [shown EXCEPT !.editTimers = @ - 1]
  /\ dialog' = IF dialog.kind = "edit" THEN NoDialog ELSE dialog
  /\ UNCHANGED <<userRow, listVars, saving, auditRequests, usersPast, usersBudget>>

\* Another administrator.
OtherChange(u, state) ==
  /\ SpendUsers("other")
  /\ userRow[u].state # "deleted"
  /\ userRow' = [userRow EXCEPT ![u] = [state |-> state, changes |-> @.changes + 1]]
  /\ UNCHANGED <<listVars, dialogVars, usersPast>>

-----------------------------------------------------------------------------
UsersPageInit ==
  /\ userRow = [u \in ListedUsers |-> [state |-> "active", changes |-> 0]]
  /\ usersEntry = [[p \in ListParams |-> Null] EXCEPT ![FirstParams] = userRow]
  /\ usersFlight = [p \in ListParams |-> NoFlight]
  /\ usersNav = Null
  /\ usersList = [params |-> FirstParams, rows |-> userRow]
  /\ searchBox = [local |-> NoText, timer |-> Null]
  /\ dialog = NoDialog
  /\ saving = [f \in SavingFlags |-> NoHandler]
  /\ shown = [reset |-> Null, added |-> Null, addForm |-> 0, editTimers |-> 0,
              audit |-> Null, auditLoading |-> FALSE, auditError |-> FALSE]
  /\ auditRequests = {}
  /\ usersPast = [asked |-> NoText, lost |-> FALSE, formMoved |-> FALSE, persons |-> 0,
                  own |-> [u \in ListedUsers |-> 0]]
  /\ usersBudget \in PageBudgets

HandlerSteps(flag) ==
  ServerHandles(flag) \/ HandlerFails(flag) \/ HandlerAnswered(flag) \/ HandlerFinishes(flag)

ListSteps(params) ==
  ServeList(params) \/ \E rows \in {Null, usersFlight[params].rows} : ListArrives(params, rows)

UsersPageNext ==
  \/ \E text \in SearchTexts \union {NoText} : HandleSearchInput(text)
  \/ SearchTimerFires \/ ToggleFilter \/ ClickPage \/ ClearFilters
  \/ \E params \in ListParams : ListSteps(params)
  \/ \E u \in ListedUsers :
       \/ OpenView(u)
       \/ \E kind \in Kinds : OpenDialog(kind, u)
       \/ \E state \in {"active", "archived", "deleted"} : OtherChange(u, state)
  \/ \E kind \in Kinds : OpenFromView(kind)
  \/ OpenAdd \/ CloseDialog \/ Confirm \/ ConfirmAdd \/ EnterAnother \/ EditTimerFires
  \/ \E flag \in SavingFlags : HandlerSteps(flag)
  \/ \E r \in auditRequests, ok \in BOOLEAN : AuditAnswered(r, ok)

UsersPageSpec == UsersPageInit /\ [][UsersPageNext]_usersPageVars

\* The browser's timers fire, the server answers, and an answer arrives or the request fails.
UsersPageFairness ==
  /\ WF_usersPageVars(At("users") /\ SearchTimerFires)
  /\ \A params \in ListParams : WF_usersPageVars(At("users") /\ ListSteps(params))
  /\ \A flag \in SavingFlags : WF_usersPageVars(At("users") /\ HandlerSteps(flag))

-----------------------------------------------------------------------------
\* Once a handler that has changed an account is done, no list shows the account as it
\* was before, neither the one on the page nor one the cache keeps for other filters.
OwnChangesListed ==
  \A u \in ListedUsers :
    (\A f \in SavingFlags : saving[f].phase \notin {"ok", "reloading"}) =>
      /\ (usersNav = Null /\ usersList.rows # Null) => usersList.rows[u].changes >= usersPast.own[u]
      /\ \A p \in ListParams : usersEntry[p] # Null => usersEntry[p][u].changes >= usersPast.own[u]

\* The new password on the screen is the one of the account that the dialog is about.
ResetShowsItsUser ==
  shown.reset # Null => dialog.kind = "reset" /\ dialog.user = shown.reset

\* The username shown after an addition is that of the person added last, but the password
\* beside it is that person's only if the form was neither edited nor closed while the
\* addition ran, and is a wrong one whenever it was: handleAddSave reads the password from
\* the form after its awaits, though the dialog asks to "copy the credentials below". And
\* nobody's credentials outlast their dialog, unless it was closed before they came.
AddShowsItsUser ==
  shown.added # Null =>
    /\ shown.added.user = usersPast.persons
    /\ shown.added.password = shown.added.user <=> ~usersPast.formMoved
    /\ dialog.kind = "add" \/ usersPast.formMoved

\* The activity shown with an account is the account's own.
AuditLogsOfViewed ==
  (dialog.kind = "view" /\ ~shown.auditLoading /\ ~shown.auditError) => shown.audit = dialog.user

\* Every handler ends and its buttons come back: again and again none runs.
HandlersEnd == []<>(\A f \in SavingFlags : saving[f].phase = "idle")

\* The list ends up at the search that was asked for last, however the answers, the timer
\* and the reset of the search box interleave, unless the navigation that carried it was
\* overtaken by another control, or filters were cleared while the timer ran.
SearchSettles == <>[](usersPast.lost \/ usersList.params.search = usersPast.asked)

\* What the page shows belongs together: the list with the changes made on it, and each
\* dialog with the account it is about, whatever handlers and answers overtake; but for
\* the password after an addition whose form was touched meanwhile.
UsersPageCorrect == OwnChangesListed /\ ResetShowsItsUser /\ AddShowsItsUser /\ AuditLogsOfViewed
=============================================================================
