---------------------------- MODULE ElectionPage -----------------------------
(***************************************************************************)
(* The administrators' page of one election (admin/elections/[id]): the    *)
(* list of positions and its order, the forms that change it, the common   *)
(* positions, and the buttons of the lifecycle, over the cache, the router *)
(* and a server that another administrator uses too.                       *)
(*                                                                         *)
(* A version counts the changes of the election's row, or of its list of   *)
(* positions, its order included. Parties and candidates are loaded after  *)
(* the positions and fail like them; they, the tabs and the dates of the   *)
(* forms are left out; a drop moves a position like the buttons. The       *)
(* router's invalidate() is external: the load begun last wins.            *)
(* After the error page the page is left: a load that would show it again  *)
(* is shown no more.                                                       *)
(***************************************************************************)
EXTENDS OnePart, Absence, Integers, FiniteSets, Sequences

CONSTANTS
  COMMON_POSITION_PRESETS,   \* the sequence of presets
  FirstNames,                \* the positions there are at the beginning
  AddedName,                 \* the position that is added by its form
  ElectionPageBudgets        \* bound: how often [submit, order, lifecycle, other] may happen

Presets == {COMMON_POSITION_PRESETS[i] : i \in DOMAIN COMMON_POSITION_PRESETS}

\* No preset is listed twice.
ASSUME PresetsAssumption ==
  /\ COMMON_POSITION_PRESETS \in Seq(Presets)
  /\ \A k, l \in DOMAIN COMMON_POSITION_PRESETS : COMMON_POSITION_PRESETS[k] = COMMON_POSITION_PRESETS[l] => k = l
ASSUME ElectionPageAssumption == Null \notin {"add", "common", "election"}

VARIABLES
  server,          \* [election |-> [status, version], positions |-> [names, version]]
  entries,         \* the cache: per resource the value fetched, or Null
  flights,         \* per resource the fetch under way
  loads,           \* per loader its progress: the router's, and those of refresh()
  electionData,    \* `data' of the page, or Null for the error page
  localPositions,  \* the list that hides the one of `data', or Null
  modal,           \* the open dialog, and the status it leads to
  selectedPositions,
  tasks,           \* per handler what it is at
  controls,        \* refreshing and stale of the lifecycle controls
  electionPast,    \* history, see the properties
  electionBudget

cacheVars == <<entries, flights, loads>>
viewVars == <<electionData, localPositions>>
formVars == <<modal, selectedPositions>>
electionPageVars == <<server, cacheVars, viewVars, formVars, tasks, controls, electionPast, electionBudget>>

Resources == {"election", "positions"}
LifecycleTasks == {"transition", "extend", "again"}
Tasks == {"form", "reorder"} \union LifecycleTasks
Loaders == {"router"} \union LifecycleTasks

NoFetch == [sent |-> FALSE, value |-> Null]
NoLoad == [phase |-> "idle", by |-> Null, orphan |-> FALSE, value |-> Null, election |-> Null, positions |-> Null]
NoModal == [kind |-> Null, to |-> Null]
NoTask == [phase |-> "idle", kind |-> Null, names |-> <<>>, made |-> 0, list |-> Null, version |-> 0]

SpendElection(what) ==
  /\ electionBudget[what] > 0
  /\ electionBudget' = [electionBudget EXCEPT ![what] = @ - 1]

\* `positions'.
ShownPositions == IF localPositions # Null THEN localPositions ELSE electionData.positions

-----------------------------------------------------------------------------
(* The cache and loadElectionData.                                         *)

\* A loader goes on as far as the cache has values.
Further(load, entry) ==
  LET e == IF load.election # Null THEN load.election ELSE entry["election"]
  IN [NoLoad EXCEPT !.by = load.by, !.election = e, !.positions = IF e = Null THEN Null ELSE entry["positions"],
                    !.phase = IF e = Null THEN "election" ELSE IF entry["positions"] = Null THEN "positions" ELSE "done"]

\* Whoever waits for a resource has a fetch under way.
Fetching(flight, load) ==
  [r \in Resources |-> IF \E l \in Loaders : load[l].phase = r /\ ~load[l].orphan
                       THEN [flight[r] EXCEPT !.sent = TRUE] ELSE flight[r]]

\* Mutant: the list of a reorder stays over the data that has been loaded.
AppliedUnderLocal(load) ==
  IF load["router"].phase = "done"
  THEN /\ loads' = [load EXCEPT !["router"] = NoLoad]
       /\ electionData' = IF electionData = Null THEN Null
                          ELSE [election |-> load["router"].election, positions |-> load["router"].positions]
       /\ UNCHANGED localPositions
  ELSE loads' = load /\ UNCHANGED viewVars

\* When the router's load is complete the page gets its data, and the effect drops
\* localPositions.
Applied(load) ==
  IF load["router"].phase = "done"
  THEN /\ loads' = [load EXCEPT !["router"] = NoLoad]
       /\ electionData' = IF electionData = Null THEN Null
                          ELSE [election |-> load["router"].election, positions |-> load["router"].positions]
       /\ localPositions' = Null
  ELSE loads' = load /\ UNCHANGED viewVars

\* AppCache.invalidate() of these resources: the entries go, and a loader that waits for
\* one fetches it again on the entry that is no longer in the registry (fetchOrThrow).
Emptied(dropped) == [r \in Resources |-> IF r \in dropped THEN Null ELSE entries[r]]

Landed(dropped) == [r \in Resources |-> IF r \in dropped THEN NoFetch ELSE flights[r]]

Orphaned(dropped) ==
  [l \in Loaders |-> IF loads[l].phase \in dropped /\ ~loads[l].orphan
                     THEN [loads[l] EXCEPT !.orphan = TRUE] ELSE loads[l]]

\* Invalidates, and starts a load: the router's for this handler, or refresh()'s own.
LoadAfter(dropped, l, by) ==
  LET load == [Orphaned(dropped) EXCEPT ![l] = Further([NoLoad EXCEPT !.by = by], Emptied(dropped))]
  IN /\ entries' = Emptied(dropped)
     /\ flights' = Fetching(Landed(dropped), load)
     /\ Applied(load)

ServeFetch(r) ==
  /\ flights[r] = [NoFetch EXCEPT !.sent = TRUE]
  /\ flights' = [flights EXCEPT ![r].value = server[r]]
  /\ UNCHANGED <<server, entries, loads, viewVars, formVars, tasks, controls, electionPast, electionBudget>>

\* Loaders that have waited in vain: refresh() catches the error, the router shows the
\* error page.
Failing(waiting) ==
  /\ loads' = [l \in Loaders |-> IF l \notin waiting THEN loads[l]
                                 ELSE IF l = "router" THEN NoLoad ELSE [NoLoad EXCEPT !.phase = "failed"]]
  /\ electionData' = IF "router" \in waiting THEN Null ELSE electionData
  /\ UNCHANGED localPositions

FetchArrives(r) ==
  /\ flights[r].value # Null
  /\ LET waiting == {l \in Loaders : loads[l].phase = r /\ ~loads[l].orphan}
     IN \/ LET entry == [entries EXCEPT ![r] = flights[r].value]
               load == [l \in Loaders |-> IF l \in waiting THEN Further(loads[l], entry) ELSE loads[l]]
           IN /\ entries' = entry
              /\ flights' = Fetching([flights EXCEPT ![r] = NoFetch], load)
              /\ Applied(load)
        \/ /\ flights' = [flights EXCEPT ![r] = NoFetch]
           /\ Failing(waiting) /\ UNCHANGED entries
  /\ UNCHANGED <<server, formVars, tasks, controls, electionPast, electionBudget>>

ServeOrphan(l) ==
  /\ loads[l].orphan /\ loads[l].value = Null
  /\ loads' = [loads EXCEPT ![l].value = server[loads[l].phase]]
  /\ UNCHANGED <<server, entries, flights, viewVars, formVars, tasks, controls, electionPast, electionBudget>>

OrphanArrives(l) ==
  /\ loads[l].orphan /\ loads[l].value # Null
  /\ \/ LET load == [loads EXCEPT ![l] = Further(loads[l], [entries EXCEPT ![loads[l].phase] = loads[l].value])]
        IN flights' = Fetching(flights, load) /\ Applied(load)
     \/ Failing({l}) /\ UNCHANGED flights
  /\ UNCHANGED <<server, entries, formVars, tasks, controls, electionPast, electionBudget>>

-----------------------------------------------------------------------------
(* The dialogs and what they send.                                         *)

ControlsEnabled == electionData # Null /\ ~controls.refreshing /\ ~controls.stale

NextStatuses(status) ==
  CASE status = "draft" -> {"open"} [] status = "open" -> {"closed"}
    [] status = "closed" -> {"archived", "draft"} [] OTHER -> {}

MayOpenModal(kind) ==
  LET status == electionData.election.status
  IN CASE kind = "transition" -> ControlsEnabled /\ tasks["transition"] = NoTask /\ NextStatuses(status) # {}
       [] kind = "extend" -> ControlsEnabled /\ status = "open"
       [] OTHER -> status = "draft"

Available == Presets \ ShownPositions.names

OpenModal(kind) ==
  /\ electionData # Null /\ modal = NoModal /\ MayOpenModal(kind)
  /\ \E to \in IF kind = "transition" THEN NextStatuses(electionData.election.status) ELSE {Null} :
       modal' = [kind |-> kind, to |-> to]
  /\ selectedPositions' = IF kind = "common" THEN Available ELSE selectedPositions
  /\ UNCHANGED <<server, cacheVars, viewVars, tasks, controls, electionPast, electionBudget>>

\* Only the dialog of a transition can be closed while it works.
MayCloseModal ==
  CASE modal.kind = "transition" -> TRUE
    [] modal.kind = "extend" -> tasks["extend"] = NoTask
    [] OTHER -> tasks["form"] = NoTask

CloseModal ==
  /\ modal # NoModal /\ MayCloseModal
  /\ modal' = NoModal
  /\ UNCHANGED <<server, cacheVars, viewVars, selectedPositions, tasks, controls, electionPast, electionBudget>>

SelectAllAvailable ==
  /\ electionData # Null /\ modal.kind = "common" /\ tasks["form"] = NoTask
  /\ selectedPositions' = Available
  /\ UNCHANGED <<server, cacheVars, viewVars, modal, tasks, controls, electionPast, electionBudget>>

\* togglePreset(), for taking one out.
Deselect(name) ==
  /\ electionData # Null /\ modal.kind = "common" /\ tasks["form"] = NoTask
  /\ name \in selectedPositions \intersect Available
  /\ selectedPositions' = selectedPositions \ {name}
  /\ UNCHANGED <<server, cacheVars, viewVars, modal, tasks, controls, electionPast, electionBudget>>

\* These presets, in the order of all of them.
InPresetOrder(chosen) ==
  {names \in [1..Cardinality(chosen) -> chosen] :
     \A i, j \in DOMAIN names : i < j =>
       \E k, l \in DOMAIN COMMON_POSITION_PRESETS :
         k < l /\ names[i] = COMMON_POSITION_PRESETS[k] /\ names[j] = COMMON_POSITION_PRESETS[l]}

\* What a form creates, in order.
FormNames ==
  CASE modal.kind = "common" -> InPresetOrder(selectedPositions \intersect Available)
    [] modal.kind = "add" -> {<<AddedName>>}
    [] OTHER -> {<<Null>>}

SubmitForm ==
  /\ electionData # Null /\ modal.kind \in {"add", "edit", "election", "common"} /\ tasks["form"] = NoTask
  /\ modal.kind = "common" => electionData.election.status = "draft"
  /\ SpendElection("submit")
  /\ \E names \in FormNames \ {<<>>} :
       tasks' = [tasks EXCEPT !["form"] = [NoTask EXCEPT !.phase = "sent", !.kind = modal.kind, !.names = names, !.list = localPositions]]
  /\ electionPast' = [electionPast EXCEPT !.behind = loads["router"] # NoLoad]
  /\ UNCHANGED <<server, cacheVars, viewVars, formVars, controls>>

SubmitLifecycle ==
  /\ electionData # Null /\ modal.kind \in {"transition", "extend"} /\ tasks[modal.kind] = NoTask
  /\ ControlsEnabled /\ SpendElection("lifecycle")
  /\ tasks' = [tasks EXCEPT ![modal.kind] = [NoTask EXCEPT !.phase = "sent", !.kind = modal.to]]
  /\ electionPast' = [electionPast EXCEPT !.together = @ \/ \E h \in LifecycleTasks : tasks[h] # NoTask]
  /\ UNCHANGED <<server, cacheVars, viewVars, formVars, controls>>

\* movePosition() and handleReorder(): the new order is shown at once.
MovePosition ==
  /\ electionData # Null /\ modal = NoModal /\ tasks["reorder"] = NoTask
  /\ electionData.election.status = "draft" /\ Cardinality(ShownPositions.names) > 1
  /\ SpendElection("order")
  /\ tasks' = [tasks EXCEPT !["reorder"] = [NoTask EXCEPT !.phase = "sent", !.list = ShownPositions]]
  /\ localPositions' = ShownPositions
  /\ UNCHANGED <<server, cacheVars, electionData, formVars, controls, electionPast>>

-----------------------------------------------------------------------------
(* The server, as far as it shows here: see Elections, Roster and          *)
(* PositionOrder.                                                          *)

ServerTakes(h) ==
  LET task == tasks[h]
      status == server["election"].status
      names == server["positions"].names
  IN CASE h = "transition" -> task.kind \in NextStatuses(status) /\ (task.kind = "open" => names # {})
       [] h = "extend" -> status = "open"
       [] h = "reorder" -> status = "draft" /\ task.list.names = names
       [] OTHER -> status = "draft" /\ (task.kind \in {"add", "common"} => Head(task.names) \notin names)

Changed(h) == IF h \in LifecycleTasks \/ tasks[h].kind = "election" THEN "election" ELSE "positions"

AfterTask(h) ==
  LET bumped == [server EXCEPT ![Changed(h)].version = @ + 1]
  IN CASE h = "transition" -> [bumped EXCEPT !["election"].status = tasks[h].kind]
       [] tasks[h].kind \in {"add", "common"} -> [bumped EXCEPT !["positions"].names = @ \union {Head(tasks[h].names)}]
       [] OTHER -> bumped

\* The request is refused or lost, or it is done; the answer of one that was done may be
\* lost. A reorder is answered with the list.
ServerHandlesTask(h) ==
  /\ tasks[h].phase = "sent"
  /\ \/ tasks' = [tasks EXCEPT ![h].phase = "failed"] /\ UNCHANGED server
     \/ /\ ServerTakes(h) /\ server' = AfterTask(h)
        /\ \/ tasks' = [tasks EXCEPT ![h].phase = "failed"]
           \/ LET list == IF h = "reorder" THEN server'["positions"] ELSE tasks[h].list
              IN tasks' = [tasks EXCEPT ![h] = [@ EXCEPT !.phase = "answered", !.version = server'[Changed(h)].version, !.list = list]]
  /\ UNCHANGED <<cacheVars, viewVars, formVars, controls, electionPast, electionBudget>>

-----------------------------------------------------------------------------
(* What the handlers do with the answers.                                  *)

\* What this page was told is history: the version told last of each, and the names.
Told(h) ==
  LET names == IF tasks[h].kind \in {"add", "common"} THEN {Head(tasks[h].names)} ELSE {}
      r == Changed(h)
  IN electionPast' = [electionPast EXCEPT !.told[r] = IF @ < tasks[h].version /\ tasks[h].kind # "election" THEN tasks[h].version ELSE @,
                                          !.created = @ \union names]

\* What the forms invalidate.
Invalidates(kind) ==
  CASE kind = "edit" -> {"positions"} [] kind = "election" -> {"election"} [] OTHER -> Resources

\* reorderAndRefreshPositions().
ReorderAnswered ==
  LET load == [Orphaned({"positions"}) EXCEPT !["router"] = Further([NoLoad EXCEPT !.by = "reorder"], Emptied({"positions"}))]
  IN /\ tasks["reorder"].phase = "answered"
     /\ tasks' = [tasks EXCEPT !["reorder"].phase = "reloading"]
     /\ Told("reorder")
     /\ entries' = Emptied({"positions"})
     /\ flights' = Fetching(Landed({"positions"}), load)
     /\ loads' = load
     /\ localPositions' = tasks["reorder"].list
     /\ UNCHANGED <<server, electionData, formVars, controls, electionBudget>>

ReorderFails ==
  /\ tasks["reorder"].phase = "failed"
  /\ tasks' = [tasks EXCEPT !["reorder"] = NoTask]
  /\ localPositions' = tasks["reorder"].list
  /\ electionPast' = [electionPast EXCEPT !.putBack = tasks["reorder"].list]
  /\ UNCHANGED <<server, cacheVars, electionData, formVars, controls, electionBudget>>

\* Mutant: a preset that has been created stays selected, and the page is loaded again
\* only when all of them have.
FormAnsweredAtEnd ==
  LET task == tasks["form"]
  IN /\ task.phase = "answered" /\ Told("form")
     /\ IF Len(task.names) > 1
        THEN /\ tasks' = [tasks EXCEPT !["form"] = [task EXCEPT !.phase = "sent", !.names = Tail(@)]]
             /\ UNCHANGED <<cacheVars, viewVars, modal>>
        ELSE /\ tasks' = [tasks EXCEPT !["form"] = IF task.kind = "edit" THEN NoTask ELSE [task EXCEPT !.phase = "reloading", !.names = <<>>]]
             /\ modal' = IF task.kind = "edit" THEN NoModal ELSE modal
             /\ LoadAfter(Invalidates(task.kind), "router", "form")
     /\ UNCHANGED <<server, selectedPositions, controls, electionBudget>>

\* The forms of positions and of the election, and submitAdd() of the common positions,
\* which goes on with the next one. The form of a position closes before it reloads.
FormAnswered ==
  LET task == tasks["form"]
  IN /\ task.phase = "answered" /\ Told("form")
     /\ selectedPositions' = selectedPositions \ {Head(task.names)}
     /\ IF Len(task.names) > 1
        THEN /\ tasks' = [tasks EXCEPT !["form"] = [task EXCEPT !.phase = "sent", !.names = Tail(@), !.made = 1]]
             /\ UNCHANGED <<cacheVars, viewVars, modal>>
        ELSE /\ tasks' = [tasks EXCEPT !["form"] = IF task.kind = "edit" THEN NoTask ELSE [task EXCEPT !.phase = "reloading", !.names = <<>>]]
             /\ modal' = IF task.kind = "edit" THEN NoModal ELSE modal
             /\ LoadAfter(Invalidates(task.kind), "router", "form")
     /\ UNCHANGED <<server, controls, electionBudget>>

\* After a failure in the middle the page is loaded again, and the dialog stays.
FormFails ==
  /\ tasks["form"].phase = "failed"
  /\ IF tasks["form"].made > 0
     THEN /\ tasks' = [tasks EXCEPT !["form"].phase = "reloading"]
          /\ LoadAfter(Resources, "router", "form")
     ELSE tasks' = [tasks EXCEPT !["form"] = NoTask] /\ UNCHANGED <<cacheVars, viewVars>>
  /\ UNCHANGED <<server, formVars, controls, electionPast, electionBudget>>

\* The reload is done, or has been overtaken.
Reloaded(h) == tasks[h].phase = "reloading" /\ (loads["router"] = NoLoad \/ loads["router"].by # h)

FormFinishes ==
  /\ Reloaded("form")
  /\ modal' = IF tasks["form"].names = <<>> THEN NoModal ELSE modal
  /\ tasks' = [tasks EXCEPT !["form"] = NoTask]
  /\ UNCHANGED <<server, cacheVars, viewVars, selectedPositions, controls, electionPast, electionBudget>>

ReorderFinishes ==
  /\ Reloaded("reorder")
  /\ tasks' = [tasks EXCEPT !["reorder"] = NoTask]
  /\ UNCHANGED <<server, cacheVars, viewVars, formVars, controls, electionPast, electionBudget>>

\* Mutant: what refresh() makes the cache forget leaves the election's row out.
RefreshedKeepingElection == {"positions"}

\* What refresh() makes the cache forget.
Refreshed == Resources

\* complete() and refresh().
LifecycleAnswered(h) ==
  /\ h \in {"transition", "extend"} /\ tasks[h].phase = "answered" /\ Told(h)
  /\ modal' = IF modal.kind = h THEN NoModal ELSE modal
  /\ tasks' = [tasks EXCEPT ![h].phase = "loading"]
  /\ controls' = [controls EXCEPT !.refreshing = TRUE]
  /\ LoadAfter(Refreshed, h, h)
  /\ UNCHANGED <<server, selectedPositions, electionBudget>>

LifecycleFails(h) ==
  /\ h \in {"transition", "extend"} /\ tasks[h].phase = "failed"
  /\ tasks' = [tasks EXCEPT ![h] = NoTask]
  /\ UNCHANGED <<server, cacheVars, viewVars, formVars, controls, electionPast, electionBudget>>

\* The button that is there when the page is stale.
RefreshPage ==
  /\ electionData # Null /\ modal = NoModal
  /\ controls.stale /\ ~controls.refreshing /\ tasks["again"] = NoTask
  /\ tasks' = [tasks EXCEPT !["again"] = [NoTask EXCEPT !.phase = "loading"]]
  /\ controls' = [controls EXCEPT !.refreshing = TRUE]
  /\ LoadAfter(Refreshed, "again", "again")
  /\ UNCHANGED <<server, formVars, electionPast, electionBudget>>

\* The data is in the cache: the router loads it into the page.
RefreshRoutes(h) ==
  LET load == [loads EXCEPT ![h] = NoLoad, !["router"] = Further([NoLoad EXCEPT !.by = h], entries)]
  IN /\ tasks[h].phase = "loading" /\ loads[h].phase = "done"
     /\ tasks' = [tasks EXCEPT ![h].phase = "reloading"]
     /\ flights' = Fetching(flights, load)
     /\ Applied(load)
     /\ UNCHANGED <<server, entries, formVars, controls, electionPast, electionBudget>>

\* Mutant: a refresh that fails leaves its flag set.
RefreshFailsForGood(h) ==
  /\ tasks[h].phase = "loading" /\ loads[h].phase = "failed"
  /\ tasks' = [tasks EXCEPT ![h] = NoTask]
  /\ loads' = [loads EXCEPT ![h] = NoLoad]
  /\ controls' = [controls EXCEPT !.stale = TRUE]
  /\ UNCHANGED <<server, entries, flights, viewVars, formVars, electionPast, electionBudget>>

RefreshFails(h) ==
  /\ tasks[h].phase = "loading" /\ loads[h].phase = "failed"
  /\ tasks' = [tasks EXCEPT ![h] = NoTask]
  /\ loads' = [loads EXCEPT ![h] = NoLoad]
  /\ controls' = [refreshing |-> FALSE, stale |-> TRUE]
  /\ UNCHANGED <<server, entries, flights, viewVars, formVars, electionPast, electionBudget>>

RefreshFinishes(h) ==
  /\ h \in LifecycleTasks /\ Reloaded(h)
  /\ tasks' = [tasks EXCEPT ![h] = NoTask]
  /\ controls' = [refreshing |-> FALSE, stale |-> FALSE]
  /\ UNCHANGED <<server, cacheVars, viewVars, formVars, electionPast, electionBudget>>

\* Another administrator adds a position, or takes the election further.
OtherAdministrator ==
  /\ SpendElection("other")
  /\ \/ server["election"].status = "draft" /\
        \E name \in Presets \ server["positions"].names :
          server' = [server EXCEPT !["positions"] = [names |-> @.names \union {name}, version |-> @.version + 1]]
     \/ \E to \in NextStatuses(server["election"].status) :
          server' = [server EXCEPT !["election"] = [status |-> to, version |-> @.version + 1]]
  /\ UNCHANGED <<cacheVars, viewVars, formVars, tasks, controls, electionPast>>

-----------------------------------------------------------------------------
ElectionPageInit ==
  /\ server = [election |-> [status |-> "draft", version |-> 0],
               positions |-> [names |-> FirstNames, version |-> 0]]
  /\ entries = server /\ electionData = server
  /\ flights = [r \in Resources |-> NoFetch]
  /\ loads = [l \in Loaders |-> NoLoad]
  /\ localPositions = Null /\ modal = NoModal /\ selectedPositions = {}
  /\ tasks = [h \in Tasks |-> NoTask]
  /\ controls = [refreshing |-> FALSE, stale |-> FALSE]
  /\ electionPast = [told |-> [r \in Resources |-> 0], created |-> {}, together |-> FALSE, putBack |-> Null, behind |-> FALSE]
  /\ electionBudget \in ElectionPageBudgets

FetchSteps(r) == ServeFetch(r) \/ FetchArrives(r)

OrphanSteps(l) == ServeOrphan(l) \/ OrphanArrives(l)

TaskSteps(h) ==
  \/ ServerHandlesTask(h)
  \/ h = "reorder" /\ (ReorderAnswered \/ ReorderFails \/ ReorderFinishes)
  \/ h = "form" /\ (FormAnswered \/ FormFails \/ FormFinishes)
  \/ LifecycleAnswered(h) \/ LifecycleFails(h)
  \/ h \in LifecycleTasks /\ (RefreshRoutes(h) \/ RefreshFails(h) \/ RefreshFinishes(h))

ElectionPageNext ==
  \/ \E kind \in {"add", "edit", "election", "common", "transition", "extend"} : OpenModal(kind)
  \/ CloseModal \/ SelectAllAvailable \/ SubmitForm \/ SubmitLifecycle \/ MovePosition \/ RefreshPage \/ OtherAdministrator
  \/ \E name \in Presets : Deselect(name)
  \/ \E r \in Resources : FetchSteps(r)
  \/ \E l \in Loaders : OrphanSteps(l)
  \/ \E h \in Tasks : TaskSteps(h)

ElectionPageSpec == ElectionPageInit /\ [][ElectionPageNext]_electionPageVars

\* The server answers, and an answer arrives or the request fails.
ElectionPageFairness ==
  /\ \A r \in Resources : WF_electionPageVars(At("election") /\ FetchSteps(r))
  /\ \A l \in Loaders : WF_electionPageVars(At("election") /\ OrphanSteps(l))
  /\ \A h \in Tasks : WF_electionPageVars(At("election") /\ TaskSteps(h))

-----------------------------------------------------------------------------
\* A list that a failed reorder has put back is on the page.
PutBack == localPositions # Null /\ localPositions = electionPast.putBack

\* When everything the page waits for has come, the list shows what the page was told to
\* have changed. A reorder that fails puts back the list it began with, which may be from
\* before a position was added while it ran (handleReorder does not disable the forms).
OwnPositionsShown ==
  (electionData # Null /\ tasks["reorder"] = NoTask /\ tasks["form"] = NoTask /\ loads["router"] = NoLoad /\ ~PutBack) =>
    ShownPositions.version >= electionPast.told["positions"]

\* "Refresh before making another change": when a change of the lifecycle can be sent, the
\* page shows the election as the last change told to be saved has left it, or later, or is
\* being loaded: refresh() goes on when another reload has overtaken its own. Two changes
\* at a time, which a dialog closed while it works allows, can end otherwise: the flag of
\* the one that refreshes is reset by the other.
NoBlindTransition ==
  (ControlsEnabled /\ tasks["transition"] = NoTask /\ tasks["extend"] = NoTask /\ loads["router"] = NoLoad /\ ~electionPast.together) =>
    electionData.election.version >= electionPast.told["election"]

\* The common positions never ask for a position again that this page was told is created,
\* whatever fails in between, unless a reorder has put an earlier list on the page or the
\* form was sent while the page was being loaded, its own reload having been overtaken.
PresetsAskedOnce ==
  (tasks["form"].kind = "common" /\ tasks["form"].phase = "sent" /\ tasks["form"].list = Null /\ ~electionPast.behind) =>
    Head(tasks["form"].names) \notin electionPast.created

\* What the page of an election shows and sends: it shows the positions it was told to have
\* changed, offers no change of the lifecycle on a page that lacks the last, and asks for
\* no preset twice.
ElectionPageCorrect == OwnPositionsShown /\ NoBlindTransition /\ PresetsAskedOnce

\* The buttons come back: again and again nothing is being saved or refreshed, whatever
\* is refused or lost (isReordering, busy, submitting and refreshing are reset).
ElectionPageSettles ==
  []<>(~controls.refreshing /\ \A h \in Tasks : tasks[h] = NoTask)
=============================================================================
