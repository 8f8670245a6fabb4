---------------------------- MODULE VotingClient -----------------------------
(***************************************************************************)
(* The voting page of one browser tab against a server that goes on        *)
(* without it: elections open and close, the voter casts from another      *)
(* device, other tabs sign out and in, sessions are revoked, answers come  *)
(* late or not at all.                                                     *)
(*                                                                         *)
(* Three parts of the page fetch the voting state through one cache slot:  *)
(* the route's load, the submission of a ballot (which reads the state to  *)
(* learn what became of a lost answer) and the refresh that a countdown    *)
(* starts at zero. One request of each is followed, one submission, one    *)
(* countdown refresh and one session bootstrap at a time. Extending the    *)
(* closing time, which only starts the countdown anew, is left out, and so *)
(* is the page of an administrator, which offers nothing.                  *)
(***************************************************************************)
EXTENDS OnePart, ClientCache, BallotStepper

CONSTANTS
  Users, ElectionIds, Forms,
  FirstUser, FirstForm,   \* who opens the tab, and the form of every election then
  Drafts,       \* the elections not opened yet at the start
  Budgets       \* bounds: for each kind of event, how often it happens; a
                \* behaviour keeps to one of the budgets

ASSUME CallersAssumption == Callers = {"load", "submit", "refresh"}

\* Status changes by the administrators, ballots cast from other devices, sessions
\* opened, sessions ended, tabs put away, countdowns at zero, ballots submitted.
Events == {"change", "cast", "login", "logout", "hide", "countdown", "submit"}

ASSUME BudgetsAssumption == Budgets \subseteq [Events -> Nat]

\* A form that is shown lists a position once.
ASSUME FormsAssumption ==
  \A f \in Forms \union {<< >>} :
    LET shown == StepperPositions(f)
    IN /\ shown \in Seq([id : PositionIds, options : SUBSET CandidateIds])
       /\ \A i, j \in DOMAIN shown : shown[i].id = shown[j].id => i = j

\* The database admits one open election at a time.
ASSUME StartAssumption ==
  /\ FirstUser \in Users /\ FirstForm \in Forms
  /\ \A e, f \in ElectionIds \ Drafts : e = f

\* What a fetch of the voting state gives.
VotingStates ==
  [voter : Users, open : ElectionIds \union {Null}, version : Int,
   form : Forms \union {<< >>}, next : BOOLEAN, hasVoted : BOOLEAN]

ASSUME AbsenceAssumption == Null \notin Users \union ElectionIds \union Callers \union VotingStates

VARIABLES
  \* the server
  status, form, counted,
  holders,      \* the user of every session opened so far
  valid,        \* the sessions the server accepts
  \* the browser
  cookie,       \* the session all tabs send, 0 for none
  posted,       \* a "logout" of another tab has not reached this one
  frozen,       \* the tab is put away: no timer, answer or message reaches it
  had,          \* history: the sessions the browser has had since the tab's cache
                \* was last emptied, 0 for none
  budget,       \* what is left of the events the bounds allow
  \* the tab
  auth,         \* authStore, and the root layout's bootstrap error
  bootstrap,    \* the answer to me() that is under way
  leaving,      \* the voter's own logout is under way
  route, cache, load, pageData,
  \* the page
  runtimeError, voting, expired, submit, refresh

serverVars == <<status, form, counted>>
sessionVars == <<holders, valid, cookie>>
tabVars == <<auth, bootstrap, leaving, posted, frozen, had>>
pageVars == <<route, cache, load, pageData, runtimeError, voting, expired>>
vars == <<serverVars, sessionVars, tabVars, pageVars, submit, refresh, budget>>

-----------------------------------------------------------------------------
(* The server.                                                             *)

\* How far the server has come: grows with every change a voter can be shown.
Version == Cardinality(counted) - budget["change"]

Spend(event) == budget[event] > 0 /\ budget' = [budget EXCEPT ![event] = @ - 1]

OpenElections == {e \in ElectionIds : status[e] = "open"}

HolderOf(session) == IF session \in valid THEN holders[session] ELSE Null

HasVoted(u, e) == <<u, e>> \in counted

\* The voting state as a user is shown it: own vote only for the open election.
VotingStateOf(u) ==
  LET open == IF OpenElections = {} THEN Null ELSE CHOOSE e \in OpenElections : TRUE
  IN [voter |-> u, open |-> open, version |-> Version,
      form |-> IF open = Null THEN << >> ELSE form[open],
      next |-> \E e \in ElectionIds : status[e] = "draft",
      hasVoted |-> open # Null /\ HasVoted(u, open)]

\* History: the worst that has happened since the last click on "Submit ballot".
\* "session": the browser is not, or may not be, the voter's own any more; "other":
\* the election has changed, an answer was lost, a countdown ran out, the tab was hidden.
Noticed(event) ==
  [submit EXCEPT !.event = IF submit.election = Null \/ @ = "session" THEN @ ELSE event]

Noticing(event) == submit' = Noticed(event)

ChangeStatus(e, from, to) ==
  /\ status[e] = from
  /\ Spend("change")
  /\ status' = [status EXCEPT ![e] = to]
  /\ Noticing("other")
  /\ UNCHANGED <<counted, sessionVars, tabVars, pageVars, refresh>>

CloseElection(e) == ChangeStatus(e, "open", "closed") /\ UNCHANGED form

\* An election with ballots is not taken back, so its form stays.
BackToDraft(e) ==
  /\ \A u \in Users : ~HasVoted(u, e)
  /\ ChangeStatus(e, "closed", "draft")
  /\ \E f \in Forms : form' = [form EXCEPT ![e] = f]

OpenElection(e) == OpenElections = {} /\ ChangeStatus(e, "draft", "open") /\ UNCHANGED form

\* The voter, or whoever else has used this browser, casts from another device.
CastElsewhere(u, e) ==
  /\ e \in OpenElections /\ ~HasVoted(u, e) /\ \E i \in DOMAIN holders : holders[i] = u
  /\ Spend("cast")
  /\ counted' = counted \union {<<u, e>>}
  /\ UNCHANGED <<status, form, sessionVars, tabVars, pageVars, submit, refresh>>

-----------------------------------------------------------------------------
(* Other tabs of the browser, and what ends a session on the server.       *)

\* The other tab posts "logout" once the server has answered; a tab that is put
\* away has closed its channel.
LogoutElsewhere ==
  /\ cookie # 0 /\ Spend("logout")
  /\ cookie' = 0 /\ valid' = valid \ {cookie}
  /\ posted' = ~frozen
  /\ had' = had \union {0}
  /\ Noticing("session")
  /\ UNCHANGED <<serverVars, holders, auth, bootstrap, leaving, frozen, pageVars, refresh>>

\* A tab that was opened on the login form goes on offering it, whoever has signed in
\* since; the server sets a new cookie over the present one, and no tab is told.
LoginElsewhere(u) ==
  /\ Spend("login")
  /\ holders' = Append(holders, u)
  /\ cookie' = Len(holders')
  /\ valid' = valid \union {cookie'}
  /\ had' = had \union {cookie'}
  /\ Noticing("session")
  /\ UNCHANGED <<serverVars, auth, bootstrap, leaving, posted, frozen, pageVars, refresh>>

\* An administrator archives the account or resets its password; a session runs out.
RevokeSession ==
  /\ cookie \in valid /\ Spend("logout")
  /\ valid' = valid \ {cookie}
  /\ Noticing("session")
  /\ UNCHANGED <<serverVars, holders, cookie, tabVars, pageVars, refresh>>

-----------------------------------------------------------------------------
(* The tab: which component is mounted, and what the page shows.           *)

\* The voting page is rendered inside AuthGuardLayout inside the root layout.
Mounted == route = "voting" /\ auth.started /\ ~auth.loading /\ ~auth.failed /\ auth.user # Null

\* Mutant: the own vote of whatever election is open.
HasVotedInAny(state, e) == state.hasVoted

HasVotedIn(state, e) == state.open = e /\ state.hasVoted

\* deriveVotingPageState; a page that is not mounted shows nothing.
Kind ==
  IF ~Mounted THEN "none"
  ELSE IF pageData.error \/ runtimeError THEN "error"
  ELSE IF pageData.state = Null THEN "loading"
  ELSE IF pageData.state.open = Null THEN "empty"
  ELSE IF HasVotedIn(pageData.state, pageData.state.open) THEN "voted"
  ELSE "stepper"

\* The ballot on the page.
Ballot ==
  IF Kind # "stepper" THEN Null
  ELSE [election |-> pageData.state.open, positions |-> StepperPositions(pageData.state.form)]

\* What the countdown on the page counts down to.
CountdownTarget ==
  IF Kind = "stepper" THEN <<"closes", pageData.state.open>>
  ELSE IF Kind = "empty" /\ pageData.state.next THEN <<"opens", Null>>
  ELSE Null

NoVoting == [choice |-> << >>, index |-> 0]

IsSubmitting == submit.phase # "idle" /\ ~submit.orphan

\* The $effect.pre of the page and the $effect of its countdown: part of every
\* step that can change what the page is derived from. A component that is
\* unmounted takes its own error with it.
Rederive ==
  /\ voting' = IF Ballot' = Null THEN NoVoting
               ELSE IF Ballot # Null /\ Ballot.election = Ballot'.election
               THEN PreserveVotingState(voting, Ballot.positions, Ballot'.positions)
               ELSE CreateVotingState(Ballot'.positions)
  /\ expired' = (expired /\ CountdownTarget' = CountdownTarget)

\* A submission whose component is gone keeps running and shows nothing there.
Orphaned(s) == [s EXCEPT !.orphan = @ \/ (s.phase # "idle" /\ ~Mounted')]

-----------------------------------------------------------------------------
(* Signing in and out. Every change of identity empties the cache, and the *)
(* guards of the layouts send the tab to the page it may see.              *)

SignedOut == [auth EXCEPT !.user = Null, !.loading = FALSE]

\* authStore.logout(), and AuthGuardLayout's redirect: the navigation to /auth
\* discards a load under way. Before the root layout is mounted no guard runs.
SignOut ==
  /\ auth' = SignedOut
  /\ cache' = Invalidated(cache, Version) /\ had' = {cookie'}
  /\ IF auth.started /\ ~auth.failed
     THEN route' = "auth" /\ load' = Null
     ELSE UNCHANGED <<route, load>>

\* Mutant: the load does not look at the error of the cache entry.
LoadingIgnoringError(slot, data) ==
  IF slot.data # Null THEN [cache |-> slot, load |-> Null, data |-> [state |-> slot.data, error |-> FALSE]]
  ELSE IF slot.inflight # Null THEN [cache |-> slot, load |-> slot.inflight, data |-> data]
  ELSE [cache |-> Sent(slot, "load", cookie, Version), load |-> "load", data |-> data]

\* CacheEntry.fetch(false) by the route's load, which SvelteKit runs when the tab
\* navigates here or `app:voting' is invalidated: the cached value, the fetch
\* under way, or a new one. Gives the cache, what the load awaits and the data.
Loading(slot, data) ==
  IF slot.data # Null THEN [cache |-> slot, load |-> Null, data |-> [state |-> slot.data, error |-> slot.error]]
  ELSE IF slot.inflight # Null THEN [cache |-> slot, load |-> slot.inflight, data |-> data]
  ELSE [cache |-> Sent(slot, "load", cookie, Version), load |-> "load", data |-> data]

StartLoad(slot, data) ==
  LET l == Loading(slot, data)
  IN cache' = l.cache /\ load' = l.load /\ pageData' = l.data

\* authStore.set({user, loading: false}) for somebody, and the redirect of the
\* public pages to /voting, whose load starts from an empty cache.
SignIn(u) ==
  /\ auth' = [auth EXCEPT !.user = u, !.loading = FALSE]
  /\ had' = {cookie}
  /\ IF route = "auth"
     THEN StartLoad(Invalidated(cache, Version), pageData)
     ELSE cache' = Invalidated(cache, Version) /\ UNCHANGED <<load, pageData>>
  /\ UNCHANGED route

\* initializeAuth: the answer of me() is the one the server gives now, or none.
InitializeAuth ==
  /\ auth' = [started |-> TRUE, user |-> Null, loading |-> TRUE, failed |-> FALSE]
  /\ cache' = Invalidated(cache, Version) /\ had' = {cookie}
  /\ bootstrap' \in {[answer |-> "user", user |-> HolderOf(cookie)], [answer |-> "lost", user |-> Null]}

NoBootstrap == [answer |-> "none", user |-> Null]

\* The root layout is mounted once the first load has run.
Start ==
  /\ ~auth.started /\ load = Null /\ ~frozen
  /\ InitializeAuth
  /\ UNCHANGED <<serverVars, sessionVars, leaving, posted, frozen, route, load, pageData,
                 runtimeError, submit, refresh, budget>>
  /\ Rederive

Retry ==
  /\ auth.failed /\ bootstrap = NoBootstrap /\ ~frozen
  /\ InitializeAuth
  /\ UNCHANGED <<serverVars, sessionVars, leaving, posted, frozen, route, load, pageData,
                 runtimeError, submit, refresh, budget>>
  /\ Rederive

DeliverBootstrap ==
  /\ bootstrap # NoBootstrap /\ ~frozen
  /\ bootstrap' = NoBootstrap
  /\ UNCHANGED <<serverVars, sessionVars, leaving, posted, frozen, runtimeError, refresh, budget>>
  /\ CASE bootstrap.answer = "lost" ->
            /\ auth' = [SignedOut EXCEPT !.failed = TRUE]
            /\ UNCHANGED <<cache, had, route, load, pageData>>
       [] bootstrap.answer = "user" /\ bootstrap.user = Null -> SignOut /\ UNCHANGED pageData
       [] OTHER -> SignIn(bootstrap.user)
  /\ submit' = Orphaned(Noticed("session"))
  /\ Rederive

\* The channel's message; the bootstrap under way is not told of it.
ReceiveLogout ==
  /\ posted /\ ~frozen
  /\ posted' = FALSE
  /\ UNCHANGED <<serverVars, sessionVars, bootstrap, leaving, frozen, pageData, refresh, budget>>
  /\ SignOut
  /\ runtimeError' = FALSE
  /\ submit' = Orphaned(Noticed("session"))
  /\ Rederive

Hide ==
  /\ auth.started /\ ~frozen /\ Spend("hide")
  /\ frozen' = TRUE
  /\ posted' = FALSE
  /\ UNCHANGED <<serverVars, sessionVars, auth, bootstrap, leaving, had, pageVars, submit, refresh>>

\* pageshow: the layout asks again who is signed in; meanwhile the guard shows a
\* spinner, which unmounts the page.
Show ==
  /\ frozen /\ bootstrap = NoBootstrap
  /\ frozen' = FALSE
  /\ InitializeAuth
  /\ runtimeError' = FALSE
  /\ UNCHANGED <<serverVars, sessionVars, leaving, posted, route, load, pageData, refresh, budget>>
  /\ submit' = Orphaned(Noticed("other"))
  /\ Rederive

\* handleLogin of the auth page; the server answers with a new session.
Login(u) ==
  /\ route = "auth" /\ auth.user = Null /\ ~auth.loading /\ ~auth.failed /\ auth.started /\ ~frozen
  /\ Spend("login")
  /\ holders' = Append(holders, u)
  /\ cookie' = Len(holders')
  /\ valid' = valid \union {cookie'}
  /\ had' = {cookie'}
  /\ auth' = [auth EXCEPT !.user = u]
  /\ load' = "load" /\ UNCHANGED <<route, pageData>>
  /\ cache' = Sent(Invalidated(cache, Version), "load", cookie', Version)
  /\ UNCHANGED <<serverVars, bootstrap, leaving, posted, frozen, runtimeError, refresh>>
  /\ submit' = Orphaned(Noticed("session"))
  /\ Rederive

\* handleLogout of the header: whatever becomes of the request, the tab signs out.
ClickLogout ==
  /\ Mounted /\ ~frozen /\ ~leaving /\ Spend("logout")
  /\ leaving' = TRUE
  /\ UNCHANGED <<serverVars, sessionVars, auth, bootstrap, posted, frozen, had, pageVars, submit, refresh>>

FinishLogout ==
  /\ leaving /\ ~frozen
  /\ leaving' = FALSE
  /\ \/ cookie' = 0 /\ valid' = valid \ {cookie}
     \/ UNCHANGED <<cookie, valid>>
  /\ SignOut
  /\ runtimeError' = FALSE
  /\ UNCHANGED <<serverVars, holders, bootstrap, posted, frozen, pageData, refresh, budget>>
  /\ submit' = Orphaned(Noticed("session"))
  /\ Rederive

-----------------------------------------------------------------------------
(* Requests for the voting state.                                          *)

\* The server answers with the state as it is now, a refusal when the session is
\* not valid any more, or an answer that is lost or an error.
Serve(c) ==
  LET r == cache.request[c]
      u == HolderOf(r.session)
      reply == IF u = Null THEN [kind |-> "unauthorized", state |-> Null]
               ELSE [kind |-> "state", state |-> VotingStateOf(u)]
  IN /\ r.state = "sent"
     /\ \/ cache' = Answered(cache, c, reply) /\ UNCHANGED submit
        \/ cache' = Answered(cache, c, [kind |-> "lost", state |-> Null]) /\ Noticing("other")
     /\ UNCHANGED <<serverVars, sessionVars, tabVars, route, load, pageData, runtimeError,
                    voting, expired, refresh, budget>>

\* The tab is told. apiFetch signs out on 401 before anybody else looks at the
\* answer; then the cache settles, and a load that awaits the fetch completes.
Settled(c) ==
  LET a == cache.request[c].answer
      signsOut == a.kind = "unauthorized"
      before == IF signsOut THEN Invalidated(cache, Version) ELSE cache
      result == ResultOf(before, c, a.state, a.kind = "state")
      leaves == signsOut /\ auth.started /\ ~auth.failed
  IN [signsOut |-> signsOut,
      leaves |-> leaves,
      result |-> result,
      slot |-> Resolved(before, c, a.state, a.kind = "state"),
      load |-> IF leaves \/ load = c THEN Null ELSE load,
      route |-> IF leaves THEN "auth" ELSE IF load = c THEN "voting" ELSE route,
      data |-> IF load = c /\ ~leaves THEN [state |-> result, error |-> result = Null] ELSE pageData]

Delivering(c) ==
  /\ cache.request[c].state = "answered" /\ ~frozen
  /\ auth' = IF Settled(c).signsOut THEN SignedOut ELSE auth
  /\ had' = IF Settled(c).signsOut THEN {cookie} ELSE had
  /\ route' = Settled(c).route
  /\ UNCHANGED <<serverVars, sessionVars, bootstrap, leaving, posted, frozen, budget>>

KeepLoad(d) == cache' = d.slot /\ load' = d.load /\ pageData' = d.data

\* invalidate('app:voting') runs the load of the page the tab is on.
ReloadPage(d) ==
  IF d.route = "voting" THEN StartLoad(d.slot, d.data) ELSE KeepLoad(d)

DeliverLoad ==
  /\ Delivering("load")
  /\ KeepLoad(Settled("load"))
  /\ runtimeError' = (runtimeError /\ Mounted')
  /\ UNCHANGED refresh
  /\ submit' = Orphaned(IF Settled("load").signsOut THEN Noticed("session") ELSE submit)
  /\ Rederive

-----------------------------------------------------------------------------
(* Submitting a ballot (submit and submitVoteWithReconciliation).          *)

NoSubmission ==
  [phase |-> "idle", election |-> Null, user |-> Null, session |-> 0, votes |-> {},
   answer |-> "none", taken |-> FALSE, told |-> "nothing", orphan |-> FALSE, event |-> "none"]

\* The toast; what remains of the submission is history.
Ended(s, told) ==
  [NoSubmission EXCEPT !.election = s.election, !.user = s.user, !.event = s.event, !.taken = s.taken,
                         !.told = told]

ClickSubmit ==
  /\ ~frozen /\ Ballot # Null /\ submit.phase = "idle" /\ Spend("submit")
  /\ SubmitOffered(voting, Ballot.positions, IsSubmitting)
  /\ submit' = [NoSubmission EXCEPT
       !.phase = "posting", !.election = Ballot.election, !.user = auth.user,
       !.session = cookie, !.votes = SelectedVotes(voting),
       !.event = IF HolderOf(cookie) # auth.user THEN "session" ELSE "none"]
  /\ runtimeError' = FALSE
  /\ UNCHANGED <<serverVars, sessionVars, tabVars, route, cache, load, pageData, voting, expired, refresh>>

\* The form takes one candidate for each of its positions (Voting models the cast).
FitsForm(submission, e) ==
  LET positions == StepperPositions(form[e])
  IN /\ {v.position : v \in submission} = IdsOf(positions)
     /\ \A v \in submission, i \in DOMAIN positions :
          v.position = positions[i].id => v.candidate \in positions[i].options

\* The server handles the request, and its answer arrives or is lost; or the
\* request itself is lost.
ServeSubmission ==
  /\ submit.phase = "posting"
  /\ LET u == HolderOf(submit.session)
         answer == IF u = Null THEN "unauthorized"
                   ELSE IF submit.election \in OpenElections /\ ~HasVoted(u, submit.election)
                           /\ FitsForm(submit.votes, submit.election)
                   THEN "accepted" ELSE "refused"
     IN \/ /\ counted' = IF answer = "accepted" THEN counted \union {<<u, submit.election>>} ELSE counted
           /\ submit' \in {[submit EXCEPT !.phase = "posted", !.taken = (answer = "accepted"), !.answer = a] : a \in {answer, "lost"}}
        \/ /\ submit' = [submit EXCEPT !.phase = "posted", !.answer = "lost"]
           /\ UNCHANGED counted
  /\ UNCHANGED <<status, form, sessionVars, tabVars, pageVars, refresh, budget>>

\* Whatever the answer, the voting state is read again.
DeliverSubmission ==
  /\ submit.phase = "posted" /\ ~frozen
  /\ LET signsOut == submit.answer = "unauthorized"
         slot == IF signsOut THEN Invalidated(cache, Version) ELSE cache
         leaves == signsOut /\ auth.started /\ ~auth.failed
     IN /\ auth' = IF signsOut THEN SignedOut ELSE auth
        /\ had' = IF signsOut THEN {cookie} ELSE had
        /\ cache' = Sent(slot, "submit", cookie, Version)
        /\ route' = IF leaves THEN "auth" ELSE route
        /\ load' = IF leaves THEN Null ELSE load
  /\ submit' = Orphaned([submit EXCEPT
       !.phase = IF submit.answer = "accepted" THEN "confirming" ELSE "reconciling",
       !.event = IF submit.answer = "unauthorized" THEN "session" ELSE @])
  /\ runtimeError' = (runtimeError /\ Mounted')
  /\ UNCHANGED <<serverVars, sessionVars, bootstrap, leaving, posted, frozen, pageData, refresh, budget>>
  /\ Rederive

\* Mutant: a lost answer counts as a failure without asking the server.
NeverReconciled(result, e) == FALSE

\* After a failed request: the ballot was counted all the same.
Reconciled(result, e) == result # Null /\ HasVotedIn(result, e)

\* The voting state has been read again: the submission has failed, or the page is
\* loaded anew before the voter is told of the success.
DeliverReconciliation ==
  LET d == Settled("submit")
      failed == submit.phase = "reconciling" /\ ~Reconciled(d.result, submit.election)
      noticed == IF d.signsOut THEN Noticed("session") ELSE submit
  IN /\ submit.phase \in {"confirming", "reconciling"}
     /\ Delivering("submit")
     /\ IF failed THEN KeepLoad(d) ELSE ReloadPage(d)
     /\ submit' = IF failed
                  THEN Ended(noticed, "failure")
                  ELSE Orphaned([noticed EXCEPT !.phase = "loading"])
     /\ runtimeError' = (Mounted' /\ (runtimeError \/ (failed /\ ~submit.orphan)))
     /\ UNCHANGED refresh
     /\ Rederive

FinishSubmission ==
  /\ submit.phase = "loading" /\ load = Null /\ ~frozen
  /\ submit' = Ended(submit, "success")
  /\ UNCHANGED <<serverVars, sessionVars, tabVars, pageVars, refresh, budget>>

-----------------------------------------------------------------------------
(* The countdown (autoRefresh and refreshExpiredElectionState).            *)

NoRefresh == [phase |-> "idle", election |-> Null, again |-> FALSE]

\* The browser's clock has passed the time the page counts down to.
CountdownZero ==
  /\ CountdownTarget # Null /\ ~expired /\ ~frozen /\ refresh.phase = "idle" /\ Spend("countdown")
  /\ expired' = TRUE
  /\ refresh' = [phase |-> "fetching", election |-> CountdownTarget[2], again |-> FALSE]
  /\ cache' = Sent(cache, "refresh", cookie, Version)
  /\ Noticing("other")
  /\ UNCHANGED <<serverVars, sessionVars, tabVars, route, load, pageData, runtimeError, voting>>

\* `again' says that the election is still open by the server's clock, so the
\* state is read once more a second later, and only once.
DeliverRefresh ==
  LET d == Settled("refresh")
  IN /\ refresh.phase \in {"fetching", "fetching again"}
     /\ Delivering("refresh")
     /\ ReloadPage(d)
     /\ refresh' = [refresh EXCEPT
          !.phase = "loading",
          !.again = /\ refresh.phase = "fetching" /\ refresh.election # Null
                    /\ d.result # Null /\ d.result.open = refresh.election]
     /\ runtimeError' = (runtimeError /\ Mounted')
     /\ submit' = Orphaned(IF d.signsOut THEN Noticed("session") ELSE submit)
     /\ Rederive

FinishRefresh ==
  /\ refresh.phase = "loading" /\ load = Null /\ ~frozen
  /\ refresh' = IF refresh.again THEN [refresh EXCEPT !.phase = "waiting"] ELSE NoRefresh
  /\ UNCHANGED <<serverVars, sessionVars, tabVars, pageVars, submit, budget>>

\* Mutant: the page looks only once.
RefreshOnce ==
  /\ refresh.phase = "waiting" /\ ~frozen
  /\ refresh' = NoRefresh
  /\ UNCHANGED <<serverVars, sessionVars, tabVars, pageVars, submit, budget>>

RefreshAgain ==
  /\ refresh.phase = "waiting" /\ ~frozen
  /\ refresh' = [refresh EXCEPT !.phase = "fetching again", !.again = FALSE]
  /\ cache' = Sent(cache, "refresh", cookie, Version)
  /\ Noticing("other")
  /\ UNCHANGED <<serverVars, sessionVars, tabVars, route, load, pageData, runtimeError, voting, expired, budget>>

-----------------------------------------------------------------------------
(* The voter.                                                              *)

FillIn ==
  /\ Ballot # Null /\ ~frozen /\ submit.phase = "idle"
  /\ voting' \in StepperMoves(voting, Ballot.positions, IsSubmitting) \ {voting}
  /\ UNCHANGED <<serverVars, sessionVars, tabVars, route, cache, load, pageData, runtimeError,
                 expired, submit, refresh, budget>>

-----------------------------------------------------------------------------

\* A tab is opened on /voting by somebody signed in, whose load runs first.
Init ==
  /\ status = [e \in ElectionIds |-> IF e \in Drafts THEN "draft" ELSE "open"]
  /\ form = [e \in ElectionIds |-> FirstForm] /\ counted = {}
  /\ holders = <<FirstUser>> /\ valid = {1} /\ cookie = 1
  /\ auth = [started |-> FALSE, user |-> Null, loading |-> TRUE, failed |-> FALSE]
  /\ bootstrap = NoBootstrap /\ leaving = FALSE /\ posted = FALSE
  /\ frozen = FALSE /\ had = {1} /\ budget \in Budgets
  /\ route = "voting" /\ load = "load"
  /\ cache = Sent(EmptySlot, "load", cookie, Version)
  /\ pageData = [state |-> Null, error |-> FALSE]
  /\ runtimeError = FALSE /\ voting = NoVoting /\ expired = FALSE
  /\ submit = NoSubmission /\ refresh = NoRefresh

Administrators ==
  \E e \in ElectionIds : CloseElection(e) \/ BackToDraft(e) \/ OpenElection(e)

Elsewhere ==
  \/ \E u \in Users, e \in ElectionIds : CastElsewhere(u, e)
  \/ LogoutElsewhere \/ RevokeSession
  \/ \E u \in Users : LoginElsewhere(u)

Session ==
  \/ Start \/ Retry \/ DeliverBootstrap \/ ReceiveLogout \/ Hide \/ Show
  \/ ClickLogout \/ FinishLogout
  \/ \E u \in Users : Login(u)

Network ==
  \/ \E c \in Callers : Serve(c)
  \/ ServeSubmission

Page ==
  \/ DeliverLoad
  \/ ClickSubmit \/ DeliverSubmission \/ DeliverReconciliation \/ FinishSubmission
  \/ CountdownZero \/ DeliverRefresh \/ FinishRefresh \/ RefreshAgain
  \/ FillIn

Next == Administrators \/ Elsewhere \/ Session \/ Network \/ Page

VotingClientSpec == Init /\ [][Next]_vars

SubmissionSteps ==
  Serve("submit") \/ ServeSubmission \/ DeliverSubmission \/ DeliverReconciliation \/ FinishSubmission

RefreshSteps == Serve("refresh") \/ DeliverRefresh \/ FinishRefresh \/ RefreshAgain

\* The network answers every request or fails it, a browser that is not put away
\* runs the continuations and timers that are due, and delivers its messages.
\* Nobody has to click, and nothing has to change elsewhere.
Fairness ==
  /\ WF_vars(At("voting") /\ (Serve("load") \/ DeliverLoad))
  /\ WF_vars(At("voting") /\ SubmissionSteps) /\ WF_vars(At("voting") /\ RefreshSteps)
  /\ WF_vars(At("voting") /\ (Start \/ DeliverBootstrap))
  /\ WF_vars(At("voting") /\ ReceiveLogout) /\ WF_vars(At("voting") /\ FinishLogout)

-----------------------------------------------------------------------------
(* What the page takes the server for.                                     *)

StageOf == [draft |-> "preparing", open |-> "voting", closed |-> "final"]

ServerBox == INSTANCE BallotBox
               WITH Elections <- ElectionIds, Students <- Users, Ballots <- {"ballot"},
                    stage <- [e \in ElectionIds |-> StageOf[status[e]]],
                    box <- [e \in ElectionIds |-> {u \in Users : HasVoted(u, e)} \X {"ballot"}]

\* The server of this page takes and keeps ballots as the abstract ballot box does, which
\* the tables, the requests and the operator implement (Voting): the page is told of nothing
\* that they would not do. (The tab may be opened while voting is under way.)
ServerKeepsBallotBox == [][ServerBox!Next]_(ServerBox!boxVars)

-----------------------------------------------------------------------------
(* Properties.                                                             *)

ServerAnswers ==
  [kind : {"state"}, state : VotingStates] \union [kind : {"unauthorized", "lost"}, state : {Null}]

\* Shapes, and the one that ties them: the slot awaits at most the one live request.
ClientTypeOK ==
  /\ status \in [ElectionIds -> {"draft", "open", "closed"}] /\ form \in [ElectionIds -> Forms]
  /\ counted \subseteq Users \X ElectionIds
  /\ cookie \in {0} \union DOMAIN holders /\ valid \subseteq DOMAIN holders
  /\ load \in Callers \union {Null}
  /\ \A c \in Callers :
       /\ cache.request[c].answer \in ServerAnswers \union {Null}
       /\ cache.request[c].live <=> cache.inflight = c

\* "a stale value cannot re-populate the cache": a settled slot without an error holds
\* nothing older than the last forced refresh or invalidation, however late the answers
\* of the earlier fetches are (CacheEntry.fetch).
CacheFresh ==
  (cache.data # Null /\ cache.inflight = Null /\ ~cache.error) => cache.data.version >= cache.since

\* The slot holds nothing that was fetched for whoever used the browser before it was
\* last emptied, whatever was still on its way then: only for users the browser has had a
\* session of since. That is the present one, or one over whose session another tab has
\* logged in, of which no tab is told. And it holds nothing once the browser has no
\* session, unless the tab is put away or has yet to be told of the logout (the auth
\* store's transitions).
CacheIsOwn ==
  cache.data # Null =>
    /\ \E s \in had \ {0} : cache.data.voter = holders[s]
    /\ ~posted /\ ~frozen => cookie # 0

\* A voter who is told "Vote submitted" has a ballot in the box, whatever was lost on
\* the way, unless the session changed hands meanwhile (submitVoteWithReconciliation).
SubmittedMeansCounted ==
  submit.told = "success" /\ submit.event # "session" => HasVoted(submit.user, submit.election)

\* A voter who is told that the submission failed did not cast this ballot, unless
\* something else happened on the way: a second answer lost, the election closed, the
\* session over, the tab hidden, or a countdown at zero. One lost answer is not enough.
FailureMeansUncounted ==
  submit.told = "failure" /\ submit.event = "none" => ~submit.taken

\* Once told that the vote was submitted, the voter is not offered that ballot again by
\* any fetch that began earlier (load, autoRefresh, submit). A countdown's refresh that
\* overtakes the submission's own leaves the ballot on the page until it has ended.
NotOfferedAgain ==
  (submit.told = "success" /\ submit.event # "session" /\ refresh.phase = "idle" /\ Ballot # Null)
    => Ballot.election # submit.election

\* What is selected is always on the form that is shown, through every refresh and
\* every edit of the form (preserveVotingState).
SelectionsOnForm ==
  Ballot # Null =>
    /\ DOMAIN voting.choice = IdsOf(Ballot.positions)
    /\ \A i \in DOMAIN Ballot.positions :
         voting.choice[Ballot.positions[i].id] \in Ballot.positions[i].options \union {NoChoice}
    /\ voting.index \in 0..Len(Ballot.positions)

\* Nothing the page waits for is waited for in vain, unless the tab is put away: again
\* and again the submission has ended, the load is complete and the session is known.
EveryWaitEnds ==
  []<>(part # "voting" \/ frozen \/ (submit.phase = "idle" /\ load = Null /\ ~auth.loading))

\* A ballot of an election that is over when the page looks a second time leaves the
\* page (refreshExpiredElectionState).
ClosedBallotRetires ==
  \A e \in ElectionIds :
    (refresh.phase = "waiting" /\ refresh.election = e /\ status[e] = "closed")
      ~> (Ballot = Null \/ Ballot.election # e \/ status[e] # "closed" \/ frozen)

\* The slot of the cache: well formed, never older than what was asked for last, and
\* never that of a user from before it was emptied (CacheEntry, AppCache, the auth store).
CacheCorrect == ClientTypeOK /\ CacheFresh /\ CacheIsOwn

\* What a voter is told about a submission is what happened (submitVoteWithReconciliation).
OutcomeToldTruly == SubmittedMeansCounted /\ FailureMeansUncounted

\* The ballot on the page is one to be filled in: not one just cast, and with selections
\* that its form has (the voting page and its stepper).
BallotOfferedRightly == NotOfferedAgain /\ SelectionsOnForm
=============================================================================
