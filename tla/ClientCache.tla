----------------------------- MODULE ClientCache -----------------------------
(***************************************************************************)
(* One slot of the browser's cache (AppCache and CacheEntry), as operators *)
(* on a record. A slot holds the last value fetched, whether the last      *)
(* fetch failed, and the requests that the parts of the page have sent for *)
(* it.                                                                     *)
(*                                                                         *)
(* The code numbers the fetches with `epoch' and compares a fetch's number *)
(* with the newest one, only ever for equality; a request here remembers   *)
(* instead whether it is still the newest (`live'). Invalidating the       *)
(* registry drops the entry, and the next reader gets a new one, so an     *)
(* invalidated slot is an empty one whose earlier requests are dead.       *)
(***************************************************************************)
EXTENDS Absence

CONSTANT Callers   \* the parts of the page that fetch the slot

NoRequest == [state |-> "none", live |-> FALSE, session |-> 0, answer |-> Null]

\* `since' is history: how far the server had come when the newest fetch began
\* or the slot was last invalidated.
EmptySlot == [data |-> Null, error |-> FALSE, inflight |-> Null, since |-> 0,
              request |-> [c \in Callers |-> NoRequest]]

Outdated(slot) == [c \in Callers |-> [slot.request[c] EXCEPT !.live = FALSE]]

\* Mutant: invalidating discards the fetches and keeps the value.
InvalidatedKeepingData(slot, version) ==
  [slot EXCEPT !.inflight = Null, !.request = Outdated(slot), !.since = version]

\* AppCache.invalidate() without a filter, which is what every change of identity
\* calls.
Invalidated(slot, version) ==
  [EmptySlot EXCEPT !.request = Outdated(slot), !.since = version]

\* Mutant: a forced fetch does not outdate the one under way.
SentWithoutEpoch(slot, c, session, version) ==
  [slot EXCEPT !.error = FALSE, !.inflight = c, !.since = version,
               !.request[c] = [state |-> "sent", live |-> TRUE, session |-> session, answer |-> Null]]

\* CacheEntry.fetch once it has decided to send: with force = true always.
Sent(slot, c, session, version) ==
  [slot EXCEPT !.error = FALSE, !.inflight = c, !.since = version,
               !.request = [Outdated(slot) EXCEPT
                              ![c] = [state |-> "sent", live |-> TRUE, session |-> session,
                                      answer |-> Null]]]

\* The server answers a request; the answer is still on its way.
Answered(slot, c, answer) ==
  [slot EXCEPT !.request[c].state = "answered", !.request[c].answer = answer]

\* Mutant: an answer is stored even when a later fetch or an invalidation has
\* overtaken it.
ResolvedUnchecked(slot, c, answer, succeeded) ==
  LET settled == [slot EXCEPT !.request[c] = NoRequest, !.inflight = Null]
  IN IF succeeded THEN [settled EXCEPT !.data = answer] ELSE [settled EXCEPT !.error = TRUE]

\* Mutant: a fetch that failed goes on being the one under way.
ResolvedLeavingInflight(slot, c, answer, succeeded) ==
  LET settled == [slot EXCEPT !.request[c] = NoRequest]
  IN IF ~slot.request[c].live THEN settled
     ELSE IF succeeded THEN [settled EXCEPT !.inflight = Null, !.data = answer]
     ELSE [settled EXCEPT !.error = TRUE]

\* The .then, .catch and .finally of a fetch.
Resolved(slot, c, answer, succeeded) ==
  LET settled == [slot EXCEPT !.request[c] = NoRequest]
  IN IF ~slot.request[c].live THEN settled
     ELSE IF succeeded THEN [settled EXCEPT !.inflight = Null, !.data = answer]
     ELSE [settled EXCEPT !.inflight = Null, !.error = TRUE]

\* What the promise of a fetch resolves to.
ResultOf(slot, c, answer, succeeded) ==
  IF slot.request[c].live /\ succeeded THEN answer ELSE Null
=============================================================================
