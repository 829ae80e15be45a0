---------------------------- MODULE ProviderPool ----------------------------
(***************************************************************************)
(* The pool of model providers (ai_client.py).  Requests that run side by    *)
(* side choose a route, put the routes that fail into cool-down, pause the    *)
(* whole pool when every route cools down, and tell an agent turn whether     *)
(* asking again would help.  A turn whose transcript a route has signed with   *)
(* calls of tools must stay with that endpoint and model.                      *)
(*                                                                             *)
(* A request is one `await` of a completion: it waits for a slot, and then for *)
(* each of its answers; choosing and marking a route happen under a lock that   *)
(* is never held across an await, so they are single steps.  What is asked and  *)
(* answered is left out: an answer is one of the ways the code tells them apart.*)
(* Every route of the pool has a key, as _build_provider_pool leaves it.         *)
(***************************************************************************)
EXTENDS Integers, FiniteSets

CONSTANTS
  RouteCount,     \* routes are 1..RouteCount, in the pool's order
  Gemini,         \* those of the primary provider
  Native,         \* those of them whose address allows the native API
  Place,          \* route -> its endpoint and model
  Chats,          \* chat completions: turns, and single questions
  Turns,          \* those made inside the scope of an agent's turn
  Visual,         \* those that may carry pictures
  Searches,       \* grounded searches
  Listenings,     \* analyses of audio and video
  SlotLimit,          \* requests in flight at a time
  Second,         \* units of time in a second
  Quota,          \* intervals a route may ask to be left alone for
  Brief,          \* the cool-down after a failure of the provider's server
  LimitPause,     \* the longest pause after a rate limit
  FaultPause,     \* the longest after a failure of a server
  HintLimit,      \* the longest wait a turn is told to retry after
  Long,           \* the cool-down after a refusal of the key or a redirect
  NativeDelays,   \* cool-downs after the failures of a native request, 0 for those without
  MaxClock,         \* bound: the time a behaviour lasts
  MaxAsks         \* bound: completions of a request's owner

Routes == 1..RouteCount
Requests == Chats \cup Searches \cup Listenings

ASSUME PoolAssumption ==
  /\ RouteCount \in Nat \ {0} /\ Gemini \subseteq Routes /\ Native \subseteq Gemini
  /\ DOMAIN Place = Routes /\ Turns \subseteq Chats /\ Visual \subseteq Chats
  /\ Second \in Nat \ {0} /\ Quota \subseteq Nat \ {0} /\ Brief \in Nat \ {0}
  /\ HintLimit \in Nat \ {0} /\ Long \in Nat /\ Long > HintLimit /\ SlotLimit \in Nat \ {0}
  /\ NativeDelays \subseteq Nat /\ LimitPause \in Nat /\ FaultPause \in Nat
  /\ MaxClock \in Nat /\ MaxAsks \in Nat /\ IsFiniteSet(Requests)
  /\ Chats \cap (Searches \cup Listenings) = {} /\ Searches \cap Listenings = {}

VARIABLES
  clock,          \* the time
  cooling,        \* route -> the time its cool-down ends
  transient,      \* route -> that time, if the failure was a passing one, or 0
  resting,        \* route -> the time until which it is not used for searches
  paused,         \* the time until which no chat is asked at all
  cursor,         \* where the next round through the pool starts
  stage,          \* request -> "idle", "queued", or the post it waits for
  tried,          \* request -> routes this completion has asked
  route,          \* request -> the one it asks now
  pictures,       \* requests whose completion carries pictures
  pin,            \* turn -> the route of its transcript, or 0
  retryAt,        \* turn -> when asking again may help, or 0
  ending,        \* history: request -> how its last completion ended
  signer,         \* history: turn -> the first route that answered with calls, or 0
  disturbed,      \* history: turns during or after whose completion another request failed
  asks            \* completions begun so far, by request

scopeVars == <<pin, retryAt, signer>>
poolVars == <<clock, cooling, transient, resting, paused, cursor, stage, tried, route, pictures,
              pin, retryAt, ending, signer, disturbed, asks>>

PoolInit ==
  /\ clock = 0
  /\ cooling = [p \in Routes |-> 0] /\ transient = [p \in Routes |-> 0]
  /\ resting = [p \in Routes |-> 0] /\ paused = 0 /\ cursor = 1
  /\ stage = [r \in Requests |-> "idle"]
  /\ tried = [r \in Requests |-> {}] /\ route = [r \in Requests |-> 0]
  /\ pictures = {}
  /\ pin = [t \in Turns |-> 0] /\ retryAt = [t \in Turns |-> 0] /\ signer = [t \in Turns |-> 0]
  /\ ending = [r \in Requests |-> "none"]
  /\ disturbed = {}
  /\ asks = [r \in Requests |-> 0]

(***************************************************************************)
(* The choice of a route.                                                   *)
(***************************************************************************)

Lesser(a, b) == IF a < b THEN a ELSE b
Greater(a, b) == IF a > b THEN a ELSE b
Least(times) == CHOOSE t \in times : \A s \in times : t <= s

\* Keys of the primary provider may share a transcript at one endpoint and model.
Compatible(p) ==
  IF p \in Gemini THEN {q \in Gemini : Place[q] = Place[p]} ELSE {p}

Pinned(r) == r \in Turns /\ pin[r] # 0

\* The routes a request may use at all, and how many of them it may try.
Eligible(r) ==
  CASE Pinned(r) -> Compatible(pin[r]) \cap (IF r \in pictures THEN Gemini ELSE Routes)
    [] ~Pinned(r) /\ r \in Chats \ pictures -> Routes
    [] OTHER -> Gemini
Limit(r) == IF Pinned(r) THEN Cardinality(Compatible(pin[r])) ELSE Cardinality(Eligible(r))

Free(r) == {p \in Routes \ tried[r] : cooling[p] <= clock}

\* The first one from the cursor on.
InTurn(routes) ==
  {p \in routes : \A q \in routes : (p - cursor) % RouteCount <= (q - cursor) % RouteCount}

Preferred(routes) == InTurn(IF routes \cap Gemini # {} THEN routes \cap Gemini ELSE routes)

\* A transcript's own route comes first, then one that can read it.
Pick(r) ==
  LET own == Free(r) \cap Compatible(pin[r])
  IN IF pin[r] \in own THEN {pin[r]} ELSE InTurn(own)

\* The route a request reserves, in a set that is empty when there is none.
Choice(r) ==
  CASE Pinned(r) -> Pick(r)
    [] ~Pinned(r) /\ r \in Chats \ pictures -> Preferred(Free(r))
    [] ~Pinned(r) /\ r \in Searches \ Chats -> InTurn({p \in Free(r) \cap Gemini : resting[p] <= clock})
    [] OTHER -> InTurn(Free(r) \cap Gemini)

(***************************************************************************)
(* Cool-downs, pauses, and hints to ask again.                              *)
(***************************************************************************)

\* A failure of one request is news to every other turn.
Disturb(r) == disturbed' = disturbed \cup (Turns \ {r})

\* A cool-down is only ever prolonged.
Cooled(p, delay) == Greater(cooling[p], clock + delay)

Mark(r, delay, retryable) ==
  LET p == route[r]
  IN /\ cooling' = [cooling EXCEPT ![p] = Cooled(p, delay)]
     /\ transient' = [transient EXCEPT ![p] = IF retryable /\ Cooled(p, delay) - clock <= HintLimit
                                              THEN Cooled(p, delay) ELSE 0]
     /\ Disturb(r)

NoMark == UNCHANGED <<cooling, transient, disturbed>>

\* Mutant: whoever runs out of routes pauses everyone.
PausedAnyway(delay) == paused' = Greater(paused, clock + Greater(Second, delay))

\* All chat pauses only if every route cools down, and then until the first is back; a
\* pause lasts a second at least.
Pause(delay) ==
  LET rest == {cooling'[p] - clock : p \in Routes}
  IN paused' = IF \A d \in rest : d > 0
               THEN Greater(paused, clock + Greater(Second, Lesser(delay, Least(rest))))
               ELSE paused

\* A turn is told the earliest time at which it may ask again, if that is soon.
Noted(r, delays) ==
  LET times == {clock + d : d \in {x \in delays : 0 <= x /\ x <= HintLimit}}
               \cup (IF retryAt[r] = 0 THEN {} ELSE {retryAt[r]})
  IN IF times = {} THEN 0 ELSE Least(times)

Note(r, delays) ==
  retryAt' = IF r \in Turns THEN [retryAt EXCEPT ![r] = Noted(r, delays)] ELSE retryAt
ForgetHint(r) == retryAt' = IF r \in Turns THEN [retryAt EXCEPT ![r] = 0] ELSE retryAt
HalfSecond == Second \div 2

\* The routes that will be back soon, among those the request may use.
CoolingSoon(r) ==
  {transient[p] - clock : p \in {q \in Eligible(r) : transient[q] = cooling[q] /\ transient[q] > clock}}

(***************************************************************************)
(* A completion begins, waits for a slot and reserves a route.              *)
(***************************************************************************)

InFlight == {r \in Requests : stage[r] \notin {"idle", "queued"}}

Ask(r, shows) ==
  /\ stage[r] = "idle" /\ asks[r] < MaxAsks
  /\ asks' = [asks EXCEPT ![r] = @ + 1]
  /\ pictures' = IF shows THEN pictures \cup {r} ELSE pictures \ {r}
  /\ tried' = [tried EXCEPT ![r] = {}]
  /\ ForgetHint(r)
  /\ disturbed' = disturbed \ {r}
  /\ LET none == Gemini = {} /\ (shows \/ r \notin Chats)
     IN stage' = [stage EXCEPT ![r] = IF none THEN "idle" ELSE "queued"]
  /\ ending' = [ending EXCEPT ![r] = "none"]
  /\ UNCHANGED <<clock, cooling, transient, resting, paused, cursor, route, pin, signer>>

Over(r, result) ==
  /\ stage' = [stage EXCEPT ![r] = "idle"]
  /\ ending' = [ending EXCEPT ![r] = result]
  /\ route' = [route EXCEPT ![r] = 0]

\* The queue was full for too long.
QueueTimeout(r) ==
  /\ stage[r] = "queued" /\ Cardinality(InFlight) >= SlotLimit
  /\ Note(r, {HalfSecond})
  /\ Over(r, "queue")
  /\ UNCHANGED <<clock, cooling, transient, resting, paused, cursor, tried, pictures, pin, signer,
                 disturbed, asks>>

HasSlot(r) == stage[r] = "queued" /\ Cardinality(InFlight) < SlotLimit

\* While the pool is paused a chat is not even queued for a route.
FindPaused(r) ==
  /\ HasSlot(r) /\ r \in Chats /\ clock < paused
  /\ Note(r, CoolingSoon(r))
  /\ Over(r, "none")
  /\ UNCHANGED <<clock, cooling, transient, resting, paused, cursor, tried, pictures, pin, signer,
                 disturbed, asks>>

\* Until the first of the routes it may use is back.
Shortest(r) ==
  IF Eligible(r) = {} THEN FaultPause ELSE Least({Greater(0, cooling[p] - clock) : p \in Eligible(r)})

\* No route is left: each has been asked, or cools down.
FindNone(r) ==
  /\ HasSlot(r) /\ (r \in Chats => paused <= clock) /\ Choice(r) = {}
  /\ UNCHANGED <<cooling, transient>>
  /\ IF r \in Chats
     THEN Pause(Shortest(r)) /\ Note(r, CoolingSoon(r))
     ELSE UNCHANGED <<paused, retryAt>>
  /\ Over(r, "none")
  /\ UNCHANGED <<clock, resting, cursor, tried, pictures, pin, signer, disturbed, asks>>

\* A route is reserved and asked.  Pictures do not go to a transcript of another provider,
\* and a native request needs a route whose address allows it.
ReserveRoute(r) ==
  /\ HasSlot(r) /\ (r \in Chats => paused <= clock)
  /\ \E p \in Choice(r) :
       /\ cursor' = (p % RouteCount) + 1
       /\ IF r \in pictures /\ p \notin Gemini
          THEN Over(r, "none") /\ UNCHANGED <<cooling, transient, resting, tried, disturbed>>
          ELSE /\ tried' = [tried EXCEPT ![r] = @ \cup {p}]
               /\ route' = [route EXCEPT ![r] = p]
               /\ IF r \in Chats \/ p \in Native
                  THEN /\ stage' = [stage EXCEPT ![r] = "first"]
                       /\ UNCHANGED <<cooling, transient, resting, ending, disturbed>>
                  ELSE /\ stage' = [stage EXCEPT ![r] =
                                      IF Cardinality(tried[r]) + 1 < Limit(r) THEN "queued" ELSE "idle"]
                       /\ UNCHANGED ending
                       /\ IF r \in Searches
                          THEN /\ resting' = [resting EXCEPT ![p] = Greater(@, clock + Long)]
                               /\ UNCHANGED <<cooling, transient, disturbed>>
                          ELSE /\ cooling' = [cooling EXCEPT ![p] = Greater(@, clock + Long)]
                               /\ transient' = [transient EXCEPT ![p] = 0]
                               /\ disturbed' = Turns
                               /\ UNCHANGED resting
  /\ UNCHANGED <<clock, paused, retryAt, pictures, pin, signer, asks>>

(***************************************************************************)
(* A chat is answered.                                                      *)
(***************************************************************************)

\* The next route, or the end of the completion.
LastTry(r) == Cardinality(tried[r]) >= Limit(r)
GoOn(r) ==
  IF LastTry(r) THEN Over(r, "none")
  ELSE /\ stage' = [stage EXCEPT ![r] = "queued"]
       /\ route' = [route EXCEPT ![r] = 0]
       /\ UNCHANGED ending

Chat(r, stages) == r \in Chats /\ stage[r] \in stages
Posts == {"first", "second", "shrunk"}
Rest == <<clock, resting, cursor, tried, pictures, pin, signer, asks>>

\* A passing failure is tried once more on the same route.
PostAgain(r) ==
  /\ Chat(r, {"first"})
  /\ stage' = [stage EXCEPT ![r] = "second"]
  /\ UNCHANGED <<cooling, transient, paused, route, retryAt, ending, disturbed>> /\ UNCHANGED Rest

\* Too large: once more with a shorter transcript, if it can be shortened.
PostShrunk(r) ==
  /\ Chat(r, {"first", "second"})
  /\ stage' = [stage EXCEPT ![r] = "shrunk"]
  /\ UNCHANGED <<cooling, transient, paused, route, retryAt, ending, disturbed>> /\ UNCHANGED Rest

\* A rate limit: the first post counts only when the route asks to be left alone for long.
RateLimited(r, delay) ==
  /\ Chat(r, Posts) /\ (stage[r] = "first" => delay > 2 * Second)
  /\ Mark(r, delay, TRUE)
  /\ Note(r, {Cooled(route[r], delay) - clock})
  /\ IF LastTry(r) THEN Pause(Lesser(delay, LimitPause)) ELSE UNCHANGED paused
  /\ GoOn(r) /\ UNCHANGED Rest

\* A passing failure of its server, the same.
ServerFails(r, delay) ==
  /\ Chat(r, Posts) /\ delay >= Brief
  /\ Mark(r, delay, TRUE)
  /\ Note(r, {Cooled(route[r], delay) - clock})
  /\ IF LastTry(r) THEN Pause(FaultPause) ELSE UNCHANGED paused
  /\ GoOn(r) /\ UNCHANGED Rest

\* A failure of the server that will not pass, with the same pause.
ServerGone(r) ==
  /\ Chat(r, Posts)
  /\ Mark(r, Brief, FALSE)
  /\ IF LastTry(r) THEN Pause(FaultPause) ELSE UNCHANGED paused
  /\ GoOn(r) /\ UNCHANGED retryAt /\ UNCHANGED Rest

\* The route is in conflict with itself or not ready.
Conflict(r) ==
  /\ Chat(r, Posts)
  /\ Mark(r, HintLimit, TRUE)
  /\ Note(r, {Cooled(route[r], HintLimit) - clock})
  /\ GoOn(r) /\ UNCHANGED paused /\ UNCHANGED Rest

\* It redirects, does not accept the key or is not there.
Denied(r) ==
  /\ Chat(r, Posts)
  /\ Mark(r, Long, FALSE)
  /\ GoOn(r) /\ UNCHANGED <<paused, retryAt>> /\ UNCHANGED Rest

\* Another key cannot repair what is refused: no hint is left.
NoHint(r) == ForgetHint(r)

\* The request itself is not accepted: a signed transcript is not sent elsewhere.
Unacceptable(r) ==
  /\ Chat(r, Posts)
  /\ IF Pinned(r) THEN NoHint(r) /\ Over(r, "refused") ELSE UNCHANGED retryAt /\ GoOn(r)
  /\ NoMark /\ UNCHANGED paused /\ UNCHANGED Rest

\* No answer, after the second post; or an answer of nothing.
Silent(r) ==
  /\ Chat(r, {"second", "shrunk"})
  /\ Note(r, {HalfSecond})
  /\ GoOn(r) /\ NoMark /\ UNCHANGED paused /\ UNCHANGED Rest

\* An error without a hint: a certificate, another status, an answer with an error in it.
Failed(r) ==
  /\ Chat(r, Posts)
  /\ GoOn(r) /\ NoMark /\ UNCHANGED <<paused, retryAt>> /\ UNCHANGED Rest

\* The provider declines: the end of the completion, whatever routes are left.
Declined(r) ==
  /\ Chat(r, Posts)
  /\ NoHint(r) /\ Over(r, "refused")
  /\ NoMark /\ UNCHANGED paused /\ UNCHANGED Rest

\* An answer, with calls of tools or without; a transcript is pinned from its first calls.
AnswerChat(r, calls) ==
  /\ Chat(r, Posts)
  /\ LET pins == r \in Turns /\ (pin[r] # 0 \/ calls)
     IN /\ pin' = IF pins THEN [pin EXCEPT ![r] = route[r]] ELSE pin
        /\ signer' = IF pins /\ signer[r] = 0 THEN [signer EXCEPT ![r] = route[r]] ELSE signer
  /\ ForgetHint(r) /\ Over(r, "answered")
  /\ NoMark /\ UNCHANGED <<clock, resting, paused, cursor, tried, pictures, asks>>

\* The turn's own timeout cancels the completion, wherever it is.
CancelAsk(r) ==
  /\ r \in Turns /\ stage[r] # "idle"
  /\ Over(r, "cancelled")
  /\ NoMark /\ UNCHANGED <<paused, retryAt>> /\ UNCHANGED Rest

\* The turn ends, and its scope with it.
LeaveScope(t) ==
  /\ stage[t] = "idle" /\ (pin[t] # 0 \/ retryAt[t] # 0)
  /\ pin' = [pin EXCEPT ![t] = 0]
  /\ retryAt' = [retryAt EXCEPT ![t] = 0]
  /\ signer' = [signer EXCEPT ![t] = 0]
  /\ UNCHANGED <<clock, cooling, transient, resting, paused, cursor, stage, tried, route,
                 pictures, ending, disturbed, asks>>

(***************************************************************************)
(* Searches and listenings, on the primary provider's own API.              *)
(***************************************************************************)

NativeAnswers(r) ==
  /\ r \in Searches \cup Listenings /\ stage[r] \in {"first", "second"}
  /\ Over(r, "answered")
  /\ NoMark /\ UNCHANGED <<paused, retryAt>> /\ UNCHANGED Rest

\* Mutant: a search that fails puts the route into cool-down for everyone.
RestForAll(r, delay) == Mark(r, delay, FALSE) /\ UNCHANGED resting

\* A search that fails takes the route out of searches only.
RestRoute(r, delay) ==
  /\ resting' = IF delay = 0 THEN resting ELSE [resting EXCEPT ![route[r]] = Greater(@, clock + delay)]
  /\ NoMark

SearchFails(r, delay) ==
  /\ r \in Searches /\ stage[r] = "first"
  /\ RestRoute(r, delay) /\ GoOn(r)
  /\ UNCHANGED <<clock, paused, cursor, tried, pictures, pin, retryAt, signer, asks>>

\* The newer interface does not know the request: the older one of the same route is asked.
OlderInterface(r) ==
  /\ r \in Listenings /\ stage[r] = "first"
  /\ stage' = [stage EXCEPT ![r] = "second"]
  /\ UNCHANGED <<cooling, transient, paused, route, retryAt, ending, disturbed>> /\ UNCHANGED Rest

ListeningFails(r, delay) ==
  /\ r \in Listenings /\ stage[r] \in {"first", "second"}
  /\ IF delay = 0 THEN NoMark ELSE Mark(r, delay, FALSE)
  /\ GoOn(r) /\ UNCHANGED <<paused, retryAt>> /\ UNCHANGED Rest

Pass ==
  /\ clock < MaxClock
  /\ clock' = clock + 1
  /\ UNCHANGED <<cooling, transient, resting, paused, cursor, stage, tried, route, pictures,
                 ending, disturbed, asks, scopeVars>>

PoolNext ==
  \/ Pass
  \/ \E r \in Requests, shows \in BOOLEAN : (shows => r \in Visual) /\ Ask(r, shows)
  \/ \E r \in Requests : QueueTimeout(r) \/ FindPaused(r) \/ FindNone(r) \/ ReserveRoute(r)
  \/ \E r \in Chats :
       \/ PostAgain(r) \/ PostShrunk(r) \/ ServerGone(r) \/ Conflict(r) \/ Denied(r)
       \/ Unacceptable(r) \/ Silent(r) \/ Failed(r) \/ Declined(r) \/ CancelAsk(r)
       \/ \E delay \in Quota \cup {Brief} : RateLimited(r, delay) \/ ServerFails(r, delay)
       \/ \E calls \in BOOLEAN : AnswerChat(r, calls)
  \/ \E t \in Turns : LeaveScope(t)
  \/ \E r \in Searches \cup Listenings :
       \/ NativeAnswers(r) \/ OlderInterface(r)
       \/ \E delay \in NativeDelays : SearchFails(r, delay) \/ ListeningFails(r, delay)

PoolSpec == PoolInit /\ [][PoolNext]_poolVars

(***************************************************************************)
(* Properties.                                                              *)
(***************************************************************************)

\* The types; no more requests are in flight than there are slots, each of them on a route
\* it counts among those it has tried, and a hint is at most a short wait away.
PoolTypeOK ==
  /\ clock \in 0..MaxClock /\ cursor \in Routes /\ paused \in Nat
  /\ cooling \in [Routes -> Nat] /\ transient \in [Routes -> Nat] /\ resting \in [Routes -> Nat]
  /\ \A p \in Routes : transient[p] <= cooling[p]
  /\ stage \in [Requests -> {"idle", "queued"} \cup Posts]
  /\ Cardinality(InFlight) <= SlotLimit
  /\ \A r \in Requests : tried[r] \subseteq Routes /\ (r \in InFlight => route[r] \in tried[r])
  /\ \A t \in Turns : pin[t] \in 0..RouteCount /\ retryAt[t] \in 0..(clock + HintLimit)
  /\ disturbed \subseteq Turns

\* From the answer that called the first tool to the end of the turn, its transcript is sent
\* only to routes that can read the signatures in it, whatever cools down meanwhile.
TranscriptStays ==
  \A t \in Turns : t \in InFlight /\ signer[t] # 0 => route[t] \in Compatible(signer[t])

\* Chat is paused only while every route cools down, up to the second a pause lasts at
\* least: that the routes for pictures, or those of one turn, are exhausted does not
\* silence the others.
PauseOnlyWhenAllCool ==
  paused > clock => \A p \in Routes : paused < cooling[p] + Second

\* A refusal is final: neither a hint left by an earlier route nor a later one makes the
\* turn ask the same again.
RefusalFinal ==
  \A t \in Turns : stage[t] = "idle" /\ ending[t] = "refused" => retryAt[t] = 0

\* A hint to ask again is worth following: unless another request has failed in the
\* meantime, by then a route the turn may use has cooled down, and the pool is not paused
\* for longer than the second a pause lasts at least.
HintUseful ==
  \A t \in Turns :
    stage[t] = "idle" /\ ending[t] = "none" /\ retryAt[t] # 0 /\ t \notin disturbed
      => /\ \E p \in Eligible(t) : cooling[p] <= retryAt[t]
         /\ paused < retryAt[t] + Second

\* Where a request goes and when it is to be asked again: a transcript stays with the
\* routes that can read it, chat is paused only when every route cools down, nothing
\* is asked again after a refusal, and a hint is worth following (ai_client.py:426-469,
\* 1767-1780).
RoutesSound == PoolTypeOK /\ TranscriptStays /\ PauseOnlyWhenAllCool /\ RefusalFinal /\ HintUseful

\* Searches have quotas of their own: one that fails does not delay a chat on its route.
SearchSparesChat ==
  [][\A r \in Searches : stage[r] = "first" /\ stage'[r] # "first" => cooling' = cooling]_poolVars
=============================================================================
