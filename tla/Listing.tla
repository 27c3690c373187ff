------------------------------ MODULE Listing ------------------------------
(***************************************************************************)
(* The page's list (web/listing.js) and the stream that keeps it current   *)
(* (web/stream.js): one row, the listings asked for and not yet landed,    *)
(* the events held for them, and the life of the EventSource.              *)
(*                                                                         *)
(* A row is known by how often it has changed: 0 is a folder not created   *)
(* yet.  Most changes are announced, by a `get` and a publish with no lock *)
(* around them; an agent that exits by itself announces nothing.           *)
(***************************************************************************)
EXTENDS EventBus, FiniteSets

CONSTANTS
  MaxChanges,   \* bound: changes of the row
  MaxAsks,      \* bound: listings a person, a tab or a wait asks for
  MaxBreaks,    \* bound: connections that go, or are refused
  MaxFetches    \* bound: listings in flight at once

VARIABLES
  version,      \* how often the row has changed
  announcing,   \* announcements begun whose `get` is still to come
  unsent,       \* what `get` read and nobody has published yet
  closed,       \* the EventSource gave up; neither closed nor subscribed, it
                \* is connecting
  connected,    \* this EventSource has been open before
  reopen,       \* `reopenTimer` is set
  strip,        \* what the page says of the stream: `data-stream`
  fetches,      \* listings asked for and not landed
  generation,   \* `listingGeneration`
  held,         \* `seenDuringFetch`, of this row
  refreshQueued,
  shown,        \* the row as it is listed; 0 where it is not
  told,         \* history: the last change that was published
  excused,      \* history: the page lacks something that nothing will bring it,
                \* unless a listing is asked for
  heardSince,   \* history: an event arrived since the last listing was asked
  asks, breaks  \* bounds

serverVars == <<version, announcing, unsent, told>>
streamVars == <<closed, connected, reopen>>
listVars   == <<fetches, generation, held, refreshQueued, shown>>
vars == <<serverVars, busVars, streamVars, strip, listVars, excused, heardSince, asks, breaks>>

NotHeld == [generation |-> 0, row |-> 0]

Asked(g) == [generation |-> g, at |-> "asked", row |-> 0, fresh |-> TRUE]

(* `boot`: a stream that connects, and a listing asked for beside it.      *)
Init ==
  /\ version \in {0, 1} /\ announcing = 0 /\ unsent = {}
  /\ BusInit
  /\ closed = FALSE /\ connected = FALSE /\ reopen = FALSE
  /\ strip = "connecting"
  /\ fetches = {Asked(1)} /\ generation = 1
  /\ held = NotHeld /\ refreshQueued = FALSE /\ shown = 0
  /\ told = 0 /\ excused = FALSE /\ heardSince = FALSE
  /\ asks = 0 /\ breaks = 0

-----------------------------------------------------------------------------
(* The server                                                              *)

Changes ==
  /\ version < MaxChanges
  /\ version' = version + 1
  /\ announcing' \in IF version = 0 THEN {1} ELSE {announcing, announcing + 1}
  /\ UNCHANGED <<unsent, told, busVars, streamVars, strip, listVars,
                 excused, heardSince, asks, breaks>>

Gets ==
  /\ announcing > 0
  /\ announcing' = announcing - 1
  /\ unsent' = unsent \cup {version}
  /\ UNCHANGED <<version, told, busVars, streamVars, strip, listVars,
                 excused, heardSince, asks, breaks>>

(* Something told is lost: no listing already read makes it good.          *)
Loses(lost) ==
  fetches' = IF lost THEN {[f EXCEPT !.fresh = @ /\ f.at = "asked"] : f \in fetches}
             ELSE fetches

(* What is lost before the first open of an EventSource, or on a queue that*)
(* is full, is made good by no listing that the page asks for itself.      *)
Excuses(lost) == excused' = (excused \/ lost)

Publish(row) ==
  /\ row \in unsent
  /\ unsent' = unsent \ {row}
  /\ Published(row)
  /\ told' = IF row > told THEN row ELSE told
  /\ Loses(~subscribed)
  /\ Excuses(~subscribed /\ (closed \/ ~connected))
  /\ UNCHANGED <<version, announcing, streamVars, strip, generation, held,
                 refreshQueued, shown, heardSince, asks, breaks>>

Deliver ==
  /\ Delivers
  /\ Loses(~Fits)
  /\ Excuses(~Fits)
  /\ UNCHANGED <<serverVars, streamVars, strip, generation, held, refreshQueued,
                 shown, heardSince, asks, breaks>>

(* `GET /api/projects`: the row as it is when the server looks at it; or   *)
(* the machine, or the answer, cannot be read, or the token is not taken.  *)
Answers(f) ==
  /\ f \in fetches /\ f.at = "asked"
  /\ \E at \in {"read", "unreadable", "refused"} :
       fetches' = (fetches \ {f}) \cup
         {[f EXCEPT !.at = at, !.row = IF at = "read" THEN version ELSE 0]}
  /\ UNCHANGED <<serverVars, busVars, streamVars, strip, generation, held,
                 refreshQueued, shown, excused, heardSince, asks, breaks>>

(* The network: the request, or its answer, is lost.                       *)
NoAnswer(f) ==
  /\ breaks < MaxBreaks /\ breaks' = breaks + 1
  /\ f \in fetches /\ f.at \in {"asked", "read"}
  /\ fetches' = (fetches \ {f}) \cup {[f EXCEPT !.at = "unreachable", !.row = 0]}
  /\ UNCHANGED <<serverVars, busVars, streamVars, strip, generation, held,
                 refreshQueued, shown, excused, heardSince, asks>>

-----------------------------------------------------------------------------
(* The list                                                                *)

(* `refresh` up to its await, over the listings already in flight.         *)
RefreshOver(inFlight) ==
  /\ Cardinality(inFlight) < MaxFetches
  /\ generation' = generation + 1
  /\ fetches' = inFlight \cup {Asked(generation + 1)}
  /\ heardSince' = FALSE

Refresh == RefreshOver(fetches)

(* What an event is held for: a listing that was asked for before it came. *)
Holds(row) ==
  held' = IF fetches # {} THEN [generation |-> generation, row |-> row] ELSE held

(* The last that comes is not the last that was told: an older `get` was   *)
(* published after it, or it found the queue full.                         *)
LastIsOld(old) ==
  /\ Excuses(old)
  /\ fetches' = IF old THEN {[f EXCEPT !.fresh = FALSE] : f \in fetches} ELSE fetches

(* `applySession`: a row that is listed is patched; the listing decides    *)
(* what exists.                                                            *)
EventArrives ==
  /\ Streams
  /\ Holds(Head(queue))
  /\ \/ /\ shown # 0
        /\ shown' = Head(queue)
        /\ UNCHANGED refreshQueued
     \/ /\ shown = 0
        /\ refreshQueued' = TRUE
        /\ UNCHANGED shown
  /\ heardSince' = TRUE
  /\ LastIsOld(Head(queue) < told /\ Tail(queue) = <<>> /\ scheduled = <<>>)
  /\ UNCHANGED <<serverVars, streamVars, strip, generation, asks, breaks>>

(* COALESCE_MS after the first of a burst.                                 *)
RefreshDue ==
  /\ refreshQueued
  /\ refreshQueued' = FALSE
  /\ Refresh
  /\ UNCHANGED <<serverVars, busVars, streamVars, strip, held, shown, excused, asks, breaks>>

(* Mutants: an event beats every listing in flight when it came, or none.  *)
Owed_Whatever(f) == held # NotHeld
Owed_Nothing(f) == FALSE

(* `takeHeld`: whether an event overrules this listing.                    *)
Owed(f) == held # NotHeld /\ held.generation >= f.generation

(* A mutant: readable again is live again.                                 *)
StripAfter_Live(f) ==
  CASE f.at = "read"        -> IF strip = "blind" THEN "open" ELSE strip
    [] f.at = "unreachable" -> "down"
    [] f.at = "refused"     -> strip
    [] f.at = "unreadable"  -> IF closed THEN strip ELSE "blind"

(* A listing that could be read takes `blind` away, to what the stream is; *)
(* one that could not says so, unless the stream is closed for good.       *)
StripAfter(f) ==
  CASE f.at = "read"        -> IF strip # "blind" THEN strip
                               ELSE IF subscribed THEN "open" ELSE "down"
    [] f.at = "unreachable" -> "down"
    [] f.at = "refused"     -> strip
    [] f.at = "unreadable"  -> IF closed THEN strip ELSE "blind"

(* `refresh` from its await on.  Superseded, it touches nothing.           *)
Superseded(f) == f.generation # generation

Lands(f) ==
  /\ f \in fetches /\ f.at # "asked"
  /\ fetches' = fetches \ {f}
  /\ IF Superseded(f) THEN UNCHANGED <<held, shown, strip, excused>>
     ELSE /\ held' = NotHeld
          /\ strip' = StripAfter(f)
          /\ shown' = IF f.at # "read" THEN shown
                      ELSE IF Owed(f) /\ f.row # 0 THEN held.row ELSE f.row
          /\ excused' = IF f.at = "read" THEN excused /\ ~f.fresh ELSE TRUE
  /\ UNCHANGED <<serverVars, busVars, streamVars, generation, refreshQueued,
                 heardSince, asks, breaks>>

-----------------------------------------------------------------------------
(* The stream                                                              *)

(* A mutant: an open stream is taken for a stream that caught up.          *)
AsksAgain_Never == UNCHANGED <<generation, fetches, heardSince>>

(* What a reconnect missed, a listing has.  The first open of an           *)
(* EventSource asks for nothing.                                           *)
AsksAgain ==
  IF connected THEN Refresh ELSE UNCHANGED <<generation, fetches, heardSince>>

Opens ==
  /\ ~closed
  /\ Subscribes
  /\ strip' = "open"
  /\ connected' = TRUE
  /\ AsksAgain
  /\ UNCHANGED <<serverVars, closed, reopen, held, refreshQueued, shown, excused, asks, breaks>>

Break == breaks < MaxBreaks /\ breaks' = breaks + 1

(* The network: the browser connects again by itself.                      *)
Breaks ==
  /\ Break
  /\ subscribed
  /\ Unsubscribes
  /\ Loses(queue # <<>> \/ scheduled # <<>>)
  /\ strip' = "down"
  /\ UNCHANGED <<serverVars, streamVars, generation, held, refreshQueued, shown,
                 excused, heardSince, asks>>

RetryFails ==
  /\ ~subscribed /\ ~closed
  /\ strip' = "down"
  /\ UNCHANGED <<serverVars, busVars, streamVars, listVars, excused, heardSince, asks, breaks>>

(* An answer that is not a stream: closed for good, to be opened anew by a *)
(* timer, and the listing asked why.                                       *)
IsRefused ==
  /\ Break
  /\ ~subscribed /\ ~closed
  /\ closed' = TRUE /\ reopen' = TRUE
  /\ strip' = "down"
  /\ Refresh
  /\ UNCHANGED <<serverVars, busVars, connected, held, refreshQueued, shown, excused, asks>>

(* `openStream`: a new EventSource, which has not been open before.        *)
OpenStream == closed' = FALSE /\ connected' = FALSE /\ reopen' = FALSE

TimerReopens ==
  /\ reopen
  /\ OpenStream
  /\ UNCHANGED <<serverVars, busVars, strip, listVars, excused, heardSince, asks, breaks>>

Ask == asks < MaxAsks /\ asks' = asks + 1

(* `onVisible`.                                                            *)
ComesBack ==
  /\ Ask
  /\ IF closed THEN OpenStream ELSE UNCHANGED streamVars
  /\ Refresh
  /\ UNCHANGED <<serverVars, busVars, strip, held, refreshQueued, shown, excused, breaks>>

ServerStep ==
  \/ Deliver
  \/ Gets \/ \E row \in unsent : Publish(row)
  \/ \E f \in fetches : Answers(f)

PageStep ==
  \/ EventArrives \/ RefreshDue
  \/ \E f \in fetches : Lands(f)

Next ==
  \/ Changes
  \/ ServerStep \/ PageStep
  \/ \E f \in fetches : NoAnswer(f)
  \/ Opens \/ Breaks \/ RetryFails \/ IsRefused \/ TimerReopens \/ ComesBack

(* The server publishes what it announces, delivers and answers requests,  *)
(* and the page takes what has come, its timers included (the browser      *)
(* gives up on a request that is never answered).  Nothing is assumed of   *)
(* connections.                                                            *)
Fairness == WF_vars(ServerStep) /\ WF_vars(PageStep)

Spec == Init /\ [][Next]_vars /\ Fairness

-----------------------------------------------------------------------------
(* The listing that owns the page, where it lands in this step.            *)
LandsRead(f) ==
  /\ f.at = "read" /\ ~Superseded(f)
  /\ fetches' = fetches \ {f}

(* However listings and events cross, a listing that lands takes nothing   *)
(* back: not an event that came while it was out, nor what a listing asked *)
(* for later has shown (#57: "nothing ever corrects it").                  *)
LandingNeverGoesBack ==
  [][\A f \in fetches : LandsRead(f) => shown' >= shown]_vars

(* A listing asked for after the last event is what the page shows: an     *)
(* event held for an older listing, or left behind by one that failed,     *)
(* does not hide the one report there is of an agent that exited by itself.*)
LaterListingWins ==
  [][\A f \in fetches : LandsRead(f) /\ ~heardSince => shown' = f.row]_vars

(* The strip is silent over an open stream only: whatever listings fail    *)
(* and succeed while it goes and comes, a dead one is never said live (#72).*)
SilentOnlyWhenLive == strip = "open" => subscribed

(* A page whose stream stays open ends up at what was last announced,      *)
(* whatever it missed while it was away, a row created meanwhile included  *)
(* (#57) - unless its last listing failed, a queue was full, an answer was *)
(* published late, or the loss was before an EventSource's first open.     *)
ListCatchesUp ==
  <>[](subscribed /\ ~excused) => <>[](shown >= told)

(* "So a reconnect re-fetches the listing" (stream.js:12): a page that     *)
(* says it is live, with nothing on its way, lacks nothing.  It does not   *)
(* hold: the timer's reopen asks for no listing, nor does a first open     *)
(* whose listing was read before it (the README, "Known disagreements").   *)
LiveLacksNothing ==
  strip = "open" /\ queue = <<>> /\ scheduled = <<>> /\ fetches = {} /\ ~refreshQueued
    => shown >= told

(* "`down` we are not connected" (stream.js:51).  It does not hold: a      *)
(* listing the network lost says `down` over a stream that is open, and no *)
(* listing that lands later takes it back.                                 *)
DownOnlyWhenNotLive == strip = "down" => ~subscribed
=============================================================================
