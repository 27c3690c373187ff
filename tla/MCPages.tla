------------------------------ MODULE MCPages ------------------------------
(* The two documents that listen to the bus, on small instances: the       *)
(* settings page with its plugin card (PluginPage), or the page with the   *)
(* list (Listing).  Which of them is open is chosen once: they are two     *)
(* documents with a stream each, and share nothing in the browser.         *)
EXTENDS PluginPage

CONSTANTS MaxChanges, MaxAsks, MaxBreaks, MaxFetches

VARIABLES
  document,     \* which is open
  listUnsent, listSubscribed, listScheduled, listQueue, listed,
  version, announcing, told, closed, connected, reopen, strip, fetches,
  generation, held, refreshQueued, excused, heardSince, asks, breaks

listVars ==
  <<listUnsent, listSubscribed, listScheduled, listQueue, listed,
    version, announcing, told, closed, connected, reopen, strip, fetches,
    generation, held, refreshQueued, excused, heardSince, asks, breaks>>

List == INSTANCE Listing WITH
  unsent <- listUnsent, subscribed <- listSubscribed, scheduled <- listScheduled,
  queue <- listQueue, shown <- listed

(* The settings page asks for no listing, and no row is told of to it.     *)
NoList ==
  /\ List!BusInit /\ listUnsent = {} /\ listed = 0
  /\ version = 0 /\ announcing = 0 /\ told = 0
  /\ closed = FALSE /\ connected = FALSE /\ reopen = FALSE
  /\ strip = "connecting"
  /\ fetches = {} /\ generation = 1
  /\ held = List!NotHeld /\ refreshQueued = FALSE
  /\ excused = FALSE /\ heardSince = FALSE
  /\ asks = 0 /\ breaks = 0

PagesInit ==
  /\ Init
  /\ \/ document = "settings" /\ NoList
     \/ document = "list" /\ List!Init

PagesNext ==
  \/ document = "settings" /\ Next /\ UNCHANGED <<document, listVars>>
  \/ document = "list" /\ List!Next /\ UNCHANGED <<document, vars>>

PagesSpec == PagesInit /\ [][PagesNext]_<<document, vars, listVars>> /\ Fairness /\ List!Fairness

(* The properties of Listing, as it states them: a listing that lands      *)
(* takes nothing back (listing.js, takeHeld).                              *)
LandingNeverGoesBack == List!LandingNeverGoesBack

(* What was asked for after the last event is what the page shows          *)
(* (listing.js, takeHeld).                                                 *)
LaterListingWins == List!LaterListingWins

(* A dead stream is never said live (listing.js, refresh; #72).            *)
SilentOnlyWhenLive == List!SilentOnlyWhenLive

(* A page whose stream stays open ends up at what was last announced       *)
(* (stream.js, the reconnect).                                             *)
ListCatchesUp == List!ListCatchesUp

(* In no run, and refuted on these instances: what stream.js:12 and :51    *)
(* say (the README, "Known disagreements").                                *)
LiveLacksNothing == List!LiveLacksNothing
DownOnlyWhenNotLive == List!DownOnlyWhenNotLive
=============================================================================
