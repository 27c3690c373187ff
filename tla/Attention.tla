------------------------------ MODULE Attention ------------------------------
(***************************************************************************)
(* The claim that an agent is waiting for an answer, and the two memories  *)
(* behind it (engine.py, attention.py, sweep.py).  A stop that ran out on  *)
(* a question leaves its name in _awaiting_input; the scan that reads the  *)
(* screens of running rows leaves a time in _stuck, good for TTL_S.  Both  *)
(* are read outside the lock and written inside it, while a Stop or a      *)
(* Start clears a name and counts an epoch.  What the page shows of a row  *)
(* is what the last event, or the listing it took on connecting, said.     *)
(*                                                                         *)
(* Names are their places in the sorted listing.  Time is abstract: an     *)
(* observation is fresh, or old once its TTL has run out, and a row is     *)
(* young until MIN_UPTIME_S.  StopProtocol has the markers and EndByPid    *)
(* the kill at an expiry; here a stop in flight is a name in `asked`.      *)
(***************************************************************************)
EXTENDS Naturals, FiniteSets

CONSTANTS
  Names,         \* the projects, by their place in the sorted listing
  Scanner,       \* the task that runs scan_for_stuck, at most one in flight
  Expiry,        \* the task that runs expire_stops
  Wrapper,       \* the task that runs advance_wrap_ups
  Reporters,     \* which of the two that report are in this instance
  Hands,         \* the worker threads that run a Stop or a Start
  NoName,        \* of a process that is about no row
  MaxCaptures,   \* attention.MAX_CAPTURES
  FoundRows,     \* how the rows may read when the engine starts
  EndAnyway,     \* whether the stops recorded stop_policy = end_anyway
  MaxPresses,    \* how many Stops and Starts are asked for (bounds the model)
  MaxChanges     \* how often the machine or the browser changes (likewise)

Procs == {Scanner} \cup Reporters \cup Hands

ASSUME NamesAssumption == Names \subseteq Nat /\ NoName \notin Names
ASSUME ProcsAssumption ==
  /\ Expiry # Wrapper
  /\ Reporters \subseteq {Expiry, Wrapper}
  /\ Scanner \notin Reporters \cup Hands
  /\ Reporters \cap Hands = {}
ASSUME SettingsAssumption ==
  /\ MaxCaptures \in Nat /\ MaxPresses \in Nat /\ MaxChanges \in Nat
  /\ EndAnyway \in BOOLEAN
  /\ FoundRows \subseteq {"stopped", "stale", "young", "linked", "bare"}

VARIABLES
  row,       \* of each name: its state, a running one by how its screen is read
  asking,    \* of each name: awaits_answer is True of its screen
  watching,  \* whether a browser is on the event stream
  asked,     \* the names a stop marker is in the table for
  awaiting,  \* engine._awaiting_input
  stuck,     \* engine._stuck: none, or a time that is fresh or old
  epoch,     \* engine._attention_epoch
  cleared,   \* engine._attention_cleared
  page,      \* of each name: whether the page shows the claim
  pc,        \* where each process is
  subject,   \* the row a process is about
  found,     \* what a process read: of a screen, or of the row by a `get`
  seen,      \* the epoch a process read
  todo,      \* the scan: rows it has still to capture
  waiting,   \* the scan: the rows it read waiting (`stuck` in the code)
  clear,     \* the scan: the rows it read not waiting
  tell,      \* the scan: the rows that changed and are still to announce
  due,       \* expire_stops: the expired names it has still to report
  presses, changes,
  outdated,  \* history: <<p, n>> if n was cleared since p captured its screen
  crossed,   \* history: the reporters whose name was cleared since the epoch
             \* they read
  undone,    \* history: the names a claim came back to after it was cleared
  mistold    \* history: the names an event was lost of, or sent too late

machineVars  == <<row, asking, watching, changes>>
memoryVars   == <<awaiting, stuck, epoch, cleared>>
scanVars     == <<todo, waiting, clear, tell>>
historyVars  == <<outdated, crossed, undone, mistold>>
localVars    == <<subject, found, seen>>
vars == <<machineVars, asked, memoryVars, page, pc, localVars, scanVars, due,
          presses, historyVars>>

\* A running row is young, has a session link, or is bare: only the last is
\* worth a capture.
Running == {"young", "linked", "bare"}
Rows == {"stopped", "stale"} \cup Running

PCs == {"idle", "epoch", "capture", "announce", "second", "flag", "get",
        "publish", "forgetStop", "forgetStart", "claim", "typing", "spawn"}

TypeOK ==
  /\ row \in [Names -> Rows] /\ asking \in [Names -> BOOLEAN]
  /\ watching \in BOOLEAN
  /\ asked \subseteq Names /\ awaiting \subseteq Names
  /\ stuck \in [Names -> {"none", "fresh", "old"}]
  /\ epoch \in Nat /\ cleared \in [Names -> Nat]
  /\ page \in [Names -> BOOLEAN]
  /\ pc \in [Procs -> PCs]
  /\ subject \in [Procs -> Names \cup {NoName}]
  /\ \A p \in Procs : subject[p] = NoName <=> pc[p] = "idle" \/ p = Scanner
  /\ found \in [Procs -> BOOLEAN] /\ seen \in [Procs -> Nat]
  /\ todo \subseteq Names /\ waiting \subseteq Names /\ clear \subseteq Names
  /\ tell \subseteq Names /\ due \subseteq Names
  /\ presses \in Nat /\ changes \in Nat
  /\ outdated \subseteq Procs \X Names
  /\ crossed \subseteq Reporters
  /\ undone \subseteq Names /\ mistold \subseteq Names

-----------------------------------------------------------------------------
\* `attention.candidates`, the first MAX_CAPTURES of them in listing order.
Candidates == {n \in Names : row[n] = "bare"}

WorthALook == {n \in Candidates :
                 Cardinality({m \in Candidates : m < n}) < MaxCaptures}

First(S) == CHOOSE n \in S : \A m \in S : n <= m

\* `attention.standing`, and `_needs_a_person`: the two sources, as one.
Standing == {n \in Names : stuck[n] = "fresh"}
NeedsAPerson == awaiting \cup Standing

\* `derive` puts the overlay on a running row and on no other.
Shown(n) == row[n] \in Running /\ n \in NeedsAPerson

Goto(p, to) == pc' = [pc EXCEPT ![p] = to]

Published(n, claim) ==
  page' = IF watching THEN [page EXCEPT ![n] = claim] ELSE page

\* Nothing a process had read is still in its hands.
Forgotten(p) == outdated' = {e \in outdated : e[1] # p}

Captured(p, n) == outdated' = outdated \ {<<p, n>>}

\* The processes whose reading of n's screen is yet to be acted on.
Holding(n) ==
  {r \in Reporters : pc[r] \in {"second", "flag"} /\ subject[r] = n}
    \cup {p \in {Scanner} : pc[p] = "capture" /\ n \in waiting \cup clear}

Reading(n) ==
  {r \in Reporters : pc[r] \in {"capture", "second", "flag"} /\ subject[r] = n}

-----------------------------------------------------------------------------
(* The machine, and the browser.                                           *)

Change == changes < MaxChanges /\ changes' = changes + 1

\* The agent asks, or somebody answers: at the page, or at a terminal.
ScreenChanges(n) ==
  /\ Change
  /\ row[n] # "stopped"
  /\ asking' = [asking EXCEPT ![n] = ~@]
  /\ UNCHANGED <<row, watching, asked, memoryVars, page, pc, localVars,
                 scanVars, due, presses, historyVars>>

\* The link file comes, or goes.
LinkChanges(n) ==
  /\ Change
  /\ row[n] \in {"linked", "bare"}
  /\ row' = [row EXCEPT ![n] = IF @ = "bare" THEN "linked" ELSE "bare"]
  /\ UNCHANGED <<asking, watching, asked, memoryVars, page, pc, localVars,
                 scanVars, due, presses, historyVars>>

\* MIN_UPTIME_S is longer than a start takes to say that it worked.
GrowsUp(n) ==
  /\ row[n] = "young"
  /\ \A h \in Hands : subject[h] # n
  /\ row' = [row EXCEPT ![n] = "bare"]
  /\ UNCHANGED <<asking, watching, changes, asked, memoryVars, page, pc,
                 localVars, scanVars, due, presses, historyVars>>

\* The agent exits or is killed; a kill, or a look at the stopped row, takes
\* the marker.  What a kill announces is of a row that shows no claim.
Goes(n) ==
  /\ row' \in {[row EXCEPT ![n] = "stopped"], [row EXCEPT ![n] = "stale"]}
  /\ asking' = [asking EXCEPT ![n] = @ /\ row'[n] = "stale"]
  /\ asked' \in {asked, asked \ {n}}

AgentGoes(n) ==
  /\ Change
  /\ row[n] \in Running
  /\ Goes(n)
  /\ UNCHANGED <<watching, memoryVars, page, pc, localVars, scanVars, due,
                 presses, historyVars>>

TimeToLive(n) ==
  /\ stuck[n] = "fresh"
  /\ stuck' = [stuck EXCEPT ![n] = "old"]
  /\ UNCHANGED <<machineVars, asked, awaiting, epoch, cleared, page, pc,
                 localVars, scanVars, due, presses, historyVars>>

\* A page that connects takes a listing; one that goes takes what it showed.
Connects ==
  /\ Change
  /\ ~watching /\ watching' = TRUE
  /\ page' = [n \in Names |-> Shown(n)]
  /\ UNCHANGED <<row, asking, asked, memoryVars, pc, localVars, scanVars, due,
                 presses, historyVars>>

Disconnects ==
  /\ Change
  /\ watching /\ watching' = FALSE
  /\ page' = [n \in Names |-> FALSE]
  /\ UNCHANGED <<row, asking, asked, memoryVars, pc, localVars, scanVars, due,
                 presses, historyVars>>

-----------------------------------------------------------------------------
(* scan_for_stuck.                                                         *)

\* Nobody watching is nothing to do.  A look that fails is no step.
ScanLooks ==
  /\ pc[Scanner] = "idle"
  /\ watching
  /\ todo' = WorthALook
  /\ waiting' = {} /\ clear' = {} /\ tell' = {}
  /\ Goto(Scanner, "epoch")
  /\ UNCHANGED <<machineVars, asked, memoryVars, page, localVars, due, presses,
                 historyVars>>

ScanReadsEpoch ==
  /\ pc[Scanner] = "epoch"
  /\ seen' = [seen EXCEPT ![Scanner] = epoch]
  /\ Goto(Scanner, "capture")
  /\ UNCHANGED <<machineVars, asked, memoryVars, page, subject, found, scanVars,
                 due, presses, historyVars>>

ScanReads(n, answer) ==
  /\ pc[Scanner] = "capture"
  /\ todo # {} /\ n = First(todo)
  /\ todo' = todo \ {n}
  /\ waiting' = waiting \cup (IF answer THEN {n} ELSE {})
  /\ clear' = clear \cup (IF answer THEN {} ELSE {n})
  /\ Captured(Scanner, n)
  /\ UNCHANGED <<machineVars, asked, memoryVars, page, pc, localVars, tell, due,
                 presses, crossed, undone, mistold>>

ScanCaptures(n) == ScanReads(n, asking[n])

\* tmux gone for this one call reads as not waiting.
ScanCannotCapture(n) == ScanReads(n, FALSE)

\* The budget: the rest is not looked at, but the first always is.
ScanRunsOut ==
  /\ pc[Scanner] = "capture"
  /\ todo # {} /\ waiting \cup clear # {}
  /\ todo' = {}
  /\ UNCHANGED <<machineVars, asked, memoryVars, page, pc, localVars, waiting,
                 clear, tell, due, presses, historyVars>>

Discarded_Never == FALSE

Discarded == epoch # seen[Scanner]

\* What the scan believes of the rows it read waiting.
Kept == IF Discarded THEN {} ELSE waiting

\* The prune of what the TTL has let go, which a discarded sweep skips.
Pruned(n) == IF ~Discarded /\ stuck[n] = "old" THEN "none" ELSE stuck[n]

\* What is new, and what is over: the rows the page has to hear of.
Changed_BeforeThePrune ==
  {n \in Kept : stuck[n] = "none"} \cup {n \in clear : stuck[n] # "none"}

Changed ==
  {n \in Kept : Pruned(n) = "none"} \cup {n \in clear : Pruned(n) # "none"}

Recorded == [n \in Names |-> IF n \in clear THEN "none"
                             ELSE IF n \in Kept THEN "fresh" ELSE Pruned(n)]

\* One critical section.
ScanWrites ==
  /\ pc[Scanner] = "capture"
  /\ todo = {}
  /\ stuck' = Recorded
  /\ waiting' = Kept
  /\ tell' = Changed
  /\ undone' = undone \cup {n \in Kept : <<Scanner, n>> \in outdated}
  /\ Forgotten(Scanner)
  /\ Goto(Scanner, "announce")
  /\ UNCHANGED <<machineVars, asked, awaiting, epoch, cleared, page, localVars,
                 todo, clear, due, presses, crossed, mistold>>

\* The row as the scan derived it, with the claim the scan made of it.
ScanAnnounces(n) ==
  /\ pc[Scanner] = "announce"
  /\ n \in tell
  /\ tell' = tell \ {n}
  /\ Published(n, n \in waiting)
  /\ UNCHANGED <<machineVars, asked, memoryVars, pc, localVars, todo, waiting,
                 clear, due, presses, historyVars>>

ScanEnds ==
  /\ pc[Scanner] = "announce"
  /\ tell = {}
  /\ waiting' = {} /\ clear' = {}
  /\ Goto(Scanner, "idle")
  /\ UNCHANGED <<machineVars, asked, memoryVars, page, localVars, todo, tell,
                 due, presses, historyVars>>

-----------------------------------------------------------------------------
(* A stop that ended without an exit: expire_stops and advance_wrap_ups.   *)

\* The markers go in one critical section, the reports come after it.
StopsExpire(S) ==
  /\ Expiry \in Reporters
  /\ pc[Expiry] = "idle" /\ due = {}
  /\ S # {} /\ S \subseteq asked
  /\ asked' = asked \ S
  /\ due' = S
  /\ UNCHANGED <<machineVars, memoryVars, page, pc, localVars, scanVars, presses,
                 historyVars>>

About(r, n) == subject' = [subject EXCEPT ![r] = n]

\* One name at a time, in the order of a dict.
ExpiryTakesUp(n) ==
  /\ Expiry \in Reporters
  /\ pc[Expiry] = "idle"
  /\ n \in due
  /\ due' = due \ {n}
  /\ About(Expiry, n)
  /\ Goto(Expiry, "epoch")
  /\ UNCHANGED <<machineVars, asked, memoryVars, page, found, seen, scanVars,
                 presses, historyVars>>

\* A wrap up's exit was sent, which is only announced, or was refused.  One
\* that a Stop is typing into is not the sweep's to move.
WrapUpMovesOn(n) ==
  /\ Wrapper \in Reporters
  /\ pc[Wrapper] = "idle"
  /\ n \in asked
  /\ \A h \in Hands : ~(pc[h] = "typing" /\ subject[h] = n)
  /\ About(Wrapper, n)
  /\ \/ Goto(Wrapper, "get") /\ UNCHANGED asked
     \/ Goto(Wrapper, "epoch") /\ asked' = asked \ {n}
  /\ UNCHANGED <<machineVars, memoryVars, page, found, seen, scanVars, due,
                 presses, historyVars>>

ReportReadsEpoch(r) ==
  /\ pc[r] = "epoch"
  /\ seen' = [seen EXCEPT ![r] = epoch]
  /\ crossed' = crossed \ {r}
  /\ Goto(r, "capture")
  /\ UNCHANGED <<machineVars, asked, memoryVars, page, subject, found, scanVars,
                 due, presses, outdated, undone, mistold>>

\* A second look follows a question at an expiry whose policy is end_anyway,
\* if there is an agent to end.
ReportCaptures(r) ==
  /\ pc[r] = "capture"
  /\ \/ ~asking[subject[r]] /\ Goto(r, "get")
     \/ asking[subject[r]] /\ Goto(r, "flag")
     \/ /\ asking[subject[r]] /\ EndAnyway /\ r = Expiry
        /\ Goto(r, "second")
  /\ Captured(r, subject[r])
  /\ UNCHANGED <<machineVars, asked, memoryVars, page, localVars, scanVars, due,
                 presses, crossed, undone, mistold>>

\* It holds, and the agent is ended: nothing is flagged, the row is announced.
SecondLookEnds(r) ==
  /\ pc[r] = "second"
  /\ asking[subject[r]] /\ row[subject[r]] \in Running
  /\ Goes(subject[r])
  /\ Goto(r, "get")
  /\ Forgotten(r)
  /\ UNCHANGED <<watching, changes, memoryVars, page, localVars, scanVars, due,
                 presses, crossed, undone, mistold>>

\* It holds, and the agent outlives the signal: announced, then reported.
SecondLookOutlived(r) ==
  /\ pc[r] = "second"
  /\ asking[subject[r]] /\ row[subject[r]] \in Running
  /\ Published(subject[r], Shown(subject[r]))
  /\ Goto(r, "flag")
  /\ UNCHANGED <<machineVars, asked, memoryVars, localVars, scanVars, due,
                 presses, historyVars>>

\* It does not hold, or the kill is refused.
SecondLookDoesNot(r) ==
  /\ pc[r] = "second"
  /\ \/ Goto(r, "get")
     \/ asking[subject[r]] /\ Goto(r, "flag")
  /\ UNCHANGED <<machineVars, asked, memoryVars, page, localVars, scanVars, due,
                 presses, historyVars>>

\* `_flag_waiting`: unless this name was cleared since the epoch was read.
StillHolds_AnyPress(r) == epoch = seen[r]

StillHolds(r) == cleared[subject[r]] <= seen[r]

ReportFlags(r) ==
  /\ pc[r] = "flag"
  /\ awaiting' = awaiting \cup (IF StillHolds(r) THEN {subject[r]} ELSE {})
  /\ undone' = undone \cup
       {n \in {subject[r]} : StillHolds(r) /\ <<r, n>> \in outdated}
  /\ Forgotten(r)
  /\ Goto(r, "get")
  /\ UNCHANGED <<machineVars, asked, stuck, epoch, cleared, page, localVars,
                 scanVars, due, presses, crossed, mistold>>

-----------------------------------------------------------------------------
(* Stop and Start.                                                         *)

\* A request, or a report, is over.
Leave(r) ==
  /\ Goto(r, "idle")
  /\ subject' = [subject EXCEPT ![r] = NoName]
  /\ found' = [found EXCEPT ![r] = FALSE]
  /\ seen' = [seen EXCEPT ![r] = 0]

Press(h, n) ==
  /\ pc[h] = "idle"
  /\ presses < MaxPresses
  /\ presses' = presses + 1
  /\ subject' = [subject EXCEPT ![h] = n]
  /\ UNCHANGED <<machineVars, asked, memoryVars, page, found, seen, scanVars,
                 due, historyVars>>

Stop(h, n) == row[n] # "stopped" /\ Press(h, n) /\ Goto(h, "forgetStop")

\* One start of a folder at a time (StartOnce).
Start(h, n) ==
  /\ row[n] \notin Running
  /\ \A g \in Hands : subject[g] = n => pc[g] \notin {"forgetStart", "spawn"}
  /\ Press(h, n)
  /\ Goto(h, "forgetStart")

\* `_forget_attention`: one critical section.
ForgetAttention(n) ==
  /\ awaiting' = awaiting \ {n}
  /\ stuck' = [stuck EXCEPT ![n] = "none"]
  /\ epoch' = epoch + 1
  /\ cleared' = [cleared EXCEPT ![n] = epoch + 1]

Forgets(h) ==
  /\ \/ pc[h] = "forgetStop" /\ Goto(h, "claim")
     \/ pc[h] = "forgetStart" /\ Goto(h, "spawn")
  /\ ForgetAttention(subject[h])
  /\ outdated' = outdated \cup (Holding(subject[h]) \X {subject[h]})
  /\ crossed' = crossed \cup Reading(subject[h])
  /\ undone' = undone \ {subject[h]}
  /\ UNCHANGED <<machineVars, asked, page, localVars, scanVars, due, presses,
                 mistold>>

\* The claim on the marker (StopProtocol), which may be a wrap up's.
StopClaims(h) ==
  /\ pc[h] = "claim"
  /\ found' = [found EXCEPT ![h] = subject[h] \in asked]
  /\ asked' = asked \cup {subject[h]}
  /\ Goto(h, "typing")
  /\ UNCHANGED <<machineVars, memoryVars, page, subject, seen, scanVars, due,
                 presses, historyVars>>

\* No agent to ask, or something else is typing: nothing is announced.
StopAsksNobody(h) ==
  /\ pc[h] = "claim"
  /\ Leave(h)
  /\ UNCHANGED <<machineVars, asked, memoryVars, page, scanVars, due, presses,
                 historyVars>>

\* The keys are out.
StopTypes(h) ==
  /\ pc[h] = "typing"
  /\ Goto(h, "get")
  /\ UNCHANGED <<machineVars, asked, memoryVars, page, localVars, scanVars, due,
                 presses, historyVars>>

\* The screen was not one to type at: the marker goes, or goes back to the
\* wrap up it was claimed from.
StopRefused(h) ==
  /\ pc[h] = "typing"
  /\ \/ asked' = asked \ {subject[h]}
     \/ found[h] /\ UNCHANGED asked
  /\ Leave(h)
  /\ UNCHANGED <<machineVars, memoryVars, page, scanVars, due, presses,
                 historyVars>>

\* The stale session is killed and a new one made; the agent may be at a
\* question at once.
StartSpawns(h) ==
  /\ pc[h] = "spawn"
  /\ row' = [row EXCEPT ![subject[h]] = "young"]
  /\ asking' \in {[asking EXCEPT ![subject[h]] = b] : b \in BOOLEAN}
  /\ Goto(h, "get")
  /\ UNCHANGED <<watching, changes, asked, memoryVars, page, localVars, scanVars,
                 due, presses, historyVars>>

\* tmux failed: whatever was there has been cleaned up, or not.
StartFails(h) ==
  /\ pc[h] = "spawn"
  /\ \/ Goes(subject[h])
     \/ UNCHANGED <<row, asking, asked>>
  /\ Leave(h)
  /\ UNCHANGED <<watching, changes, memoryVars, page, scanVars, due, presses,
                 historyVars>>

-----------------------------------------------------------------------------
(* What follows every one of them: `get`, and the event it becomes.        *)

Gets(p) ==
  /\ pc[p] = "get"
  /\ found' = [found EXCEPT ![p] = Shown(subject[p])]
  /\ asked' = {n \in asked : n # subject[p] \/ row[n] # "stopped"}
  /\ Goto(p, "publish")
  /\ UNCHANGED <<machineVars, memoryVars, page, subject, seen, scanVars, due,
                 presses, historyVars>>

\* MachineUnreadable: no event is sent.
CannotGet(p) ==
  /\ pc[p] = "get"
  /\ mistold' = mistold \cup {subject[p]}
  /\ Leave(p)
  /\ UNCHANGED <<machineVars, asked, memoryVars, page, scanVars, due, presses,
                 outdated, crossed, undone>>

\* Out of the lock: what was read may be over by the time it is said.
Publishes(p) ==
  /\ pc[p] = "publish"
  /\ Published(subject[p], found[p])
  /\ mistold' = mistold \cup {n \in {subject[p]} : found[p] # Shown(n)}
  /\ Leave(p)
  /\ UNCHANGED <<machineVars, asked, memoryVars, scanVars, due, presses,
                 outdated, crossed, undone>>

-----------------------------------------------------------------------------
Init ==
  /\ row \in [Names -> FoundRows]
  /\ asking \in [Names -> BOOLEAN]
  /\ \A n \in Names : asking[n] => row[n] # "stopped"
  /\ watching \in BOOLEAN
  /\ asked = {} /\ awaiting = {}
  /\ stuck = [n \in Names |-> "none"]
  /\ epoch = 0 /\ cleared = [n \in Names |-> 0]
  /\ page = [n \in Names |-> FALSE]
  /\ pc = [p \in Procs |-> "idle"]
  /\ subject = [p \in Procs |-> NoName]
  /\ found = [p \in Procs |-> FALSE]
  /\ seen = [p \in Procs |-> 0]
  /\ todo = {} /\ waiting = {} /\ clear = {} /\ tell = {} /\ due = {}
  /\ presses = 0 /\ changes = 0
  /\ outdated = {} /\ crossed = {} /\ undone = {} /\ mistold = {}

World ==
  \/ \E n \in Names : \/ ScreenChanges(n) \/ LinkChanges(n) \/ GrowsUp(n)
                      \/ AgentGoes(n) \/ TimeToLive(n)
  \/ Connects \/ Disconnects

Scan ==
  \/ ScanLooks \/ ScanReadsEpoch \/ ScanRunsOut \/ ScanWrites \/ ScanEnds
  \/ \E n \in Names : \/ ScanCaptures(n) \/ ScanCannotCapture(n)
                      \/ ScanAnnounces(n)

Expire ==
  \/ \E S \in SUBSET asked : StopsExpire(S)
  \/ \E n \in Names : ExpiryTakesUp(n)

Report(r) ==
  \/ ReportReadsEpoch(r) \/ ReportCaptures(r)
  \/ SecondLookEnds(r) \/ SecondLookOutlived(r) \/ SecondLookDoesNot(r)
  \/ ReportFlags(r) \/ Gets(r) \/ CannotGet(r) \/ Publishes(r)

Hand(h) ==
  \/ Forgets(h)
  \/ StopClaims(h) \/ StopAsksNobody(h) \/ StopTypes(h) \/ StopRefused(h)
  \/ StartSpawns(h) \/ StartFails(h)
  \/ Gets(h) \/ CannotGet(h) \/ Publishes(h)

Next ==
  \/ World
  \/ Scan
  \/ Expire
  \/ \E n \in Names : WrapUpMovesOn(n)
  \/ \E r \in Reporters : Report(r)
  \/ \E h \in Hands : Hand(h) \/ \E n \in Names : Stop(h, n) \/ Start(h, n)

Spec == Init /\ [][Next]_vars

(***************************************************************************)
(* Fairness.  The sweep starts a scan every second that one is not already *)
(* in flight, and every tmux call is bounded by _CALL_TIMEOUT_S, so a scan *)
(* that has begun ends; a screen that is read again and again is one day   *)
(* read without tmux failing.  A wait that is over is expired by the next  *)
(* tick, and a request that has begun is a thread that runs.  The budget   *)
(* may cut every scan after its first row.                                 *)
(***************************************************************************)
Fairness ==
  /\ WF_vars(ScanLooks) /\ WF_vars(ScanReadsEpoch)
  /\ WF_vars(ScanWrites) /\ WF_vars(ScanEnds)
  /\ \A n \in Names : SF_vars(ScanCaptures(n)) /\ WF_vars(ScanAnnounces(n))
  /\ WF_vars(Expire)
  /\ \A r \in Reporters : WF_vars(Report(r))
  /\ \A h \in Hands : WF_vars(Hand(h))

FairSpec == Spec /\ Fairness

-----------------------------------------------------------------------------
(* What is promised.                                                       *)

\* A claim that a Stop or a Start cleared does not come back on a screen that
\* was captured before it did (#182, #410): not by the scan, which drops its
\* whole batch, nor by a report, which asks about its own name.
NoClaimOutlivesItsClear == undone = {}

\* What a report saw is not thrown away for somebody else's press (#430): if
\* nobody cleared its own name since it read the epoch, its flag is set.
ReportOutlivesOthersPresses ==
  [][\A r \in Reporters :
       pc[r] = "flag" /\ pc'[r] # "flag" /\ r \notin crossed
         => subject[r] \in awaiting']_vars

\* A row nobody has a link to, whose agent stays at a question, first in the
\* order of those the scan reads, and watched.
LeftWaiting(n) ==
  /\ watching
  /\ n \in WorthALook /\ n = First(WorthALook)
  /\ asking[n]
  /\ n \notin mistold

\* The person holding the phone gets to see it: whatever stops, starts and
\* expiries come between, whatever the budget cuts and the TTL drops (#100,
\* #218), the page comes to show the claim as long as the question stands.
QuestionReachesThePage ==
  \A n \in Names : <>[]LeftWaiting(n) => []<>page[n]

\* A running row whose prompt was answered stops saying so with the next scan
\* that reads its screen, nothing else being under way (attention.scan:
\* removed, rather than left to expire).  It does not hold: `_awaiting_input`
\* keeps a name flagged at an expiry (the README, "Known disagreements").
AnsweredIsForgotten ==
  [][/\ ScanWrites /\ ~Discarded /\ due = {}
     /\ \A p \in Procs \ {Scanner} : pc[p] = "idle"
     => \A n \in clear : ~asking[n] => ~Shown(n)']_vars
=============================================================================
