# Hitchrail in TLA+

Hitchrail is one Python process that starts, stops and watches coding agents,
one tmux session per project folder, from a page on a phone. It keeps no
registry: what a row of the listing says is derived on demand from `ps` and
tmux. What it does remember - the marker of a stop in flight, the mark of a
restart, the lock of a start - is a few dictionaries that request threads and
the sweep write under one lock, between calls to tmux that take from
milliseconds to ten seconds. That is where it is hard, and where these modules
are.

Paths below are under `src/src/hitchrail/`.

## The system, and what is here

| Part | State it keeps | Operations | What makes it correct | Here |
|---|---|---|---|---|
| Stop protocol: `engine.py`, `stopmarker.py` | `_stopping`, `_kill_held`, the marker objects | stop, Exit now, kill, the reconcile of every look | one typist per agent; no marker nobody works on; a stop that was withdrawn stays withdrawn; every stop ends | `StopProtocol` |
| Restart: `restart.py` | `pending`, `refused`, `ended` | request, advance, cancel, forget | no start after somebody ended the agent; no start owed for ever | `StopProtocol` |
| Sweep: `sweep.py`, `lifespan.py` | the two tasks in flight | advance_restarts, expire_stops, advance_wrap_ups, scan_for_stuck | never types over a request, never loses a report, outlives failures | `StopProtocol`, `EndByPid`, `Attention` |
| Ending by pid: `signals.py`, `procs.py` | a pidfd for the length of a call | signal_detached, end_anyway | what was verified is what is signalled | `EndByPid` |
| Start: `engine.py`, `ram.py` | `_starting` | start, its wait, its clean ups | one agent per folder; the lock comes back; a failed start ends nobody | `StartOnce` |
| Derivation: `derive.py`, `sessions.py` | none | look, derive | the four states, over two reads that are not one instant | the look of each module |
| Attention overlay: `attention.py`, `sweep.py` | `_stuck`, `_awaiting_input`, an epoch | scan_for_stuck, _flag_waiting, _forget_attention | no claim about a screen from before a start or a stop; a question that stands reaches the page | `Attention` |
| Event bus and streams: `events.py`, `routes_live.py` | a bounded queue per subscriber | publish, deliver, stream | a publisher never waits; a loss is not for ever | `EventBus` |
| Plugin updates: `plugin_runs.py`, `claude_ipc/plugins.py` | the run, its `seq`; the latch of the child | start, the run's thread, kill | one run, one owner; the final list covers the listing; no child outlives the server, and nobody else's is killed | `RunRecord`, `PluginUpdate` |
| The page: `web/plugins.js` | the record shown, those suspended | events, GET, POST | never goes back, ends up at the server's record | `PluginPage` |
| The page: `web/listing.js`, `web/stream.js` | listing generations, held events; the EventSource, the strip | refresh, applySession; open, error, the timer, onVisible | no listing takes back what was shown; ends up at what the server last said; never live over a dead stream | `Listing` |
| The page: `web/wait.js`, `web/stop_all.js` | deadlines, one ticker per wait | ticks | a tick never judges a wait it was not started for | planned |
| Preferences: `statefile.py`, `settings.py`, `routes_settings.py` | `_state`, and its file | load, PATCH | never in force and not on disk; what was answered stays | `Preferences` |
| Reading a screen: `claude_ipc/screen.py`, `exit_menu.py`, `agy_ipc/screen.py` | none | the readings of a pane | at rest reads as at rest, in every layout | `Screen` |
| Typing: `claude_ipc/keys.py`, `agy_ipc/keys.py`, the engine's callers, `WrapUpWatch` | the watch of a wrap up | request_stop, request_wrap_up, send_answer, observe | every key lands where a look had allowed it | `ExitKeys` |
| Discovery and roots: `discovery.py`, `roots.py`, the start's `_require_startable` | none: the tree is other people's | scan, start, create | two names are never two agents in one directory; every entry is accounted for | `Folders` |
| tmux adapter: `tmux.py` | none | subprocess calls with a timeout | - | its outcomes, where it is called |
| Configuration, CLI, HTTP, access rules | none that changes | - | - | not modelled: decided per request or once at start up, covered by unit and property tests |

How the parts meet: a request runs on a worker thread and calls the engine; the
engine calls tmux and `ps` with no lock held, and takes `_stopping_guard` for
each decision in between; the sweep runs on the event loop, awaits
`advance_restarts` and then `expire_stops` once a second, and starts
`advance_wrap_ups` and `scan_for_stuck` as tasks of their own, one of each at a
time. Every change is announced on the bus, and the page patches its listing
from it.

## The modules

### StopProtocol

One row of the listing. The engine's tables are keyed by name and no critical
section touches two names, so one row is the whole protocol.

Processes: `Threads`, the worker threads; `Ticker`, the part of the sweep that is
awaited; `Wrapper`, `advance_wrap_ups`. A step is one critical section, one look
at the machine, or one exchange with tmux: the points between which another
thread can come in. A thread that looked at the row acts on what it saw (`saw`),
which may no longer be so. This is the point of the module: `_derive` reconciles
the stop table from an old look, `stop` decides who may type in one critical
section, `kill` takes the marker out, kills, and puts it back if the kill failed.

| Code | Here |
|---|---|
| `_stopping[name]`, `_kill_held[name]` | `table`, `held` |
| a `StopMarker`, compared by identity | an element of `Markers` with `phase`, `watch`, `typing`, `withdrawn`; a marker no variable refers to is free to be made again |
| `RestartOverlay` | `pending`, `refused`, `ended` |
| `stop`: look, reconcile, claim, type, settle | `Request`, `Derive`, `ClaimNothing` / `ClaimExitNow` / `ClaimAfresh`, `PromptTyped` + `SetWatch` or `ExitTyped`, `TypingRefused`, `Settle`, `Settled` |
| `kill` | `Take`, `KillSession` (done, failed, or failed having done it), `Release` / `ReleaseFailed`, `Wipe`, then `_await_gone` as `Settle` / `Settled` again |
| `restart.request` | `RequestRestart` (the epoch), the steps of `stop`, `Mark` |
| `advance`, `_consume`, `_start` | `TickLook`, `TickDerive`, `Consume`, `RestartStarts` |
| `expire_stops` | `ExpireStop`, then `ExpiredEndsAnyway` or `ExpiredReports` |
| `advance_wrap_ups` | `WrapUpSeen`, `WrapUpClaim` / `WrapUpLost`, `ExitTyped` / `WrapUpRefused` |

`aimed` is history: whether the pane a stop types into still holds the agent it
was asked of. A sequence whose agent is gone is typed at nobody. `valid` is
history too: the restarts nobody has ended since they were pressed.

Three named constants say what the code leaves to chance, so that runs and
theorems can be stated with and without: `TypingCanOutlastWait` (a `stop_timeout`
shorter than the typing), `KillsOverlap` (two Kills of one row in flight) and
`StartOvertakes` (a whole start falls between a look and what is done with it, or
between a kill and its wipe).

`AgentExits` and `PaneCloses` are the machine: an agent may exit at any moment,
taking its session along or not, and a pane may close over an agent that
survives.

### EndByPid

The two paths that signal a process by number. A look is two steps, `ps` and then
the panes; a number is given again once its process is gone; a handle stays with
its process. `Derive`, `Open`, `VerifyPs`, `VerifyDetached`, `CheckCwd`, `Send` are
`signal_detached` in its order; `Expire` to `SecondScreen` are the two looks of
`expire_stops` under `end_anyway`, then `Open`, `VerifyPs`, `VerifyRunning` and
`SendHangup`. A refusal at any point is `Refused`, which closes the handle. The
processes are agents of this row, agents some foreign session holds, agents of
another instance with the same command line, and strangers.

`AgentsReusePids` is whether an agent started while an expiry is looking can be
given the number the expiry read. `end_anyway` pairs a number read before the
screen with a handle taken after it; nothing in the code excludes that the number
went from one agent of the row to the next in between, the kernel's pid
allocation does in practice.

### StartOnce

Starts and Kills over one or more folders: the lock, the look (in two reads), the
memory guard, the stale session closed, the spawn (made; not made and not said
so; timed out either way), the abandoned partial session, the wait, the dead
pane. `keep` is `remain-on-exit`, which is why a pane outlives its agent during a
start and not after it. `Grows` is an agent taking its memory some time after it
was started.

`StartsSlowly` is whether a start can be over before the agent it spawned is
visible in `ps`; `OtherWindows` whether a session can outlive its agent's pane.

### Attention

The claim "waiting for an answer" of a row, and the two memories behind it. Two or
more rows, since the point is what a press on one does to a reading of another:
the epoch is one counter, the scan compares the counter, a report compares the
clear of its own name.

| Code | Here |
|---|---|
| `_awaiting_input`, `_stuck` with its times | `awaiting`, `stuck` (none, fresh, or old once `TTL_S` is over) |
| `_attention_epoch`, `_attention_cleared` | `epoch`, `cleared` |
| `derive` of a running row | `row`: young (under `MIN_UPTIME_S`), linked, or bare; `Shown` is its `awaiting_input` |
| `_pane_needs_a_person` | `asking`, or False where tmux fails |
| `scan_for_stuck`: look, epoch, captures, one critical section, announcements | `ScanLooks`, `ScanReadsEpoch`, `ScanCaptures` / `ScanCannotCapture` / `ScanRunsOut`, `ScanWrites`, `ScanAnnounces` |
| `expire_stops`, `advance_wrap_ups` from the end of a stop | `StopsExpire`, `ExpiryTakesUp` or `WrapUpMovesOn`; `ReportReadsEpoch`, `ReportCaptures`, the second look, `ReportFlags` |
| `stop`, `start` around `_forget_attention` | `Stop`, `Start`, `Forgets`, then the claim or the spawn as one step each |
| `get` and `_announce`, two steps with no lock between | `Gets`, `Publishes`; `page` is what the browser last heard |

Names are their places in the sorted listing, which decides who is among the
first `MAX_CAPTURES`. `outdated` and `crossed` are history: which readings are
older than a clear of their row, and whose row was cleared since they read the
epoch. `mistold` is history of the rows an event was lost of or published late.
Start clears a row before it kills the old session and spawns; a report that reads
its epoch after that clear and its screen before the kill is not `outdated` by this
reckoning, nor by the code's. A row is young for longer than a start takes to say
that it worked.

### RunRecord, PluginUpdate

`RunRecord` is the abstract specification: one record, changed as `Begins`, `Hears`
and `Ends` allow, each change the next `seq`, each record published once at some
later time. `PluginUpdate` is how it is kept, and implements it:
`TheRecord == INSTANCE RunRecord WITH run <- ..., unsent <- ...` takes the run's
fields for the record and what threads made and have not published for `unsent`.

| Code | Here |
|---|---|
| `_state`, `_seq`, `_outcomes` | `state`, `seq`, `outcomes` |
| `PluginRuns.start`: the claim, the publish, `thread.start()` and its failure | `Post`, `Publish`, `ThreadStarts`, `ThreadCannotStart`, `StartFails` |
| `RunningChild._pid`, `_closed` | `recorded`, `closed` |
| the runner: `raise_if_closed`, `Popen`, `_set`, `communicate`, `_set(None)` | `Asks`, `Spawns`, `Shows`, `Waits`, `Clears` |
| `update_plugins`: refresh, list, row by row, list again | `Refreshed`, `Listed`, `RowLeftAlone`, `RowTaken`, `Updated`, `RowsDone`, `Classified`, `Breaks` |
| `_run`'s finally | `Finishes` |
| `RunningChild.kill` and the end of the process | `KillTakes`, `KillSignals`, `Exits` |

A process number is what it is in the code: it names a child, then nobody, then
perhaps a stranger (`StrangerTakes`). `struck` is history: whether a stranger was
signalled.

### EventBus, PluginPage

`EventBus` is the bus as one subscriber meets it: a delivery scheduled on the
loop, a queue with a size, a stream that reads it. `PluginPage` extends it and
`RunRecord` with the plugin card of the settings page. An answer and an event may
cross; `onPluginRecord` is two steps with an await between (`Arrives`,
`Resumes`); a restart of the server makes a new epoch with its `seq` at nought, a
reboot a new boot id with a clock that starts again. `missed` is history: something
was lost that the page has not asked for since. What the page promises is
conditional on it, because nothing in the code sends a lost event again.

### Listing

The page with the list, over an `EventBus` of its own. One row, known by how often
it has changed; 0 is a folder not created yet.

| Code | Here |
|---|---|
| `_announce(get(...))`: two steps, no lock between | `Gets`, `Publish`; an agent that exits by itself changes the row and announces nothing |
| `refresh` to its await; `GET /api/projects`; `refresh` after it | `RefreshOver`; `Answers`, `NoAnswer`; `Lands` |
| `listingGeneration`, `seenDuringFetch`, `takeHeld` | `generation`, `held`, `Owed` |
| `applySession`, `refreshSoon` | `EventArrives`, `RefreshDue` |
| the EventSource: connecting, OPEN, CLOSED | neither, `subscribed`, `closed` |
| `open`, `error`, `scheduleReopen`, `onVisible` | `Opens`, `Breaks` / `RetryFails` / `IsRefused`, `TimerReopens`, `ComesBack` |
| `data-stream` | `strip` |

`told`, `excused` and `heardSince` are history: the last change that was published;
whether the page lacks something that no listing of its own accord will bring; and
whether an event arrived since the last listing was asked for. `LaterListingWins` is
the other half of `LandingNeverGoesBack`: a listing that gave way to every event
would keep the second and hide an exit nobody announced. The back off of the timer is
left out (it only delays), and so are the waits that call `refresh` (they are
`ComesBack` with a stream that is not closed).

### Preferences

| Code | Here |
|---|---|
| `_state`, `_guard` | `chosen`, `guard` |
| `load_state`, `settings.read_checked` on the file and its directory | `Loaded`, `Starts` |
| `PATCH /api/config`, `update` | `Request` (everything checked), `Merge`, `Writes`, `Renames`, `Applies` or `Fails` |
| the view of the answer, after the guard | `Looks`, `Reads` |
| a death between any two; people at the files | `Dies`, `OperatorEdits`, `FileEdited`, `DirectoryShared` |

`owed` is history: what each field was left at by the last request that changed it,
or "any" where one had renamed and died, or somebody touched the files. What the
code does and the model keeps: a request that changes nothing writes nothing, so a
file that was refused at start stays as it is, whatever `_next_save_words` says;
there is no fsync before the rename, and a death can leave the temporary file: the
model's disk survives the process, not the machine, and does not list temporaries.

### Screen, ExitKeys

`Screen` is the readings, as operators over a sequence of rows; a row keeps what
they tell apart (the ornament, a non-breaking space after it, dimness, the
foreground in force, the words). `ExitKeys` puts a typist and an agent at the two
ends of a terminal. The agent takes a key when it likes, draws when it likes, may
lose keys, works, asks, queues messages, and lists background work under its box;
the typist sees the last frame drawn, or a torn one, or nothing. `ClaudeDraws` and
`AgyDraws` are external: they draw what the captures under `src/tests/` show.

| Code | Here |
|---|---|
| `request_stop`: clear, settle, escape, settle, exit | `SendsClear`, `Settles`, `RequiresClear`, `SendsEscape`, `SendsExit` |
| the exit menu's wait | `LooksForMenu`, `Presses`, `Unanswered` |
| `request_wrap_up` | `LooksForQueued`, `SendsPrompt`, `SendsEnter` |
| the sweep's capture and `WrapUpWatch.observe` | `Captured`, `Observes`; `Tick` is its clock |
| `send_answer` | `AnswerLooks`, `AnswerSends` |

`moved` and `harm` are history: whether what a caller last read has changed since by
another hand than its own, and which keys landed where no look had allowed them. A
person who types into the terminal between a look and a key can always be typed
over; the properties speak of every other case. The engine's own refusals of an
answer (a row that is not running) are StopProtocol's kind and are not repeated here.

### Folders

Roots, the places in them and what is at each: nothing, a file, a directory, or a
link. A scan reads the names of a root once and looks at them one at a time
(`ReadRoot`, `LookAtEntry`), and the tree may change between any two looks
(`Change`, `RootToggles`). A start is a scan, then `RequireStartable` resolving the
name anew, `TakeDirectory`, `LookForAgent`, `Spawn`; `StartOnce` has the inside of
the last three. A create is `CheckName` and `Mkdir`. `disturbed` is history: what
changed under a scan. A folder in use is left alone by the world: nobody moves a
project from under its agent. A circle of links makes `Path.resolve` raise on
Python 3.11 and 3.12, which the route does not catch: the answer `internal_error`.
`RootsAccepted` (no root inside another) is `check_roots`, an assumption here
because it is checked before anything is served.

### Which module composes which

`StopProtocol` takes a start and a look as one step each and refers to `StartOnce`
for their steps; it takes a signal as a cancelled restart followed by an exit, and
refers to `EndByPid`; it takes an exchange of keys as one step, and refers to
`ExitKeys`. The assumptions that pass between them are the constants above.
`Attention` takes a stop in flight as a name in `asked` (`StopProtocol` has its
marker), the lock of a start as a guard (`StartOnce` has it), and the kill of a
second look as one step (`EndByPid` has it). `PluginPage` composes `EventBus` and
`RunRecord` by extension; `PluginUpdate` refines `RunRecord`, so the page may be
built on the record without the threads that keep it. `Listing` extends `EventBus`
too; `MCPages` puts it beside `PluginPage`, each with a bus of its own, as the two
documents that listen. `ExitKeys` extends `Screen`.

## Named assumptions

What the code leaves to chance is a constant, FALSE in the runs, so that runs and
theorems can be stated with and without it.

| Constant | TRUE means | Then TLC refutes |
|---|---|---|
| `TypingCanOutlastWait` | `stop_timeout` runs out while keys are going out (`sweep.py:354`) | `OneTypistPerAgent` |
| `KillsOverlap` | two Kills of one row in flight | `OneTypistPerAgent` |
| `StartOvertakes` | a start falls between a look and its use | `OneTypistPerAgent` |
| `AgentsReusePids` | a fresh agent gets the number an expiry read | `EndAnywayEndsWhoAsked` |
| `StartsSlowly` | a start is over before its agent is in `ps` | `OneAgentPerFolder` |
| `OtherWindows` | a second window keeps a session whose agent outlived its pane | `OneAgentPerFolder` |
| `NumberGoesAtOnce` | a reaped number is given away before it is cleared, or taken and not yet signalled | `KillsOnlyItsOwn` |
| `ExitsMidSpawn` | the process ends between a `Popen` and its `_set` | `NoChildOutlivesTheServer` |
| `AnswersOvertake` | a second answer is sent before the first is drawn | `AnswerOnlyToAQuestion` |
| `SlowCaptures` | time passes between a capture and its time stamp (`sweep.py:278`) | `WrapUpIsOver` |
| `QueuedLookMisses` | the look for a queued message meets a frame without a box | `WrapUpJumpsNoQueue` |
| `UnlistedTargets` | a link points at a folder whose own name is not listed (#32) | `OneAgentPerDirectory` |
| `AliasMidScan` | a second name of a directory appears while a scan reads, or its first cannot be looked at | `OneAgentPerDirectory` |

### Known disagreements

`MarkerOutlivesAgent` is a run. These are not runs of their own; each is one
constant, or one property, away from one that passes:

- `OverlappingKills`: `StopKill` with `KillsOverlap = TRUE`, four threads, four
  presses, routes stop and kill. `_kill_held` has one slot per name
  (`engine.py:1065`), though `stopmarker.py:29` says no path claims a marker while
  something types into its pane.
- `HiddenAgent`: `StartOnce` with `OtherWindows = TRUE`. `derive` looks for a detached
  agent only where the session is absent (`derive.py:208`), so the row is stale and
  Start makes the second agent `derive.py:303` warns of.
- `RoomForAll` in `StartOnce`, with two folders, two threads and room for one agent:
  two Starts pass the guard on the same memory (`engine.py:629`).
- `AnsweredIsForgotten` in `Attention`: a prompt flagged at an expiry and then
  answered is claimed until the next Stop or Start (`sweep.py:145`), where
  `attention.py:108` says the row should stop saying so.
- `ExitKeys` with `QueuedLookMisses = TRUE`: `queued_message` of a frame without a
  box reads as no queue (`keys.py:232`), where `docs/api.md:140` promises the refusal.
- `Folders` with `AliasMidScan = TRUE`: `engine.py:525` says that requiring a listed
  name closes the case of two names; it does not while the tree changes under
  the scan.
- `LiveLacksNothing` in `MCPages`: `stream.js:12` says a reconnect re-fetches the
  listing. The timer's reopen is a new EventSource, whose first open asks for
  nothing (`stream.js:107`), and nobody else asks then; nor does anybody where the
  first listing was read before the first open. What changed in between is not
  shown until something else asks.
- `DownOnlyWhenNotLive` in `MCPages`: `stream.js:51` says `down` is "we are not
  connected". A listing the network lost sets it over a stream that is open
  (`listing.js:137`), and a listing that lands later takes back `blind` only
  (`listing.js:163`).

## Runs

| Run | Expected | Shows |
|---|---|---|
| `StopKill` | pass | `OneTypistPerAgent`, `NoStrandedMarker`, `WithdrawnStaysOut`, over stop, kill, start, signal and listings with a wrap up prompt and `end_anyway` |
| `StopLiveness` | pass | `EveryStopEnds`, `EveryRestartSettles` under `FairSpec`, and `RestartOutlivesNoKill` |
| `EndByPid` | pass | `OnlyDetachedAgentsAreSignalled`, `EndAnywayEndsWhoAsked` |
| `StartOnce` | pass | `OneAgentPerFolder`, `FailedStartEndsNobody`, `LockedWhileStarting` |
| `Attention` | pass | `NoClaimOutlivesItsClear`, `ReportOutlivesOthersPresses` |
| `AttentionReaches` | pass | `QuestionReachesThePage`, under `FairSpec` |
| `PluginUpdate` | pass | `RunningHasOneOwner`, `DoneCoversTheListing`, `KillsOnlyItsOwn`, `NoChildOutlivesTheServer`, `EveryRunEnds` under `FairSpec`, and the refinement `ImplementsRunRecord` |
| `Pages` | pass | of the list `SilentOnlyWhenLive`, `LandingNeverGoesBack`, `LaterListingWins` and `ListCatchesUp`, of the plugin card `ShownNeverGoesBack` and `PageCatchesUp`, under the fairness of each |
| `Preferences` | pass | `InForceIsOnDisk`, `AnsweredIsKept`, `EveryPatchEnds` under `FairSpec` |
| `ExitKeys` | pass | `TypesOnlyIntoAnEmptyBox`, `EnterAnswersOnlyTheExitMenu`, `WrapUpJumpsNoQueue`, `AnswerOnlyToAQuestion`, `WrapUpIsOver`, `RestIsReadAsIdle` |
| `Folders` | pass | `OneAgentPerDirectory`, `AgentsKeepToEnabledRoots`, `RunningKeepsItsRow`, `EveryEntryIsAccountedFor`, `CreateMakesOnlyWhatWasAsked` |
| `MarkerOutlivesAgent` | violation | Start over a stale row leaves the old stop on the new agent |

The violation is what the code does against its own words; `PROJECT.json` quotes
the words and names the lines. The type invariants of `StopProtocol`, `EndByPid`,
`StartOnce`, `Attention`, `PluginUpdate`, `Preferences` and `Folders` are not in their
runs: they are theorems.

**Bounds.** `StopKill` has three requests on three threads and three markers:
two actors suffice for every race reported in the code's comments (#387, #406,
#407, #427, #432), and the third is the one that finds the row as the first two
left it. Both sweep processes run beside them without bound. `StopLiveness` has
one thread, whose two requests are bounded and the sweep's passes are not; the
orders of a restart and a Kill on more threads are the theorem's. `EndByPid` has
one `/signal` and one expiry at a time, two numbers, two requests and two births:
a number must be able to change hands once under each handle, which takes one
birth each. `StartOnce` has three threads, one folder, three agent identities and
four requests: two Starts, a Kill between them and a Start after. `Attention` has
two rows, the scan, both reports and one request thread with two presses: one
press crosses a reading, the second one makes the epoch move for another row or
the same row start again; what the machine does by itself (screens, links,
browsers) is left to the next run, as a screen that asks from the start is the
case that can go wrong. Its `VIEW` leaves out what only the page shows and the
values of epochs, which are only compared. `AttentionReaches` has one row, one
press, `end_anyway` and two changes of the machine or the browser: enough for a
question to come, the TTL to run, and a page to leave and connect again. With one
row the cap on captures does not bite; the property speaks of the first row in
order, the one the budget never cuts.

`PluginUpdate` has two runs on two threads, so that a run's publications can meet
the next run's; two listings, one with a plugin listed twice behind another, one
with another project's row before the user's; two numbers, and a teardown that
kills twice. `Pages` has queues of one (the least that can be full). Its
settings page has two requests in flight, two changes of the record per process, and
four of the page's requests (three at most), a restart and a reboot together: one
record to be overtaken and one to overtake it, in every pair of epochs the rule
compares. Its list has two changes of the row, two listings in flight, one that
somebody asks for, and one connection or answer that the network loses: an event or
a listing to be overtaken, one to overtake it, and a stream that went and came.
Which document is open is chosen at the start; with `MaxBreaks = 2` for the list, and
without the bound on the four together, each passes as well, in longer than a run
should take. `Preferences` has two threads and three requests, two roots,
two values of the wait and one policy, two edits and one restart: a race, and a
third request that finds what it left. `ExitKeys` has one stop and one answer,
with one message in the agent's queue besides theirs and two moves by other
hands; the numbers of tries and of idle ticks are the code's shortened to two,
since what they bound is a loop whose body is the same each time. `Folders` has
one root with four names (two proper, one dotted, one odd) and one disabled root,
five trees to begin from, two requests and one change: a scan sees one entry
before a change and another after it. Threads are symmetric, and its `VIEW` leaves
out the answers already given.

`CHECK_DEADLOCK FALSE` in every run but `StopProtocol`'s: once the requests the
bounds allow are answered, and nobody is watching or every process is gone,
nothing is left to happen. The `StopProtocol` runs check deadlock; the sweep ticks
for ever.

**Fairness.** `StopLiveness` assumes weak fairness of each request that has begun
(every call it makes is bounded by `_CALL_TIMEOUT_S`), of the sweep's two tasks
(the loop in `lifespan.py` outlives any failure), and strong fairness of two steps
of it: a wait that is over is found over in the end, and a machine that can be
read is read in the end. Nothing is assumed of people, agents or panes: an agent
that never exits is what expiry is for. `AttentionReaches` assumes weak fairness of
the scan's steps and of its start (the loop starts one a second when none is in
flight), of expiries, reports and requests, and strong fairness of a screen being
read without tmux failing. Nothing is assumed of `ScanRunsOut` not happening: a
scan whose budget is spent has still read its first row. `QuestionReachesThePage`
exempts a row that was `mistold`: an event lost, or overtaken by another between
its `get` and its publication, is for the page's next listing to mend, if one is
asked for (`Listing`). `PluginUpdate` assumes that threads run, that a bounded wait
ends (`communicate` has a timeout) and that a signal sent is delivered; nothing of
requests arriving or of children ending by themselves. `PluginPage`
and `Listing` assume weak fairness of each party: the server publishes what was
made, delivers and answers, and the page takes up what has come, its timers and its
own fetch included; nothing of connections staying. That is weaker than fairness of
each action, and enough, since each party has only so much to do at a time.
`ListCatchesUp` exempts what no listing of the page's own accord mends: a listing
that failed with no other asked for, a full queue, an answer published late, and a
loss before an EventSource's first open.
`Preferences` assumes that a request that has begun goes on.

## Proofs

Checked by TLAPS for every value of the constants, in modules of their own.

- `StopProtocolProofs`: `TypeCorrect`; `WithdrawnNeverReturns`; `OwnerCorrect`, and from
  it `NeverStranded`. `NoStrandedMarker` is not inductive: that a marker is being
  typed says nothing unless each process at work is tied to the phase, watch and
  typing of the marker it holds, and no two processes hold one they may both
  write. `OwnerInv` is that tie. A Kill that holds a marker is not an owner: it
  reads it and hands it back.
  `KillEndsRestart` compares each Restart's epoch with `ended`: as long as they
  agree, nobody has cancelled since, and `valid` still has the thread.
  `OneTypist` is under `Orderly == ~TypingCanOutlastWait /\
  ~KillsOverlap /\ ~StartOvertakes`. `OrderInv` says where the marker of a typist
  can be (in the table, or held by the one Kill in flight), that a typist's agent
  is alive when its marker is aimed, and that a look which read `stopped` is not
  overtaken. Each of the three assumptions is needed: with
  `TypingCanOutlastWait` TRUE (a `stop_timeout` shorter than the sequence, or a slow
  tmux; `sweep.py:354` does not look at `typing`) a stop expires while it is typed and
  the next one types over it; `OverlappingKills`, under Known disagreements, is
  what happens without the second; and
  with `StartOvertakes` TRUE a listing's reconcile pops a newer stop's marker by
  name (`engine.py:334` asks `held.typing` where a prompt being typed is
  `watch is None`).
- `EndingsProofs` of `EndByPid`: `TypeCorrect`, `HandlesHold`, and from them
  `SignalsReachDetached` and `ExpiryEndsWhoAsked` (the latter under
  `~AgentsReusePids`). While a handle is live its number is its process's, so a
  verification after the handle stays true to the signal.
- `EndingsProofs` of `ExitKeys`: all six of its properties, for any number of tries,
  moves, answers and ticks within `MaxGap < SETTLE_DONE` and
  `MaxStart < 2 * SETTLE_DONE`. `KeysTypes` first; then what the readings say of every
  frame the two agents draw, which `RestIsIdle` states for both adapters, every box and
  every panel. `KeysInv` carries `ExitIntoAnEmptyBox` and `EnterOnlyAtTheMenu`: the keys
  of a stop leave and are taken in the order of its steps, and while no other hand has
  moved the ui since the last look, what that look told still holds when the key lands,
  however many frames are late, torn or missing. The other three have a condition each,
  which the code does not enforce:
  - `WrapUpInLine`, `QueuedLookMisses = FALSE`: the look for a queued message is of a
    frame that has a box;
  - `AnswersReachQuestions`, `AnswersOvertake = FALSE`: no answer is sent before the
    agent has drawn the one ahead of it (`AnswerInv`: one answer at a time is on its
    way, and what its look read is still in front);
  - `WrapUpSeenOver`, `SlowCaptures = FALSE`: a capture is stamped with the time it was
    taken. It needs three invariants: `EarlyInv`, nothing is typed before the exit half
    but what the wrap up types; `WatchInv`, a wrap up that is not over while the agent
    is seen at rest is next in line, and the ticks left to it are fewer than those the
    watch still asks for; `DoneInv`, a request that is done starts no other wrap up.

  TLC checked `KeysInv`, `AnswerInv`, `EarlyInv` and `DoneInv` on the instance of
  `ExitKeys.cfg` before they were proved; it still checks the six properties.
- `StartOnceProofs`: `TypeCorrect`, `OneStartAtATime`, `FailedStartsSpare` (for
  slow starts too), and `OneAgent` under `~StartsSlowly /\ ~OtherWindows`.
  `FolderInv` says that the pane of a session is the row's agent, that an agent
  not yet visible has a start waiting for it, and that a look which read
  `stopped`, or `stale`, missed nobody.
- `AttentionProofs`: `TypeCorrect`, `ClaimsStayCleared`, `ReportsAreKept`. That
  nothing cleared is undone is not inductive: it needs `ScanInv`, that a scan which
  holds an outdated screen read a smaller epoch than there is now, and `ReportInv`,
  that a report's outdated screen has an epoch below its row's clear and that a
  report nobody crossed has not. Both rest on `MemoryInv`: epochs only grow.
- `PluginUpdateProofs`: `TypeCorrect`, `OneOwner`, `KillsSafe` (under
  `NumberGoesAtOnce = FALSE`), and the refinement `RecordKept`. One invariant carries
  them. `OwnerInv`: while the record says `running` exactly one thread owns it, and
  otherwise none. From that, `HeardInv`: the owner's list is as long as the record's,
  which is what makes the end of a run an `Ends` of `RunRecord`; and `HoldsInv`: the
  records still to be published have different numbers, which is what makes a
  publication remove one and no more. `LatchInv` says whose number the latch holds:
  a child not yet reaped, or one its thread is about to clear; and nothing once shut.
  `DoneCovers` needs `RowsInv`, which ties how far a thread is in its listing to the
  outcomes it has made and to what they say of the rows before; `ChildrenEnd` (under
  `ExitsMidSpawn = FALSE`) needs `AliveInv`, that a live child is in the latch, or its
  thread has still to ask whether the latch is shut.
- `PagesProofs`: `SilentIsLive`, `LandingKeeps` and `LaterWins` of the list,
  `ShownMovesOn` of the plugin card, over any number of requests, fetches and
  restarts. Of the list: what is on its way is a row the server has had
  (`OnTheWay`), and the one listing that owns the page is no older than what it was
  asked over (`OwnerOfThePage`), which is what a held event may be compared with. Of
  the card: any two processes whose records are about are ordered by epoch and by
  boot (`StampsOrdered`), and of two arrivals the later is of no earlier boot
  (`ArrivalsFollowBoots`); neither is said by the property, and without them a
  suspended record of an old process could be taken for a newer one.
- `FoldersProofs`: `TypeCorrect`, `CreateIsExact`, `AgentsStayInTheirRoots`,
  `EveryEntryCounts`, `RowsAreKept` (under `AliasMidScan = FALSE`) and `OneAgentEach`
  (under `UnlistedTargets = FALSE` too), for any tree, any number of roots and of scans
  at once. What `Path.resolve` answers is a walk of as many hops as there are places:
  that it ends behind a link (`LastLink`), and is the same walk as long as nothing on
  it changes (`SameWalk`), is shown by the least hop that would refute it, since
  the numbers are well founded. `ScanInv` says of a scan under way that each
  entry is in one place (still to come, a project, or reported) and that what it
  has noted and nobody has touched is still so; `RowInv` that nothing which sorts
  before a running folder leads to it; `NameInv` that a second name comes behind the
  folder it leads to, so that a start accepts the folder's own name only.
- `PreferencesProofs`: `TypeCorrect`, `ForceIsDisk`, `AnswerKept`. `MergedInv` says that
  the request with the guard merged over the choice still in force, `DiskInv` when
  the file agrees with it, `KeptInv` that what is owed is chosen, recorded, and of a
  root still configured. The theorem needs no assumption beyond the constants': it
  holds over races, failed writes, deaths and restarts.

Only model-checked: the liveness properties (fairness and ENABLED are outside what
TLAPS proves).

## Not modelled, and why

The waits of the page (`web/wait.js`, `web/stop_all.js`) and its dialogs: planned. Which
characters a name may have, tmux quoting, TOML and JSON text, escape sequences: string
rules with unit and property tests, modelled by what they tell apart. The uid check
and the refusal of the server's own process tree are single reads that can only
refuse. The trust prompt, login and usage output: text recognition pinned by
captured fixtures. Configuration and the command line decide once at start up;
the HTTP surface and its access rules decide per request and keep nothing.

## Plan

In this order.

1. `PageWait`: the ticks of one row's wait and of the bulk wait against the dialogs
   that close under them.
2. `StopPromise`, an abstract specification of what a person is told of one stop
   (asked, over), with `StopProtocol` shown to implement it.

Theorems to come: the refinement of `StopPromise`.
