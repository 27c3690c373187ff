---------------------------- MODULE PluginUpdate ----------------------------
(***************************************************************************)
(* Plugin updates: `PluginRuns` (plugin_runs.py), `update_plugins` with    *)
(* its runner and the `RunningChild` latch (claude_ipc/plugins.py), and    *)
(* the kill of the server's teardown (lifespan.py).                        *)
(*                                                                         *)
(* Three kinds of thread: requests, which begin a run; the daemon thread   *)
(* of a run, which refreshes, lists, updates row by row and lists again,   *)
(* one child process per call; and the teardown, which kills from outside. *)
(* A step is one critical section, one call on the system, or what a       *)
(* thread does alone up to the next of either.                             *)
(***************************************************************************)
EXTENDS Naturals, Sequences, FiniteSets

CONSTANTS
  Posters,          \* request threads
  Runners,          \* threads a run may be on
  Pids, NoPid,      \* process numbers, each a child's group as well
  Listings,         \* what `plugin list` may print: rows [plugin, scope]
  MaxRuns,          \* bound: runs begun
  MaxKills,         \* bound: teardowns
  ExitsMidSpawn,    \* the process may end between a Popen and its `_set`
  NumberGoesAtOnce  \* a reaped number may go before a thread clears it

ASSUME PluginAssumption ==
  /\ MaxRuns \in Nat /\ MaxKills \in Nat
  /\ NoPid \notin Pids
  /\ Posters \cap Runners = {}
  /\ ExitsMidSpawn \in BOOLEAN /\ NumberGoesAtOnce \in BOOLEAN

(* A listing is a sequence of rows, whatever a row holds.                  *)
ASSUME ListingsAssumption == \A listing \in Listings : Len(listing) \in Nat

VARIABLES
  state, seq, outcomes,   \* `_state`, `_seq`, `_outcomes`
  recorded, closed,       \* `RunningChild._pid`, `_closed`
  at,                     \* where each thread is
  holds,                  \* the record a thread made and has not published
  call, child, got,       \* a run's call, its child, what it came to
  rows, did,              \* a run's listing, and its outcomes so far
  group,                  \* what each number names
  taken,                  \* the teardown: the number it took and will signal
  up, struck,             \* the process; history: a stranger was signalled
  runs, kills             \* bounds

recordVars == <<state, seq, outcomes>>
latchVars == <<recorded, closed>>
callVars == <<call, child, got>>
listVars == <<rows, did>>
machineVars == <<group, taken, up, struck>>
bounds == <<runs, kills>>
vars == <<recordVars, latchVars, at, holds, callVars, listVars, machineVars, bounds>>

Threads == Posters \cup Runners

Results == {"updated", "current", "failed", "skipped", "abandoned"}

Calls == {"none", "refresh", "listing", "update", "relisting"}
Gots == {"none", "ok", "bad", "timeout", "closed", "missing"}
PosterSteps == {"idle", "announces", "spawns", "fails", "apologises"}
RunnerSteps == {"free", "asks", "spawns", "shows", "waits", "clears", "judges",
                "rows", "tells", "succeeds", "fails", "closes"}
Publishing == {"announces", "apologises", "tells", "closes"}

NoRecord == [seq |-> 0, state |-> "idle", heard |-> 0]

Init ==
  /\ state = "idle" /\ seq = 0 /\ outcomes = <<>>
  /\ recorded = NoPid /\ closed = FALSE
  /\ at = [t \in Threads |-> IF t \in Posters THEN "idle" ELSE "free"]
  /\ holds = [t \in Threads |-> NoRecord]
  /\ call = [r \in Runners |-> "none"]
  /\ child = [r \in Runners |-> NoPid]
  /\ got = [r \in Runners |-> "none"]
  /\ rows = [r \in Runners |-> <<>>]
  /\ did = [r \in Runners |-> <<>>]
  /\ group = [p \in Pids |-> "free"]
  /\ taken = NoPid /\ up = TRUE /\ struck = FALSE
  /\ runs = 0 /\ kills = 0

Goto(t, step) == at' = [at EXCEPT ![t] = step]

(* A mutant: the record is renewed, its seq is not.                        *)
Changed_SameSeq(t) ==
  /\ seq' = seq
  /\ holds' = [holds EXCEPT ![t] = [seq |-> seq', state |-> state', heard |-> Len(outcomes')]]

(* `_changed`, under the lock: the next seq, and the whole record, which   *)
(* `t` publishes once the lock is released.                                *)
Changed(t) ==
  /\ seq' = seq + 1
  /\ holds' = [holds EXCEPT ![t] = [seq |-> seq', state |-> state', heard |-> Len(outcomes')]]

-----------------------------------------------------------------------------
(* `PluginRuns.start`                                                      *)

(* A mutant: no marker is asked for.                                       *)
InFlight_Unasked == FALSE

InFlight == state = "running"

(* The claim.  While a run is going the request is refused and nothing     *)
(* changes.                                                                *)
Post(p) ==
  /\ at[p] = "idle" /\ runs < MaxRuns
  /\ ~InFlight
  /\ runs' = runs + 1
  /\ state' = "running" /\ outcomes' = <<>>
  /\ Changed(p)
  /\ Goto(p, "announces")
  /\ UNCHANGED <<latchVars, callVars, listVars, machineVars, kills>>

(* The publish after the lock: of the claim, of its failure, of a row, of  *)
(* the end.  What a thread does next depends on which it was.              *)
AfterPublish(t) ==
  CASE at[t] = "announces" -> "spawns"
    [] at[t] = "apologises" -> "idle"
    [] at[t] = "tells" -> "rows"
    [] at[t] = "closes" -> "free"

Publish(t) ==
  /\ at[t] \in Publishing
  /\ Goto(t, AfterPublish(t))
  /\ holds' = [holds EXCEPT ![t] = NoRecord]
  /\ IF at[t] = "closes"
       THEN rows' = [rows EXCEPT ![t] = <<>>] /\ did' = [did EXCEPT ![t] = <<>>]
       ELSE UNCHANGED listVars
  /\ UNCHANGED <<recordVars, latchVars, callVars, machineVars, bounds>>

ThreadStarts(p) ==
  /\ at[p] = "spawns"
  /\ \E r \in Runners :
       /\ at[r] = "free"
       /\ at' = [at EXCEPT ![p] = "idle", ![r] = "asks"]
       /\ call' = [call EXCEPT ![r] = "refresh"]
  /\ UNCHANGED <<recordVars, latchVars, holds, child, got, listVars, machineVars, bounds>>

(* `Thread.start` raised: the machine has no thread to give.               *)
ThreadCannotStart(p) ==
  /\ at[p] = "spawns"
  /\ Goto(p, "fails")
  /\ UNCHANGED <<recordVars, latchVars, holds, callVars, listVars, machineVars, bounds>>

(* The marker is cleared by the request, since no run will.                *)
StartFails(p) ==
  /\ at[p] = "fails"
  /\ state' = "failed"
  /\ UNCHANGED outcomes
  /\ Changed(p)
  /\ Goto(p, "apologises")
  /\ UNCHANGED <<latchVars, callVars, listVars, machineVars, bounds>>

-----------------------------------------------------------------------------
(* `plugin_runner`'s run: one child                                        *)

(* `raise_if_closed`: a handle that was shut starts no child.              *)
Refused == closed

Asks(r) ==
  /\ at[r] = "asks"
  /\ \/ Refused /\ Goto(r, "judges") /\ got' = [got EXCEPT ![r] = "closed"]
     \/ ~Refused /\ Goto(r, "spawns") /\ UNCHANGED got
  /\ UNCHANGED <<recordVars, latchVars, holds, call, child, listVars, machineVars, bounds>>

(* `Popen`: a child, the leader of its own group; or an OSError.           *)
Spawns(r) ==
  /\ at[r] = "spawns"
  /\ \/ /\ Goto(r, "judges")
        /\ got' = [got EXCEPT ![r] = "missing"]
        /\ UNCHANGED <<child, group>>
     \/ \E p \in Pids :
          /\ group[p] = "free"
          /\ group' = [group EXCEPT ![p] = "alive"]
          /\ child' = [child EXCEPT ![r] = p]
          /\ Goto(r, "shows")
          /\ UNCHANGED got
  /\ UNCHANGED <<recordVars, latchVars, holds, call, listVars, taken, up, struck, bounds>>

Killed(p) == [group EXCEPT ![p] = IF @ = "alive" THEN "killed" ELSE @]

(* A mutant: a closed handle records the number and kills nobody.          *)
Shows_RecordsAnyway(r) ==
  /\ at[r] = "shows"
  /\ recorded' = child[r] /\ UNCHANGED group
  /\ Goto(r, "waits")
  /\ UNCHANGED <<recordVars, closed, holds, callVars, listVars, taken, up, struck, bounds>>

(* `_set(pid)`: recorded; on a closed handle, killed at once instead.  The *)
(* number is this thread's unreaped child, so it names nobody else.        *)
Shows(r) ==
  /\ at[r] = "shows"
  /\ IF closed
       THEN group' = Killed(child[r]) /\ UNCHANGED recorded
       ELSE recorded' = child[r] /\ UNCHANGED group
  /\ Goto(r, "waits")
  /\ UNCHANGED <<recordVars, closed, holds, callVars, listVars, taken, up, struck, bounds>>

(* A mutant: no bound on the call.                                         *)
Waits_ForEver(r) ==
  /\ at[r] = "waits"
  /\ \E came \in {"ok", "bad"} :
       /\ came = "ok" => group[child[r]] = "exited"
       /\ came = "bad" => group[child[r]] \in {"exited", "killed"}
       /\ got' = [got EXCEPT ![r] = came]
  /\ group' = [group EXCEPT ![child[r]] = "free"]
  /\ Goto(r, "clears")
  /\ UNCHANGED <<recordVars, latchVars, holds, call, child, listVars, taken, up, struck, bounds>>

(* `communicate`: the child is over and is reaped, or the bound passes, in *)
(* which case the group is killed, the child reaped and the call a timeout.*)
Waits(r) ==
  /\ at[r] = "waits"
  /\ \E came \in {"ok", "bad", "timeout"} :
       /\ came = "ok" => group[child[r]] = "exited"
       /\ came = "bad" => group[child[r]] \in {"exited", "killed"}
       /\ came = "timeout" => group[child[r]] = "alive"
       /\ got' = [got EXCEPT ![r] = came]
  /\ group' = [group EXCEPT ![child[r]] = "free"]
  /\ Goto(r, "clears")
  /\ UNCHANGED <<recordVars, latchVars, holds, call, child, listVars, taken, up, struck, bounds>>

(* `_set(None)` in the finally; a closed handle ignores it.                *)
Clears(r) ==
  /\ at[r] = "clears"
  /\ recorded' = IF closed THEN recorded ELSE NoPid
  /\ child' = [child EXCEPT ![r] = NoPid]
  /\ Goto(r, "judges")
  /\ UNCHANGED <<recordVars, closed, holds, call, got, listVars, machineVars, bounds>>

-----------------------------------------------------------------------------
(* `update_plugins`                                                        *)

NextCall(r, what) ==
  /\ Goto(r, "asks")
  /\ call' = [call EXCEPT ![r] = what]
  /\ got' = [got EXCEPT ![r] = "none"]
  /\ UNCHANGED <<recordVars, latchVars, holds, child, machineVars, bounds>>

RunFails(r) ==
  /\ Goto(r, "fails")
  /\ call' = [call EXCEPT ![r] = "none"]
  /\ got' = [got EXCEPT ![r] = "none"]
  /\ UNCHANGED <<recordVars, latchVars, holds, child, listVars, machineVars, bounds>>

(* The refresh: anything but an exit of zero ends the operation.           *)
Refreshed(r) ==
  /\ at[r] = "judges" /\ call[r] = "refresh"
  /\ \/ got[r] = "ok" /\ NextCall(r, "listing") /\ UNCHANGED listVars
     \/ got[r] # "ok" /\ RunFails(r)

(* The first listing: every row understood, or nothing is updated.         *)
Listed(r) ==
  /\ at[r] = "judges" /\ call[r] = "listing"
  /\ \/ /\ got[r] = "ok"
        /\ \E listing \in Listings : rows' = [rows EXCEPT ![r] = listing]
        /\ Goto(r, "rows")
        /\ call' = [call EXCEPT ![r] = "none"]
        /\ got' = [got EXCEPT ![r] = "none"]
        /\ UNCHANGED <<recordVars, latchVars, holds, child, did, machineVars, bounds>>
     \/ RunFails(r)

Row(r) == rows[r][Len(did[r]) + 1]
RowsLeft(r) == Len(did[r]) < Len(rows[r])

(* A mutant: an abandoned row is not remembered (#401).                    *)
Repeated_UnlessAbandoned(r) ==
  \E k \in 1..Len(did[r]) :
    rows[r][k].plugin = Row(r).plugin /\ did[r][k] \notin {"skipped", "abandoned"}

Repeated(r) ==
  \E k \in 1..Len(did[r]) : rows[r][k].plugin = Row(r).plugin /\ rows[r][k].scope = "user"

Abandoned(r) == \E k \in 1..Len(did[r]) : did[r][k] = "abandoned"

(* One outcome: kept, and reported under the lock.                         *)
Reports(r, result) ==
  /\ did' = [did EXCEPT ![r] = Append(@, result)]
  /\ outcomes' = Append(outcomes, result)
  /\ UNCHANGED state
  /\ Changed(r)
  /\ Goto(r, "tells")
  /\ call' = [call EXCEPT ![r] = "none"]
  /\ got' = [got EXCEPT ![r] = "none"]
  /\ UNCHANGED <<latchVars, child, rows, machineVars, bounds>>

(* Scope and repetition first, abandonment after: a row that was never to  *)
(* be updated is skipped for its own reason.                               *)
RowLeftAlone(r) ==
  /\ at[r] = "rows" /\ RowsLeft(r)
  /\ \/ (Row(r).scope # "user" \/ Repeated(r)) /\ Reports(r, "skipped")
     \/ Row(r).scope = "user" /\ ~Repeated(r) /\ Abandoned(r) /\ Reports(r, "abandoned")

RowTaken(r) ==
  /\ at[r] = "rows" /\ RowsLeft(r)
  /\ Row(r).scope = "user" /\ ~Repeated(r) /\ ~Abandoned(r)
  /\ NextCall(r, "update")
  /\ UNCHANGED listVars

(* `_update_one`; a closed runner abandons the row; a binary that cannot   *)
(* run ends the operation wherever it happens.                             *)
Updated(r) ==
  /\ at[r] = "judges" /\ call[r] = "update"
  /\ \/ got[r] = "ok" /\ Reports(r, "updated")
     \/ got[r] \in {"bad", "timeout"} /\ Reports(r, "failed")
     \/ got[r] = "closed" /\ Reports(r, "abandoned")
     \/ got[r] = "missing" /\ RunFails(r)

AnyUpdated(r) == \E k \in 1..Len(did[r]) : did[r][k] = "updated"

RowsDone(r) ==
  /\ at[r] = "rows" /\ ~RowsLeft(r)
  /\ \/ AnyUpdated(r) /\ NextCall(r, "relisting")
     \/ /\ ~AnyUpdated(r)
        /\ Goto(r, "succeeds")
        /\ UNCHANGED <<recordVars, latchVars, holds, callVars, machineVars, bounds>>
  /\ UNCHANGED listVars

(* `_classified`: an updated row whose version did not move is current; a  *)
(* second listing that cannot be had or read leaves every row as it was.   *)
Classifications(r) ==
  {[k \in 1..Len(did[r]) |-> IF k \in still THEN "current" ELSE did[r][k]] :
     still \in SUBSET {k \in 1..Len(did[r]) : got[r] = "ok" /\ did[r][k] = "updated"}}

Classified(r) ==
  /\ at[r] = "judges" /\ call[r] = "relisting"
  /\ \E final \in Classifications(r) : did' = [did EXCEPT ![r] = final]
  /\ Goto(r, "succeeds")
  /\ call' = [call EXCEPT ![r] = "none"]
  /\ got' = [got EXCEPT ![r] = "none"]
  /\ UNCHANGED <<recordVars, latchVars, holds, child, rows, machineVars, bounds>>

(* An exception nobody foresaw, out of a call.                             *)
Breaks(r) ==
  /\ at[r] = "judges"
  /\ RunFails(r)

(* `_run`'s finally: the returned list, if there is one, replaces what was *)
(* heard row by row, and the marker is cleared.                            *)
Finishes(r) ==
  /\ at[r] \in {"succeeds", "fails"} /\ r \in Runners
  /\ state' = IF at[r] = "succeeds" THEN "done" ELSE "failed"
  /\ outcomes' = IF at[r] = "succeeds" THEN did[r] ELSE outcomes
  /\ Changed(r)
  /\ Goto(r, "closes")
  /\ UNCHANGED <<latchVars, callVars, listVars, machineVars, bounds>>

-----------------------------------------------------------------------------
(* The teardown, and the machine                                           *)

(* A mutant: the handle is shut with its number still in it (#384).        *)
KillTakes_KeepsNumber ==
  /\ kills < MaxKills /\ taken = NoPid
  /\ kills' = kills + 1
  /\ taken' = recorded
  /\ UNCHANGED recorded
  /\ closed' = TRUE
  /\ UNCHANGED <<recordVars, at, holds, callVars, listVars, group, up, struck, runs>>

(* `RunningChild.kill`, the locked half: the number is taken and cleared,  *)
(* and the handle is shut for good.                                        *)
KillTakes ==
  /\ kills < MaxKills /\ taken = NoPid
  /\ kills' = kills + 1
  /\ taken' = recorded
  /\ recorded' = NoPid
  /\ closed' = TRUE
  /\ UNCHANGED <<recordVars, at, holds, callVars, listVars, group, up, struck, runs>>

(* The other half: `os.killpg`.  A number that names nothing is no error.  *)
KillSignals ==
  /\ taken # NoPid
  /\ group' = Killed(taken)
  /\ struck' = (struck \/ group[taken] = "stranger")
  /\ taken' = NoPid
  /\ UNCHANGED <<recordVars, latchVars, at, holds, callVars, listVars, up, bounds>>

(* The end of the process: daemon threads are abandoned where they are.    *)
Exits ==
  /\ kills > 0 /\ taken = NoPid
  /\ ExitsMidSpawn \/ \A r \in Runners : at[r] # "shows"
  /\ up' = FALSE
  /\ UNCHANGED <<recordVars, latchVars, at, holds, callVars, listVars, group, taken, struck,
                 bounds>>

ChildEnds(p) ==
  /\ group[p] = "alive"
  /\ group' = [group EXCEPT ![p] = "exited"]
  /\ UNCHANGED <<recordVars, latchVars, at, holds, callVars, listVars, taken, up, struck, bounds>>

(* A free number goes to somebody else's group; one stranger is enough.    *)
(* Between a reap and the clearing of its number, or a take and its        *)
(* signal, only if NumberGoesAtOnce.                                       *)
StrangerTakes(p) ==
  /\ group[p] = "free" /\ \A q \in Pids : group[q] # "stranger"
  /\ \/ NumberGoesAtOnce
     \/ taken # p /\ \A r \in Runners : at[r] = "clears" => child[r] # p
  /\ group' = [group EXCEPT ![p] = "stranger"]
  /\ UNCHANGED <<recordVars, latchVars, at, holds, callVars, listVars, taken, up, struck, bounds>>

PosterStep(p) ==
  up /\ (ThreadStarts(p) \/ ThreadCannotStart(p) \/ StartFails(p) \/ Publish(p))

RunnerStep(r) ==
  up /\ (\/ Asks(r) \/ Spawns(r) \/ Shows(r) \/ Waits(r) \/ Clears(r)
         \/ Refreshed(r) \/ Listed(r) \/ RowLeftAlone(r) \/ RowTaken(r) \/ Updated(r)
         \/ RowsDone(r) \/ Classified(r) \/ Breaks(r) \/ Finishes(r) \/ Publish(r))

Next ==
  \/ \E p \in Posters : (up /\ Post(p)) \/ PosterStep(p)
  \/ \E r \in Runners : RunnerStep(r)
  \/ up /\ KillTakes
  \/ up /\ KillSignals
  \/ up /\ Exits
  \/ \E p \in Pids : up /\ (ChildEnds(p) \/ StrangerTakes(p))

(* Threads are run; a wait has a bound, so it ends; a signal is delivered. *)
Fairness ==
  /\ \A p \in Posters : WF_vars(PosterStep(p))
  /\ \A r \in Runners : WF_vars(RunnerStep(r))
  /\ WF_vars(up /\ KillSignals)

Spec == Init /\ [][Next]_vars
FairSpec == Spec /\ Fairness

-----------------------------------------------------------------------------
(* The record as others see it, and the ones made and not yet published.   *)
TheRecord == INSTANCE RunRecord WITH
  run <- [seq |-> seq, state |-> state, heard |-> Len(outcomes)],
  unsent <- {holds[t] : t \in {u \in Threads : at[u] \in Publishing}}

TypeOK ==
  /\ state \in {"idle", "running", "done", "failed"}
  /\ seq \in Nat
  /\ outcomes \in Seq(Results)
  /\ recorded \in Pids \cup {NoPid}
  /\ closed \in BOOLEAN
  /\ at \in [Threads -> PosterSteps \cup RunnerSteps]
  /\ \A p \in Posters : at[p] \in PosterSteps
  /\ \A r \in Runners : at[r] \in RunnerSteps
  /\ holds \in [Threads -> TheRecord!Record]
  /\ did \in [Runners -> Seq(Results)]
  /\ call \in [Runners -> Calls]
  /\ child \in [Runners -> Pids \cup {NoPid}]
  /\ got \in [Runners -> Gots]
  /\ group \in [Pids -> {"free", "alive", "exited", "killed", "stranger"}]
  /\ taken \in Pids \cup {NoPid}
  /\ up \in BOOLEAN /\ struck \in BOOLEAN

(* Who will clear the marker: the request until its thread has started,    *)
(* the run from then on, up to the critical section that ends it.          *)
Owners ==
  {p \in Posters : at[p] \in {"announces", "spawns", "fails"}} \cup
  {r \in Runners : at[r] \notin {"free", "closes"}}

(* `running` is never left behind and never shared: while the record says  *)
(* so exactly one thread is going to end it, and otherwise none is, whether*)
(* the thread could not be started (#307) or the run raised.               *)
RunningHasOneOwner ==
  IF state = "running" THEN Cardinality(Owners) = 1 ELSE Owners = {}

(* A run that is done accounts for every row of its listing once: a first  *)
(* `user` row was updated, tried or abandoned, every other row was skipped,*)
(* and once one was abandoned none after it was tried (#300, #370, #401).  *)
DoneCoversTheListing ==
  \A r \in Runners : at[r] = "closes" /\ state = "done" /\ holds[r].seq = seq =>
    /\ Len(outcomes) = Len(rows[r])
    /\ \A k \in 1..Len(rows[r]) :
         LET first == /\ rows[r][k].scope = "user"
                      /\ \A j \in 1..(k - 1) : rows[r][j].scope = "user" =>
                           rows[r][j].plugin # rows[r][k].plugin
         IN  /\ first <=> outcomes[k] # "skipped"
             /\ first /\ (\E j \in 1..(k - 1) : outcomes[j] = "abandoned")
                  => outcomes[k] = "abandoned"

(* The teardown signals its own children only: a number that was reaped,   *)
(* and since given to another's group, is never signalled, however often   *)
(* the handle is killed (#384).                                            *)
KillsOnlyItsOwn == ~struck

(* Nothing the process started is left running once it has ended (#361):   *)
(* the child of the moment was killed, and one whose number was not yet    *)
(* visible to the kill was killed when it showed.                          *)
NoChildOutlivesTheServer == ~up => \A p \in Pids : group[p] # "alive"

(* The run, its thread and its failures keep the promise of RunRecord: the *)
(* next seq on every change, no run begun over another, the final list as  *)
(* long as what was heard, every record published once.                    *)
ImplementsRunRecord == TheRecord!RecordSpec

(* A run ends, whatever its children do: every wait has a bound, so the    *)
(* marker does not refuse every later update.                              *)
EveryRunEnds == (state = "running") ~> (state # "running" \/ ~up)
=============================================================================
