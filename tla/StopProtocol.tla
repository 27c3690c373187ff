---------------------------- MODULE StopProtocol ----------------------------
(***************************************************************************)
(* The stop protocol of one row of the listing: Stop, Exit now, Restart,   *)
(* Kill, /signal and Start as request threads, the sweep's two tasks       *)
(* beside them, and the stop marker they all write (engine.py, sweep.py,   *)
(* restart.py, stopmarker.py).  The tables of the engine are keyed by name *)
(* and no critical section here touches two names, so one row is the whole *)
(* story; a step is what happens between two points where another thread   *)
(* can come in: one critical section, one look at the machine, or one      *)
(* exchange with tmux.                                                     *)
(*                                                                         *)
(* Time is abstract: a wait may run out as soon as it is being waited for. *)
(* TypingCanOutlastWait says whether that includes a stop whose keys are   *)
(* still going out, which any stop_timeout shorter than the sequence       *)
(* allows.                                                                 *)
(***************************************************************************)
EXTENDS Naturals, FiniteSets

CONSTANTS
  Threads,              \* the worker threads that run a request
  Ticker,               \* the sweep's own task: advance_restarts, expire_stops
  Wrapper,              \* the sweep's other task: advance_wrap_ups
  Markers,              \* the identities a StopMarker can have
  NoMarker,             \* Python's None where a marker is looked up
  Routes,               \* the requests people make in this instance
  StopPrompt,           \* whether config.stop_prompt is set
  EndAnyway,            \* whether the Stop recorded stop_policy = end_anyway
  TypingCanOutlastWait, \* whether stop_timeout can run out while typing
  KillsOverlap,         \* whether two Kills can be in flight at once
  StartOvertakes,       \* whether a start can come between a look that read
                        \* the row stopped, or a kill, and what follows it
  MaxPresses            \* how many requests are made (bounds the model)

Procs == Threads \cup {Ticker, Wrapper}

AllRoutes == {"stop", "restart", "kill", "signal", "start", "list"}

ASSUME ProcsAssumption ==
  /\ Ticker # Wrapper
  /\ Ticker \notin Threads
  /\ Wrapper \notin Threads
  /\ "mark" \notin Threads
ASSUME MarkersAssumption == NoMarker \notin Markers
ASSUME SettingsAssumption ==
  /\ Routes \subseteq AllRoutes
  /\ StopPrompt \in BOOLEAN
  /\ EndAnyway \in BOOLEAN
  /\ TypingCanOutlastWait \in BOOLEAN
  /\ KillsOverlap \in BOOLEAN
  /\ StartOvertakes \in BOOLEAN
  /\ MaxPresses \in Nat

VARIABLES
  session,  \* whether our tmux session is there
  agent,    \* whether the agent's process is there
  phase,    \* of each StopMarker: "closing", or "exiting" once its exit_at is
  watch,    \* of each StopMarker: whether its wrap up's watch is there
  typing,   \* of each StopMarker: the exit sequence is going out
  withdrawn,\* of each StopMarker: its owner gave it up
  aimed,    \* of each StopMarker, history: the pane still holds the agent
            \* this stop was asked of
  table,    \* engine._stopping[name]
  held,     \* engine._kill_held[name]
  pending,  \* whether the name is in restarts.pending
  refused,  \* whether the name is in restarts.refused
  ended,    \* restarts.ended[name]
  pc,       \* where each process is
  op,       \* the route a thread is running
  mk,       \* the marker a process holds in a local variable
  resume,   \* whether `resume` is a watch: the claim was an Exit now
  saw,      \* the state of the row at the process's last look
  marked,   \* session.stopping of the row it derived from that look
  epoch,    \* restarts.epoch as `request` read it
  presses,  \* how many requests have been made
  valid     \* history: the Restarts (threads, and "mark" for a pending
            \* start) that no Kill or signal has ended since they began

machineVars == <<session, agent>>
markerVars  == <<phase, watch, typing, withdrawn, aimed>>
stopVars    == <<markerVars, table, held>>
restartVars == <<pending, refused, ended, valid>>
localVars   == <<op, mk, resume, saw, marked, epoch, presses>>
vars == <<machineVars, stopVars, restartVars, pc, localVars>>

States == {"running", "stale", "detached", "stopped"}

PCs == {"idle", "asked", "derive", "claim", "prompt", "exit", "watch",
        "settle", "settled", "mark", "take", "killing", "releaseOk",
        "releaseFailed", "wipe", "cancel",
        "restarts", "rederive", "consume", "start", "expire", "expired",
        "captured"}

RestartTypeOK ==
  /\ pending \in BOOLEAN /\ refused \in BOOLEAN
  /\ ended \in Nat
  /\ valid \subseteq Threads \cup {"mark"}

LocalTypeOK ==
  /\ pc \in [Procs -> PCs]
  /\ op \in [Procs -> AllRoutes \cup {"none"}]
  /\ mk \in [Procs -> Markers \cup {NoMarker}]
  /\ resume \in [Procs -> BOOLEAN]
  /\ saw \in [Procs -> States]
  /\ marked \in [Procs -> BOOLEAN]
  /\ epoch \in [Procs -> Nat]
  /\ presses \in Nat

TypeOK ==
  /\ session \in BOOLEAN /\ agent \in BOOLEAN
  /\ phase \in [Markers -> {"closing", "exiting"}]
  /\ watch \in [Markers -> BOOLEAN] /\ typing \in [Markers -> BOOLEAN]
  /\ withdrawn \in [Markers -> BOOLEAN] /\ aimed \in [Markers -> BOOLEAN]
  /\ table \in Markers \cup {NoMarker}
  /\ held \in Markers \cup {NoMarker}
  /\ RestartTypeOK
  /\ LocalTypeOK

-----------------------------------------------------------------------------
(* What derivation says of the machine at one instant (StartOnce has the   *)
(* two instants a real look is made of).                                   *)
Row == IF session
       THEN (IF agent THEN "running" ELSE "stale")
       ELSE (IF agent THEN "detached" ELSE "stopped")

IsTyping(m) ==
  \/ typing[m]
  \/ phase[m] = "closing" /\ ~watch[m]

\* Python's garbage collection: an identity nothing refers to can be new.
Unreferenced ==
  {m \in Markers : /\ table # m /\ held # m
                   /\ \A p \in Procs : mk[p] # m}

Fresh == CHOOSE m \in Unreferenced : TRUE

\* What a look at a stopped row does to the table: the marker of a stop that
\* worked goes, unless its keys are still going out.
Reconciled(seen) ==
  IF seen = "stopped" /\ table # NoMarker /\ ~typing[table]
  THEN NoMarker ELSE table

\* `overlay`: a refused start is history once the row is anything else.
RefusalKept(seen) == refused /\ seen = "stopped"

Goto(p, to) == pc' = [pc EXCEPT ![p] = to]

\* The end of a request or of a pass: the locals go out of scope.
Return(p) ==
  /\ pc' = [pc EXCEPT ![p] = "idle"]
  /\ op' = [op EXCEPT ![p] = "none"]
  /\ mk' = [mk EXCEPT ![p] = NoMarker]
  /\ resume' = [resume EXCEPT ![p] = FALSE]
  /\ saw' = [saw EXCEPT ![p] = "stopped"]
  /\ marked' = [marked EXCEPT ![p] = FALSE]
  /\ epoch' = [epoch EXCEPT ![p] = 0]
  /\ UNCHANGED presses

\* Nothing in a pane is aimed at any more once its agent or its session goes.
AgentLost == aimed' = [m \in Markers |-> FALSE]

otherMarkerVars == <<phase, watch, typing, withdrawn>>

\* `RestartOverlay.cancel`, and the history of it.
CancelRestart_KeepsPending ==
  /\ ended' = ended + 1
  /\ valid' = {}
  /\ UNCHANGED <<pending, refused>>

CancelRestart ==
  /\ ended' = ended + 1
  /\ pending' = FALSE
  /\ valid' = {}
  /\ UNCHANGED refused

-----------------------------------------------------------------------------
(* The machine.                                                            *)

\* The agent's process goes: asked to, hung up on by a kill, signalled, or
\* of its own accord.  Its session goes with it unless something holds it.
AgentExits ==
  /\ agent
  /\ agent' = FALSE
  /\ session' \in {session, FALSE}
  /\ AgentLost
  /\ UNCHANGED <<otherMarkerVars, table, held, restartVars, pc, localVars>>

\* Somebody closes the pane at a terminal; the agent may survive the hangup.
PaneCloses ==
  /\ session
  /\ session' = FALSE
  /\ AgentLost
  /\ UNCHANGED <<otherMarkerVars, agent, table, held, restartVars, pc, localVars>>

-----------------------------------------------------------------------------
(* A request arrives, and looks.                                           *)

Press(t) ==
  /\ pc[t] = "idle"
  /\ presses < MaxPresses
  /\ presses' = presses + 1

\* Stop, Kill, /signal and a listing begin with a look: the machine as it is.
\* One that cannot be read ends the request there, with nothing changed.
Request(t, r) ==
  /\ Press(t)
  /\ r \in Routes \cap {"stop", "kill", "signal", "list"}
  /\ r = "kill" => KillsOverlap \/ \A u \in Threads : op[u] # "kill"
  /\ op' = [op EXCEPT ![t] = r]
  /\ saw' = [saw EXCEPT ![t] = Row]
  /\ Goto(t, "derive")
  /\ UNCHANGED <<machineVars, stopVars, restartVars, mk, resume, marked, epoch>>

\* `restart.request` reads the epoch first, and only then stops.
RequestRestart(t) ==
  /\ Press(t)
  /\ "restart" \in Routes
  /\ op' = [op EXCEPT ![t] = "restart"]
  /\ epoch' = [epoch EXCEPT ![t] = ended]
  /\ valid' = valid \cup {t}
  /\ Goto(t, "asked")
  /\ UNCHANGED <<machineVars, stopVars, pending, refused, ended, mk, resume,
                 saw, marked>>

Look(t) ==
  /\ pc[t] = "asked"
  /\ saw' = [saw EXCEPT ![t] = Row]
  /\ Goto(t, "derive")
  /\ UNCHANGED <<machineVars, stopVars, restartVars, op, mk, resume, marked,
                 epoch, presses>>

\* Where each route goes from the state of the row, or "idle" for a refusal.
AfterRow(r, s) ==
  IF r \in {"stop", "restart"} /\ s = "running"  THEN "claim"
  ELSE IF r = "kill" /\ s \in {"running", "stale"} THEN "take"
  ELSE IF r = "signal" /\ s = "detached"          THEN "cancel"
  ELSE "idle"

\* `_derive` on that look, by now possibly an old one, and the refusals of
\* `_require_live`, `stop`, `kill` and `signal_detached`.  A listing ends here.
Derive(t) ==
  /\ pc[t] = "derive"
  /\ table' = Reconciled(saw[t])
  /\ refused' = RefusalKept(saw[t])
  /\ LET to == AfterRow(op[t], saw[t])
     IN  IF to = "idle"
         THEN Return(t)
         ELSE /\ Goto(t, to)
              /\ marked' = [marked EXCEPT ![t] = table # NoMarker]
              /\ UNCHANGED <<op, mk, resume, saw, epoch, presses>>
  /\ UNCHANGED <<machineVars, markerVars, held, pending, ended, valid>>

-----------------------------------------------------------------------------
(* Stop: the claim.  One critical section with the rule of #242 in it.     *)

TypingHere_IgnoresHeld == table # NoMarker /\ IsTyping(table)

TypingHere ==
  \/ table # NoMarker /\ IsTyping(table)
  \/ held # NoMarker /\ ~withdrawn[held] /\ IsTyping(held)

\* Something is typing into the pane: the no-op 202.  The session `stop`
\* returns is the one it derived on the way in.
ClaimNothing(t) ==
  /\ pc[t] = "claim"
  /\ TypingHere
  /\ IF op[t] = "restart"
     THEN Goto(t, "mark") /\ UNCHANGED localVars
     ELSE Return(t)
  /\ UNCHANGED <<machineVars, stopVars, restartVars>>

\* A wrap up is over: its marker goes on to the exit, in place.
SendToExit(m) ==
  /\ phase' = [phase EXCEPT ![m] = "exiting"]
  /\ typing' = [typing EXCEPT ![m] = TRUE]
  /\ UNCHANGED <<watch, withdrawn, aimed>>

\* Exit now: the `closing` marker is changed in place, so that a refusal can
\* hand the wrap up back.
ClaimExitNow(t) ==
  /\ pc[t] = "claim"
  /\ ~TypingHere
  /\ table # NoMarker /\ phase[table] = "closing"
  /\ SendToExit(table)
  /\ mk' = [mk EXCEPT ![t] = table]
  /\ resume' = [resume EXCEPT ![t] = TRUE]
  /\ Goto(t, "exit")
  /\ UNCHANGED <<machineVars, table, held, restartVars, op, saw, marked,
                 epoch, presses>>

Wrapping == table = NoMarker /\ StopPrompt

\* Every other claim is a new marker: a repeated Stop on `exiting`, or the
\* first Stop, which wraps up when a prompt is configured.
ClaimAfresh(t) ==
  /\ pc[t] = "claim"
  /\ ~TypingHere
  /\ table # NoMarker => phase[table] = "exiting"
  /\ Unreferenced # {}
  /\ phase' = [phase EXCEPT ![Fresh] = IF Wrapping THEN "closing" ELSE "exiting"]
  /\ watch' = [watch EXCEPT ![Fresh] = FALSE]
  /\ typing' = [typing EXCEPT ![Fresh] = ~Wrapping]
  /\ withdrawn' = [withdrawn EXCEPT ![Fresh] = FALSE]
  /\ aimed' = [aimed EXCEPT ![Fresh] = (Row = "running")]
  /\ table' = Fresh
  /\ mk' = [mk EXCEPT ![t] = Fresh]
  /\ Goto(t, IF Wrapping THEN "prompt" ELSE "exit")
  /\ UNCHANGED <<machineVars, held, restartVars, op, resume, saw, marked,
                 epoch, presses>>

-----------------------------------------------------------------------------
(* Stop: what came of the typing.                                          *)

\* The prompt is out; `_done_typing`, and the watch not there yet.
PromptTyped(t) ==
  /\ pc[t] = "prompt"
  /\ typing' = [typing EXCEPT ![mk[t]] = FALSE]
  /\ Goto(t, "watch")
  /\ UNCHANGED <<machineVars, phase, watch, withdrawn, aimed, table, held, restartVars, localVars>>

\* On the object, whatever the table holds (#387).
SetWatch(t) ==
  /\ pc[t] = "watch"
  /\ watch' = [watch EXCEPT ![mk[t]] = TRUE]
  /\ Goto(t, "settle")
  /\ UNCHANGED <<machineVars, phase, typing, withdrawn, aimed, table, held, restartVars, localVars>>

\* The exit is out: `_done_typing`, a Stop may claim the marker again.
ExitTyped(p) ==
  /\ pc[p] = "exit"
  /\ typing' = [typing EXCEPT ![mk[p]] = FALSE]
  /\ Goto(p, "settle")
  /\ UNCHANGED <<machineVars, phase, watch, withdrawn, aimed, table, held, restartVars, localVars>>

\* `_drop`: the marker and only it, flagged so that a failed Kill which holds
\* it does not hand it back.  Its `typing` is left as it was: nobody reads it.
Drop(m) ==
  /\ withdrawn' = [withdrawn EXCEPT ![m] = TRUE]
  /\ UNCHANGED <<phase, watch, typing, aimed>>
  /\ table' = IF table = m THEN NoMarker ELSE table

GiveBack_KeepsNoWatch(m, wrapUp) ==
  IF ~wrapUp
  THEN Drop(m)
  ELSE /\ phase' = [phase EXCEPT ![m] = "closing"]
       /\ typing' = [typing EXCEPT ![m] = FALSE]
       /\ watch' = [watch EXCEPT ![m] = FALSE]
       /\ UNCHANGED <<withdrawn, aimed, table>>

\* `_give_back`: a refused Exit now returns to the wrap up it interrupted,
\* any other claim is dropped.
GiveBack(m, wrapUp) ==
  IF ~wrapUp
  THEN Drop(m)
  ELSE /\ phase' = [phase EXCEPT ![m] = "closing"]
       /\ typing' = [typing EXCEPT ![m] = FALSE]
       /\ watch' = [watch EXCEPT ![m] = TRUE]
       /\ UNCHANGED <<withdrawn, aimed, table>>

\* tmux is gone, the screen was not safe to type at, or anything else: the
\* request is refused, a Restart with nothing marked.
TypingRefused(t) ==
  /\ pc[t] \in {"prompt", "exit"}
  /\ GiveBack(mk[t], resume[t])
  /\ Return(t)
  /\ UNCHANGED <<machineVars, held, restartVars>>

\* `get` again once something was done: Stop's, Kill's and the sweep's.
Settle(p) ==
  /\ pc[p] = "settle"
  /\ saw' = [saw EXCEPT ![p] = Row]
  /\ Goto(p, "settled")
  /\ UNCHANGED <<machineVars, stopVars, restartVars, op, mk, resume, marked,
                 epoch, presses>>

\* Kill asks again, while kill_grace lasts, of an agent that is still dying.
Settled(p) ==
  /\ pc[p] = "settled"
  /\ table' = Reconciled(saw[p])
  /\ refused' = RefusalKept(saw[p])
  /\ \/ /\ op[p] = "restart"
        /\ Goto(p, "mark")
        /\ marked' = [marked EXCEPT ![p] = table # NoMarker]
        /\ UNCHANGED <<op, mk, resume, saw, epoch, presses>>
     \/ /\ op[p] = "kill" /\ saw[p] = "detached"
        /\ Goto(p, "settle")
        /\ UNCHANGED localVars
     \/ /\ op[p] # "restart"
        /\ Return(p)
  /\ UNCHANGED <<machineVars, markerVars, held, pending, ended, valid>>

\* The machine could not be read: the request fails, the stop goes on.
SettleUnreadable(p) ==
  /\ pc[p] = "settle"
  /\ Return(p)
  /\ UNCHANGED <<machineVars, stopVars, restartVars>>

-----------------------------------------------------------------------------
(* Restart: the mark, decided against the epoch and never from the row.    *)

SetMark(t) ==
  /\ pending' = TRUE
  /\ refused' = FALSE
  /\ valid' = IF t \in valid THEN valid \cup {"mark"} ELSE valid

\* A Kill, a signal or an end_anyway since the epoch was read ended this
\* restart while it had no mark to lose.
MayMark(t) ==
  /\ marked[t] \/ saw[t] = "stopped"
  /\ ended = epoch[t]

Mark(t) ==
  /\ pc[t] = "mark"
  /\ IF MayMark(t) THEN SetMark(t) ELSE UNCHANGED <<pending, refused, valid>>
  /\ Return(t)
  /\ UNCHANGED <<machineVars, stopVars, ended>>

-----------------------------------------------------------------------------
(* Kill: the marker out first, the session next, and back if that failed.  *)

Take(t) ==
  /\ pc[t] = "take"
  /\ mk' = [mk EXCEPT ![t] = table]
  /\ held' = IF table = NoMarker THEN held ELSE table
  /\ table' = NoMarker
  /\ CancelRestart
  /\ Goto(t, "killing")
  /\ UNCHANGED <<machineVars, markerVars, op, resume, saw, marked, epoch, presses>>

\* `kill_session`, which may time out having killed the session all the same.
KillSession(t) ==
  /\ pc[t] = "killing"
  /\ \E done \in BOOLEAN, failed \in BOOLEAN :
       /\ done \/ failed
       /\ session' = (session /\ ~done)
       /\ IF done THEN AgentLost ELSE UNCHANGED aimed
       /\ Goto(t, IF failed THEN "releaseFailed" ELSE "releaseOk")
  /\ UNCHANGED <<otherMarkerVars, agent, table, held, restartVars, localVars>>

Released(m) == IF held = m THEN NoMarker ELSE held

Release(t) ==
  /\ pc[t] = "releaseOk"
  /\ held' = IF mk[t] = NoMarker THEN held ELSE Released(mk[t])
  /\ Goto(t, "wipe")
  /\ UNCHANGED <<machineVars, markerVars, table, restartVars, localVars>>

HandedBack_Always(m) == IF table = NoMarker THEN m ELSE table

\* `setdefault`, and not of a marker its owner withdrew meanwhile.
HandedBack(m) ==
  IF table = NoMarker /\ ~withdrawn[m] THEN m ELSE table

\* The machine could not be read: the request fails.
ReleaseFailed(t) ==
  /\ pc[t] = "releaseFailed"
  /\ IF mk[t] = NoMarker
     THEN UNCHANGED <<held, table>>
     ELSE held' = Released(mk[t]) /\ table' = HandedBack(mk[t])
  /\ Return(t)
  /\ UNCHANGED <<machineVars, markerVars, restartVars>>

\* A Stop that landed while the kill ran marked a row that is gone.
Wipe(t) ==
  /\ pc[t] = "wipe"
  /\ table' = NoMarker
  /\ CancelRestart
  /\ Goto(t, "settle")
  /\ UNCHANGED <<machineVars, markerVars, held, localVars>>

\* /signal: the restart is cancelled before the signal goes.  What the signal
\* does is AgentExits; EndByPid has the handle and the verification.
SignalDetached(t) ==
  /\ pc[t] = "cancel"
  /\ CancelRestart
  /\ Return(t)
  /\ UNCHANGED <<machineVars, stopVars>>

\* `start`, taken as one step: StartOnce has its lock, its grace and its
\* failures.  A refusal is the memory guard, or a spawn that failed.
Startable ==
  /\ Row \in {"stopped", "stale"}
  /\ StartOvertakes \/ \A p \in Procs :
       /\ pc[p] \in {"derive", "settled", "rederive"} => saw[p] # "stopped"
       /\ pc[p] \notin {"releaseOk", "wipe"}

Spawned == session' = TRUE /\ agent' = TRUE

Start(t) ==
  /\ Press(t)
  /\ "start" \in Routes
  /\ table' = Reconciled(Row)
  /\ refused' = RefusalKept(Row)
  /\ Startable /\ Spawned
  /\ UNCHANGED <<markerVars, held, pending, ended, valid, pc, op, mk, resume, saw,
                 marked, epoch>>

-----------------------------------------------------------------------------
(* The sweep: advance_restarts, then expire_stops, once a second.          *)

\* Nothing owed, or a machine that cannot be read: the marks stay.
TickPasses ==
  /\ pc[Ticker] = "restarts"
  /\ Goto(Ticker, "expire")
  /\ UNCHANGED <<machineVars, stopVars, restartVars, localVars>>

TickLook ==
  /\ pc[Ticker] = "restarts"
  /\ pending
  /\ saw' = [saw EXCEPT ![Ticker] = Row]
  /\ Goto(Ticker, "rederive")
  /\ UNCHANGED <<machineVars, stopVars, restartVars, op, mk, resume, marked,
                 epoch, presses>>

TickDerive ==
  /\ pc[Ticker] = "rederive"
  /\ table' = Reconciled(saw[Ticker])
  /\ refused' = RefusalKept(saw[Ticker])
  /\ marked' = [marked EXCEPT ![Ticker] =
                  table # NoMarker /\ saw[Ticker] # "stopped"]
  /\ Goto(Ticker, "consume")
  /\ UNCHANGED <<machineVars, markerVars, held, pending, ended, valid, op, mk,
                 resume, saw, epoch, presses>>

MarkStays_WaitsForAMarker ==
  \/ ~pending
  \/ table # NoMarker
  \/ saw[Ticker] # "stopped"

\* Whether the mark stays as it is: there is none, a stop is in the table, or
\* the row that was read was still stopping.
MarkStays ==
  \/ ~pending
  \/ table # NoMarker
  \/ saw[Ticker] # "stopped" /\ marked[Ticker]

\* The verdict and the removal of the mark, one critical section.
Consume ==
  /\ pc[Ticker] = "consume"
  /\ IF MarkStays
     THEN Goto(Ticker, "expire") /\ UNCHANGED <<pending, valid>>
     ELSE /\ pending' = FALSE
          /\ valid' = valid \ {"mark"}
          /\ Goto(Ticker, IF saw[Ticker] = "stopped" THEN "start"
                                                     ELSE "expire")
  /\ saw' = [saw EXCEPT ![Ticker] = "stopped"]
  /\ marked' = [marked EXCEPT ![Ticker] = FALSE]
  /\ UNCHANGED <<machineVars, stopVars, refused, ended, op, mk, resume, epoch,
                 presses>>

\* `Engine.start`, once; a refusal stays on the row and is never retried.
RestartStarts ==
  /\ pc[Ticker] = "start"
  /\ \/ /\ Startable /\ Spawned
        /\ table' = Reconciled(Row) /\ refused' = RefusalKept(Row)
     \/ /\ UNCHANGED machineVars
        /\ table' \in {table, Reconciled(Row)} /\ refused' = TRUE
  /\ Goto(Ticker, "expire")
  /\ UNCHANGED <<markerVars, held, pending, ended, valid, localVars>>

WaitIsOver ==
  /\ table # NoMarker
  /\ phase[table] = "exiting"
  /\ TypingCanOutlastWait \/ ~typing[table]

ExpireStop ==
  /\ pc[Ticker] = "expire"
  /\ WaitIsOver
  /\ mk' = [mk EXCEPT ![Ticker] = table]
  /\ table' = NoMarker
  /\ pending' = FALSE
  /\ valid' = valid \ {"mark"}
  /\ Goto(Ticker, "expired")
  /\ UNCHANGED <<machineVars, markerVars, held, refused, ended, op, resume, saw,
                 marked, epoch, presses>>

\* Nothing to expire, or nothing yet.
ExpireNothing ==
  /\ pc[Ticker] = "expire"
  /\ Goto(Ticker, "restarts")
  /\ UNCHANGED <<machineVars, stopVars, restartVars, localVars>>

\* end_anyway, after the second look and the handle: it ends a restart as a
\* Kill does.  EndByPid has both looks; what the SIGHUP does is AgentExits.
ExpiredEndsAnyway ==
  /\ pc[Ticker] = "expired"
  /\ EndAnyway
  /\ Row = "running"
  /\ table = NoMarker
  /\ ~withdrawn[mk[Ticker]] /\ ~typing[mk[Ticker]]
  /\ CancelRestart
  /\ mk' = [mk EXCEPT ![Ticker] = NoMarker]
  /\ Goto(Ticker, "restarts")
  /\ UNCHANGED <<machineVars, stopVars, op, resume, saw, marked, epoch,
                 presses>>

\* The report: `get`, which reconciles, and an announcement; or neither, if
\* the machine cannot be read.
ExpiredReports ==
  /\ pc[Ticker] = "expired"
  /\ \/ table' = Reconciled(Row) /\ refused' = RefusalKept(Row)
     \/ UNCHANGED <<table, refused>>
  /\ mk' = [mk EXCEPT ![Ticker] = NoMarker]
  /\ Goto(Ticker, "restarts")
  /\ UNCHANGED <<machineVars, markerVars, held, pending, ended, valid, op,
                 resume, saw, marked, epoch, presses>>

-----------------------------------------------------------------------------
(* The sweep: advance_wrap_ups, at most one in flight.                     *)

\* The snapshot, and a screen that reads finished or a wait at its ceiling.
WrapUpSeen ==
  /\ pc[Wrapper] = "idle"
  /\ table # NoMarker
  /\ phase[table] = "closing" /\ watch[table]
  /\ mk' = [mk EXCEPT ![Wrapper] = table]
  /\ Goto(Wrapper, "captured")
  /\ UNCHANGED <<machineVars, stopVars, restartVars, op, resume, saw, marked,
                 epoch, presses>>

WrapUpClaim ==
  /\ pc[Wrapper] = "captured"
  /\ table = mk[Wrapper] /\ phase[mk[Wrapper]] = "closing"
  /\ SendToExit(mk[Wrapper])
  /\ Goto(Wrapper, "exit")
  /\ UNCHANGED <<machineVars, table, held, restartVars, localVars>>

\* A second Stop claimed it, or a kill or a refusal took it, meanwhile.
WrapUpLost ==
  /\ pc[Wrapper] = "captured"
  /\ ~(table = mk[Wrapper] /\ phase[mk[Wrapper]] = "closing")
  /\ Return(Wrapper)
  /\ UNCHANGED <<machineVars, stopVars, restartVars>>

\* A refused exit ends the stop; the `finally` clears the `typing` of a marker
\* that is nobody's by then.
WrapUpRefused ==
  /\ pc[Wrapper] = "exit"
  /\ Drop(mk[Wrapper])
  /\ Goto(Wrapper, "settle")
  /\ UNCHANGED <<machineVars, held, restartVars, localVars>>

-----------------------------------------------------------------------------
Init ==
  /\ session \in BOOLEAN /\ agent \in BOOLEAN
  /\ phase = [m \in Markers |-> "exiting"]
  /\ watch = [m \in Markers |-> FALSE]
  /\ typing = [m \in Markers |-> FALSE]
  /\ withdrawn = [m \in Markers |-> FALSE]
  /\ aimed = [m \in Markers |-> FALSE]
  /\ table = NoMarker /\ held = NoMarker
  /\ pending = FALSE /\ refused = FALSE /\ ended = 0
  /\ pc = [p \in Procs |-> IF p = Ticker THEN "restarts" ELSE "idle"]
  /\ op = [p \in Procs |-> "none"]
  /\ mk = [p \in Procs |-> NoMarker]
  /\ resume = [p \in Procs |-> FALSE]
  /\ saw = [p \in Procs |-> "stopped"]
  /\ marked = [p \in Procs |-> FALSE]
  /\ epoch = [p \in Procs |-> 0]
  /\ presses = 0
  /\ valid = {}

ThreadStep(t) ==
  \/ Look(t) \/ Derive(t)
  \/ ClaimNothing(t) \/ ClaimExitNow(t) \/ ClaimAfresh(t)
  \/ PromptTyped(t) \/ SetWatch(t) \/ ExitTyped(t) \/ TypingRefused(t)
  \/ Settle(t) \/ Settled(t) \/ SettleUnreadable(t) \/ Mark(t)
  \/ Take(t) \/ KillSession(t) \/ Release(t) \/ ReleaseFailed(t) \/ Wipe(t)
  \/ SignalDetached(t)

TickerStep ==
  \/ TickPasses \/ TickLook \/ TickDerive \/ Consume \/ RestartStarts
  \/ ExpireStop \/ ExpireNothing \/ ExpiredEndsAnyway \/ ExpiredReports

WrapperStep ==
  \/ WrapUpSeen \/ WrapUpClaim \/ WrapUpLost \/ WrapUpRefused
  \/ ExitTyped(Wrapper) \/ Settle(Wrapper) \/ Settled(Wrapper)
  \/ SettleUnreadable(Wrapper)

Next ==
  \/ AgentExits \/ PaneCloses
  \/ \E t \in Threads : \/ \E r \in Routes : Request(t, r)
                        \/ RequestRestart(t) \/ Start(t)
                        \/ ThreadStep(t)
  \/ TickerStep
  \/ WrapperStep

Spec == Init /\ [][Next]_vars

(***************************************************************************)
(* Fairness.  A request that has begun is a thread that runs: every tmux   *)
(* call it makes is bounded by _CALL_TIMEOUT_S, so typing ends one way or  *)
(* the other.  The sweep ticks for the life of the process and outlives    *)
(* any failure; a wait that is over stays over until the tick that ends    *)
(* it, and a machine that can be read is read in the end, which is why     *)
(* ExpireStop and TickLook are named on their own beside the tick.         *)
(* Nothing is assumed of people, agents or panes.                          *)
(***************************************************************************)
Fairness ==
  /\ \A t \in Threads : WF_vars(ThreadStep(t))
  /\ WF_vars(TickerStep) /\ SF_vars(TickLook) /\ SF_vars(ExpireStop)
  /\ WF_vars(WrapperStep)

FairSpec == Spec /\ Fairness

-----------------------------------------------------------------------------
(* Properties.                                                             *)

Typists == {p \in Procs : pc[p] \in {"prompt", "exit"}}

\* No two threads type into the pane of one agent at a time: a second
\* sequence would land in the middle of the first (stop's claim, #406, #427,
\* #432).  Sequences whose agent has gone are no longer anybody's hazard.
OneTypistPerAgent ==
  \A p, q \in Typists :
    (p # q) => ~(aimed[mk[p]] /\ aimed[mk[q]])

\* A marker that reads as being typed has a thread at work on it: one left
\* `closing` with no watch, or with `typing` set and nobody to clear it, made
\* every later Stop a no-op and was invisible to both halves of the sweep
\* (#387, #407).
NoStrandedMarker ==
  table # NoMarker /\ IsTyping(table) =>
    \E p \in Procs : mk[p] = table /\ pc[p] \in {"prompt", "watch", "exit"}

\* A stop its owner withdrew is never back in the table: a failed Kill does
\* not hand back a wait for an exit that was never asked for (#387).
WithdrawnStaysOut == table # NoMarker => ~withdrawn[table]

\* A pending start belongs to a Restart that no Kill, signal or end_anyway
\* has ended since it was pressed, however the cancel, the typing and the
\* mark interleave (restart.request, #472).
RestartOutlivesNoKill == pending => "mark" \in valid

\* Every stop ends: its marker leaves the table, whether by the agent's exit,
\* by expiry, by a refusal or by a Kill, and nobody waits for ever.
EveryStopEnds == table # NoMarker ~> table = NoMarker

\* A Restart is never left owing a start: it is started from, or cleared.
EveryRestartSettles == pending ~> ~pending

\* An agent that starts is nobody's stop: a marker that waits for an exit is
\* waiting for the exit of the agent it was asked of (`stopping` is "a graceful
\* stop is in flight", docs/api.md).
NewAgentIsNotStopping ==
  [][~agent /\ agent' => table' = NoMarker \/ IsTyping(table)']_vars
=============================================================================
