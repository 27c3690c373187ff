------------------------------- MODULE EndByPid -------------------------------
(***************************************************************************)
(* The two paths that end a process by its number instead of by its tmux   *)
(* session (signals.py, sweep.py): /signal on a detached row, with what a  *)
(* person confirmed, and end_anyway on a stop that ran out of time.  Both  *)
(* take a handle, then verify, then signal through the handle.             *)
(*                                                                         *)
(* A look at the machine is two reads, ps and then tmux, and anything can  *)
(* happen between them; a pid is the number of one process after another,  *)
(* and a handle is of one process only.                                    *)
(***************************************************************************)
EXTENDS Naturals, FiniteSets

CONSTANTS
  Threads,         \* the worker threads that run POST /signal
  Ticker,          \* the sweep, in expire_stops for a stop under end_anyway
  Pids,            \* the numbers processes have
  NoPid,           \* Python's None for a pid
  AgentsReusePids, \* whether a start can get the number of an agent that an
                   \* expiry in progress is looking at
  MaxRequests,     \* how many requests and expiries there are (a bound)
  MaxBirths        \* how many processes are born (a bound)

Actors == Threads \cup {Ticker}

ASSUME ActorsAssumption == Ticker \notin Threads
ASSUME PidsAssumption == NoPid \notin Pids
ASSUME BoundsAssumption ==
  AgentsReusePids \in BOOLEAN /\ MaxRequests \in Nat /\ MaxBirths \in Nat

VARIABLES
  proc,     \* what runs under each pid
  session,  \* whether our tmux session is there
  pane,     \* the agent in its pane, if any
  asking,   \* whether a pane with this agent in it shows a prompt, or reads so
  hit,      \* the processes a /signal reached
  hung,     \* the processes an end_anyway reached
  looks,    \* history: which of the two looks saw this process ask
  pc,
  snap,     \* the process table an actor's look began with
  target,   \* the pid an actor is about
  confirm,  \* seen_pid: the pid the person confirmed, if the client sent one
  handle,   \* an actor's pidfd: open on a process that lives, or that has gone
  requests, births

machineVars == <<proc, session, pane, asking, births>>
signalVars  == <<hit, hung, looks>>
localVars   == <<snap, target, confirm, handle, requests>>
vars == <<machineVars, signalVars, pc, localVars>>

(* "ours" is an agent of this row in a folder under its root; "held" one    *)
(* that a foreign tmux session has open; "other" another instance's agent   *)
(* with the same command line; "stranger" any other process.                *)
Kinds == {"none", "ours", "held", "other", "stranger"}
Agents == {"ours", "held", "other"}

PCs == {"idle", "derive", "open", "verifyPs", "verify", "cwd", "send",
        "firstPs", "firstPid", "firstScreen", "settle", "secondPid",
        "secondScreen"}

\* Past the look that named a process.
HasTarget == {"open", "verifyPs", "verify", "cwd", "send", "firstScreen",
              "settle", "secondPid", "secondScreen"}

\* Every variable has its type, and nobody asks about a pid it did not read.
TypeOK ==
  /\ proc \in [Pids -> Kinds]
  /\ session \in BOOLEAN /\ pane \in Pids \cup {NoPid}
  /\ asking \in [Pids -> BOOLEAN]
  /\ hit \in [Pids -> BOOLEAN] /\ hung \in [Pids -> BOOLEAN]
  /\ looks \in [Pids -> SUBSET {"first", "second"}]
  /\ pc \in [Actors -> PCs]
  /\ snap \in [Actors -> [Pids -> Kinds]]
  /\ target \in [Actors -> Pids \cup {NoPid}]
  /\ confirm \in [Actors -> Pids \cup {NoPid}]
  /\ handle \in [Actors -> {"none", "live", "dead"}]
  /\ \A a \in Actors : pc[a] \in HasTarget => target[a] \in Pids
  /\ requests \in Nat /\ births \in Nat

-----------------------------------------------------------------------------
(* Derivation, from the process table of a moment ago and the panes of now. *)

RunningPids(table) == {p \in Pids : session /\ p = pane /\ table[p] \in Agents}

\* `find_detached`: the first that matches, in whatever order ps gave them.
DetachedPids(table) == {p \in Pids : ~session /\ table[p] \in Agents}

\* `held_elsewhere`: a pane we do not own has it, by the ancestry of the table
\* and the panes of now.  (Where a holder goes between the two reads, a server
\* above the agent still refuses it: that refusal is Refused.)
HeldElsewhere(table, p) == table[p] = "held" /\ proc[p] = "held"

Goto(a, to) == pc' = [pc EXCEPT ![a] = to]

\* Every way out closes the handle.
Return(a) ==
  /\ Goto(a, "idle")
  /\ handle' = [handle EXCEPT ![a] = "none"]
  /\ target' = [target EXCEPT ![a] = NoPid]
  /\ confirm' = [confirm EXCEPT ![a] = NoPid]
  /\ snap' = [snap EXCEPT ![a] = [p \in Pids |-> "none"]]
  /\ UNCHANGED requests

\* The first half of a look: `procs_fn`.
ReadPs(a, from, to) ==
  /\ pc[a] = from
  /\ snap' = [snap EXCEPT ![a] = proc]
  /\ Goto(a, to)
  /\ UNCHANGED <<machineVars, signalVars, target, confirm, handle, requests>>

-----------------------------------------------------------------------------
(* The machine.                                                            *)

Exits(p) ==
  /\ proc[p] # "none"
  /\ proc' = [proc EXCEPT ![p] = "none"]
  /\ hit' = [hit EXCEPT ![p] = FALSE]
  /\ hung' = [hung EXCEPT ![p] = FALSE]
  /\ looks' = [looks EXCEPT ![p] = {}]
  /\ handle' = [a \in Actors |->
       IF target[a] = p /\ handle[a] = "live" THEN "dead" ELSE handle[a]]
  /\ IF pane = p
     THEN pane' = NoPid /\ session' \in {session, FALSE}
     ELSE UNCHANGED <<pane, session>>
  /\ UNCHANGED <<asking, births, pc, snap, target, confirm, requests>>

\* A Kill, or somebody at a terminal: the agent may outlive its pane.
PaneCloses ==
  /\ session
  /\ session' = FALSE /\ pane' = NoPid
  /\ UNCHANGED <<proc, asking, births, signalVars, pc, localVars>>

Born(p, kind) ==
  /\ births < MaxBirths
  /\ births' = births + 1
  /\ proc[p] = "none"
  /\ proc' = [proc EXCEPT ![p] = kind]

\* `start`, which finds no agent of this row (StartOnce has its steps).
Start(p) ==
  /\ Born(p, "ours")
  /\ \A q \in Pids : proc[q] \notin Agents
  /\ AgentsReusePids \/ target[Ticker] # p
  /\ session' = TRUE /\ pane' = p
  /\ asking' = [asking EXCEPT ![p] = FALSE]
  /\ UNCHANGED <<signalVars, pc, localVars>>

\* A process nothing here started.
Appears(p, kind) ==
  /\ Born(p, kind)
  /\ UNCHANGED <<session, pane, asking, signalVars, pc, localVars>>

\* The terminal that held an agent closes, and the agent goes on.
HolderCloses(p) ==
  /\ proc[p] = "held"
  /\ proc' = [proc EXCEPT ![p] = "ours"]
  /\ UNCHANGED <<session, pane, asking, births, signalVars, pc, localVars>>

ScreenChanges ==
  /\ session /\ pane # NoPid
  /\ asking' = [asking EXCEPT ![pane] = ~asking[pane]]
  /\ UNCHANGED <<proc, session, pane, births, signalVars, pc, localVars>>

-----------------------------------------------------------------------------
(* /signal.                                                                *)

\* The person confirms a pid the page shows them, or the client sends none.
Request(t) ==
  /\ pc[t] = "idle" /\ requests < MaxRequests
  /\ requests' = requests + 1
  /\ \E shown \in {NoPid} \cup DetachedPids(proc) :
       confirm' = [confirm EXCEPT ![t] = shown]
  /\ snap' = [snap EXCEPT ![t] = proc]
  /\ Goto(t, "derive")
  /\ UNCHANGED <<machineVars, signalVars, target, handle>>

\* Refused before any handle: a row that is not detached, an owner we see, or
\* a pid that is not the one confirmed.
RowMayEnd(t, p) ==
  /\ p \in DetachedPids(snap[t])
  /\ ~HeldElsewhere(snap[t], p)
  /\ confirm[t] \in {NoPid, p}

Derive(t) ==
  /\ pc[t] = "derive"
  /\ \E p \in Pids :
       /\ RowMayEnd(t, p)
       /\ target' = [target EXCEPT ![t] = p]
  /\ Goto(t, "open")
  /\ UNCHANGED <<machineVars, signalVars, snap, confirm, handle, requests>>

\* `pidfd_open`, of whatever has the number now.
Open(a) ==
  /\ pc[a] = "open"
  /\ proc[target[a]] # "none"
  /\ handle' = [handle EXCEPT ![a] = "live"]
  /\ Goto(a, "verifyPs")
  /\ UNCHANGED <<machineVars, signalVars, snap, target, confirm, requests>>

VerifyPs(a) == ReadPs(a, "verifyPs", "verify")

VerifyDetached(t) ==
  /\ pc[t] = "verify" /\ t \in Threads
  /\ target[t] \in DetachedPids(snap[t])
  /\ ~HeldElsewhere(snap[t], target[t])
  /\ Goto(t, "cwd")
  /\ UNCHANGED <<machineVars, signalVars, localVars>>

\* The directory the command line does not carry, read of the number (#264).
CheckCwd(t) ==
  /\ pc[t] = "cwd"
  /\ proc[target[t]] \in {"ours", "held"}
  /\ Goto(t, "send")
  /\ UNCHANGED <<machineVars, signalVars, localVars>>

SignalReaches_ByNumber(a) == proc[target[a]] # "none"

\* `pidfd_send_signal`: the process the handle is of, or ESRCH.
SignalReaches(a) == handle[a] = "live"

Send(t) ==
  /\ pc[t] = "send" /\ t \in Threads
  /\ SignalReaches(t)
  /\ hit' = [hit EXCEPT ![target[t]] = TRUE]
  /\ Return(t)
  /\ UNCHANGED <<machineVars, hung, looks>>

\* A refusal at any step, or a machine that cannot be read: nothing is sent.
Refused(t) ==
  /\ pc[t] # "idle"
  /\ Return(t)
  /\ UNCHANGED <<machineVars, signalVars>>

-----------------------------------------------------------------------------
(* end_anyway.                                                             *)

Expire ==
  /\ pc[Ticker] = "idle" /\ requests < MaxRequests
  /\ requests' = requests + 1
  /\ looks' = [p \in Pids |-> {}]
  /\ Goto(Ticker, "firstPs")
  /\ UNCHANGED <<machineVars, hit, hung, snap, target, confirm, handle>>

FirstPs == ReadPs(Ticker, "firstPs", "firstPid")

\* The agent, read before its screen (#418).
FirstPid ==
  /\ pc[Ticker] = "firstPid"
  /\ \E p \in RunningPids(snap[Ticker]) :
       target' = [target EXCEPT ![Ticker] = p]
  /\ Goto(Ticker, "firstScreen")
  /\ UNCHANGED <<machineVars, signalVars, snap, confirm, handle, requests>>

\* `_pane_needs_a_person`, of whatever the pane holds now.
ScreenAsks(which) ==
  /\ session /\ pane # NoPid /\ asking[pane]
  /\ looks' = [looks EXCEPT ![pane] = @ \cup {which}]

FirstScreen ==
  /\ pc[Ticker] = "firstScreen"
  /\ ScreenAsks("first")
  /\ Goto(Ticker, "settle")
  /\ UNCHANGED <<machineVars, hit, hung, localVars>>

\* A settle later, if the stop is still nobody's: the pid again ...
SecondPs == ReadPs(Ticker, "settle", "secondPid")

SameAgent(p) == p \in RunningPids(snap[Ticker])

SecondPid ==
  /\ pc[Ticker] = "secondPid"
  /\ SameAgent(target[Ticker])
  /\ Goto(Ticker, "secondScreen")
  /\ UNCHANGED <<machineVars, signalVars, localVars>>

\* ... and its screen again (#429).
SecondScreen ==
  /\ pc[Ticker] = "secondScreen"
  /\ ScreenAsks("second")
  /\ Goto(Ticker, "open")
  /\ UNCHANGED <<machineVars, hit, hung, localVars>>

StillTheRows_Unverified(p) == TRUE

\* After the handle: the row's agent is still the one that was looked at.
StillTheRows(p) == p \in RunningPids(snap[Ticker])

VerifyRunning ==
  /\ pc[Ticker] = "verify"
  /\ StillTheRows(target[Ticker])
  /\ Goto(Ticker, "send")
  /\ UNCHANGED <<machineVars, signalVars, localVars>>

SendHangup ==
  /\ pc[Ticker] = "send"
  /\ SignalReaches(Ticker)
  /\ hung' = [hung EXCEPT ![target[Ticker]] = TRUE]
  /\ Return(Ticker)
  /\ UNCHANGED <<machineVars, hit, looks>>

-----------------------------------------------------------------------------
Init ==
  /\ session \in BOOLEAN
  /\ \E first \in Pids, kind \in Kinds :
       /\ proc = [p \in Pids |-> IF p = first THEN kind ELSE "none"]
       /\ pane \in {NoPid} \cup {p \in Pids : session /\ proc[p] = "ours"}
  /\ asking = [p \in Pids |-> FALSE]
  /\ hit = [p \in Pids |-> FALSE] /\ hung = [p \in Pids |-> FALSE]
  /\ looks = [p \in Pids |-> {}]
  /\ pc = [a \in Actors |-> "idle"]
  /\ snap = [a \in Actors |-> [p \in Pids |-> "none"]]
  /\ target = [a \in Actors |-> NoPid]
  /\ confirm = [a \in Actors |-> NoPid]
  /\ handle = [a \in Actors |-> "none"]
  /\ requests = 0 /\ births = 0

MachineStep ==
  \/ \E p \in Pids : Exits(p) \/ Start(p) \/ HolderCloses(p)
  \/ \E p \in Pids, kind \in {"held", "other", "stranger"} : Appears(p, kind)
  \/ PaneCloses \/ ScreenChanges

SignalStep(t) ==
  \/ Request(t) \/ Derive(t) \/ VerifyDetached(t) \/ CheckCwd(t) \/ Send(t)

ExpiryStep ==
  \/ Expire \/ FirstPs \/ FirstPid \/ FirstScreen \/ SecondPs \/ SecondPid
  \/ SecondScreen \/ VerifyRunning \/ SendHangup

Next ==
  \/ MachineStep
  \/ \E t \in Threads : SignalStep(t)
  \/ ExpiryStep
  \/ \E a \in Actors : Open(a) \/ VerifyPs(a) \/ Refused(a)

Spec == Init /\ [][Next]_vars

-----------------------------------------------------------------------------
(* Properties.                                                             *)

\* A /signal reaches an agent of this row, run under its root, that no screen
\* has open: never another process that got the number since, another
\* instance's agent, one held elsewhere or the one our own session owns
\* (signal_detached, #107, #264).
OnlyDetachedAgentsAreSignalled ==
  [][\A p \in Pids : hit'[p] /\ ~hit[p] => proc[p] = "ours" /\ pane # p]_vars

\* end_anyway ends the agent that was waiting on a person at both looks, and
\* no agent that took its place since (#418, #429).
EndAnywayEndsWhoAsked ==
  [][\A p \in Pids : hung'[p] /\ ~hung[p] =>
       proc[p] \in Agents /\ looks[p] = {"first", "second"}]_vars
=============================================================================
