------------------------------ MODULE StartOnce ------------------------------
(***************************************************************************)
(* Start, with what it can lose to: its lock on the folder, the memory     *)
(* guard, the old session it closes, the spawn that may time out half      *)
(* done, the wait for the agent to appear, and the clean up of a start     *)
(* that did not come up; beside other Starts and Kills (engine.py), over   *)
(* looks made of two reads, ps before tmux (derive.py).                    *)
(*                                                                         *)
(* Memory is counted in sessions: Room is how many the machine has above   *)
(* its hard floor, and an agent takes up its share some time after it      *)
(* appeared.                                                               *)
(***************************************************************************)
EXTENDS Naturals, FiniteSets

CONSTANTS
  Threads,      \* the worker threads that run a request
  Folders,      \* the projects, one directory each
  Agents,       \* the identities an agent's process can have
  NoAgent,      \* a pane whose process is gone
  Room,         \* how many sessions fit above the hard floor
  SoftRoom,     \* how many sessions the soft floor is above the hard one
  StartsSlowly, \* whether a start can be over, failed, before the agent it
                \* spawned shows its command line in ps
  OtherWindows, \* whether a session can lose its agent's pane and stay, for
                \* another window somebody opened in it
  MaxRequests   \* how many requests are made (bounds the model)

ASSUME FoldersAssumption == Folders # {}
ASSUME AgentsAssumption == NoAgent \notin Agents
ASSUME SettingsAssumption ==
  /\ Room \in Nat /\ SoftRoom \in Nat /\ MaxRequests \in Nat
  /\ StartsSlowly \in BOOLEAN /\ OtherWindows \in BOOLEAN

VARIABLES
  alive,    \* the agents that run
  visible,  \* those of them that ps shows with an agent's command line
  grown,    \* those of them that have taken their memory
  folder,   \* the folder each agent was started in
  session,  \* the folders that have our tmux session
  pane,     \* what the pane of each session holds
  keep,     \* the sessions with remain-on-exit on
  starting, \* engine._starting
  pc,
  op,       \* "start" or "kill"
  row,      \* the folder a request is about
  ack,      \* `acknowledged`, of a start
  table,    \* the process table a thread's look began with
  saw,      \* the state that look derived
  requests

machineVars == <<alive, visible, grown, folder>>
tmuxVars    == <<session, pane, keep>>
localVars   == <<op, row, ack, requests>>
lookVars    == <<table, saw>>
vars == <<machineVars, tmuxVars, starting, pc, localVars, lookVars>>

States == {"running", "stale", "detached", "stopped"}

PCs == {"idle", "ps", "tmux", "decide", "killOld", "spawn", "abandon",
        "awaitPs", "awaitTmux", "await", "release", "failed", "killDead",
        "kill"}

TypeOK ==
  /\ alive \subseteq Agents /\ visible \subseteq alive /\ grown \subseteq alive
  /\ folder \in [Agents -> Folders]
  /\ session \subseteq Folders /\ keep \subseteq session
  /\ pane \in [Folders -> alive \cup {NoAgent}]
  /\ starting \subseteq Folders
  /\ pc \in [Threads -> PCs]
  /\ op \in [Threads -> {"start", "kill"}]
  /\ row \in [Threads -> Folders]
  /\ ack \in [Threads -> BOOLEAN]
  /\ table \in [Threads -> SUBSET Agents]
  /\ saw \in [Threads -> States]
  /\ requests \in Nat

-----------------------------------------------------------------------------
(* Derivation, from the process table of a moment ago and the panes of now. *)

State(f, ps) ==
  IF f \in session
  THEN (IF pane[f] \in ps THEN "running" ELSE "stale")
  ELSE (IF \E a \in ps : folder[a] = f THEN "detached" ELSE "stopped")

Goto(t, to) == pc' = [pc EXCEPT ![t] = to]

ReadPs(t, from, to) ==
  /\ pc[t] = from
  /\ table' = [table EXCEPT ![t] = visible]
  /\ Goto(t, to)
  /\ UNCHANGED <<machineVars, tmuxVars, starting, localVars, saw>>

ReadTmux(t, from, to) ==
  /\ pc[t] = from
  /\ saw' = [saw EXCEPT ![t] = State(row[t], table[t])]
  /\ table' = [table EXCEPT ![t] = {}]
  /\ Goto(t, to)
  /\ UNCHANGED <<machineVars, tmuxVars, starting, localVars>>

\* `kill-session`: it returns before the process it hung up on is gone, which
\* Exits is.
CloseSession(f) ==
  /\ session' = session \ {f}
  /\ keep' = keep \ {f}
  /\ pane' = [pane EXCEPT ![f] = NoAgent]

-----------------------------------------------------------------------------
(* The machine.                                                            *)

\* A pane closes behind its process unless it was told to remain.
Exits(a) ==
  /\ a \in alive
  /\ alive' = alive \ {a} /\ visible' = visible \ {a} /\ grown' = grown \ {a}
  /\ session' = session \ {f \in Folders : pane[f] = a /\ f \notin keep}
  /\ pane' = [f \in Folders |-> IF pane[f] = a THEN NoAgent ELSE pane[f]]
  /\ UNCHANGED <<folder, keep, starting, pc, localVars, lookVars>>

Appears(a) ==
  /\ a \in alive \ visible
  /\ visible' = visible \cup {a}
  /\ UNCHANGED <<alive, grown, folder, tmuxVars, starting, pc, localVars, lookVars>>

Grows(a) ==
  /\ a \in visible \ grown
  /\ grown' = grown \cup {a}
  /\ UNCHANGED <<alive, visible, folder, tmuxVars, starting, pc, localVars, lookVars>>

\* Somebody closes the agent's pane; the agent may survive the hangup.
PaneCloses(f) ==
  /\ pane[f] # NoAgent
  /\ \/ CloseSession(f)
     \/ /\ OtherWindows
        /\ pane' = [pane EXCEPT ![f] = NoAgent]
        /\ UNCHANGED <<session, keep>>
  /\ UNCHANGED <<machineVars, starting, pc, localVars, lookVars>>

-----------------------------------------------------------------------------
(* Requests.                                                               *)

Press(t, f, what, to) ==
  /\ pc[t] = "idle" /\ requests < MaxRequests
  /\ requests' = requests + 1
  /\ op' = [op EXCEPT ![t] = what]
  /\ row' = [row EXCEPT ![t] = f]
  /\ Goto(t, to)
  /\ UNCHANGED <<machineVars, tmuxVars, lookVars>>

Lockable_NotAsked(f) == TRUE

Lockable(f) == f \notin starting

\* Held from here to the end of the start, whichever end; a second Start of
\* the folder meanwhile is refused, with nothing changed.
PressStart(t, f) ==
  /\ Press(t, f, "start", "ps")
  /\ Lockable(f)
  /\ starting' = starting \cup {f}
  /\ \E acknowledged \in BOOLEAN : ack' = [ack EXCEPT ![t] = acknowledged]

PressKill(t, f) ==
  /\ Press(t, f, "kill", "ps")
  /\ UNCHANGED <<starting, ack>>

LookPs(t) == ReadPs(t, "ps", "tmux")
LookTmux(t) == ReadTmux(t, "tmux", "decide")

\* Where a start's agent is slow to appear, the end of the start does not wait.
MayEnd(t) ==
  StartsSlowly \/ \A a \in alive : folder[a] = row[t] => a \in visible

Unlocked_OnSuccess(t) ==
  IF pc[t] = "release" THEN starting \ {row[t]} ELSE starting

\* The `finally` of `start`.
Unlocked(t) == IF op[t] = "start" THEN starting \ {row[t]} ELSE starting

Return(t) ==
  /\ op[t] = "start" => MayEnd(t)
  /\ starting' = Unlocked(t)
  /\ Goto(t, "idle")
  /\ op' = [op EXCEPT ![t] = "kill"]
  /\ ack' = [ack EXCEPT ![t] = FALSE]
  /\ saw' = [saw EXCEPT ![t] = "stopped"]
  /\ table' = [table EXCEPT ![t] = {}]
  /\ UNCHANGED <<row, requests>>

\* A machine that cannot be read ends the request, at every look it makes.
Unreadable(t) ==
  /\ pc[t] \in {"ps", "tmux", "awaitPs", "awaitTmux"}
  /\ Return(t)
  /\ UNCHANGED <<machineVars, tmuxVars>>

-----------------------------------------------------------------------------
(* Start: the refusals, and the spawn.                                     *)

Startable_Detached(s) == s \in {"stopped", "stale", "detached"}

\* DETACHED counts as running: an agent that outlived its terminal.
Startable(s) == s \in {"stopped", "stale"}

\* `ram.guard`, of what is left after this start.
Affordable(t) ==
  LET available == Room - Cardinality(grown)
  IN  /\ available >= 1
      /\ available >= 1 + SoftRoom \/ ack[t]

Refused(t) ==
  /\ pc[t] = "decide" /\ op[t] = "start"
  /\ ~Startable(saw[t]) \/ ~Affordable(t)
  /\ Return(t)
  /\ UNCHANGED <<machineVars, tmuxVars>>

Proceed(t) ==
  /\ pc[t] = "decide" /\ op[t] = "start"
  /\ Startable(saw[t]) /\ Affordable(t)
  /\ Goto(t, IF saw[t] = "stale" THEN "killOld" ELSE "spawn")
  /\ UNCHANGED <<machineVars, tmuxVars, starting, localVars, lookVars>>

\* The terminal with no agent in it, closed; tmux may time out having done so.
KillOld(t) ==
  /\ pc[t] = "killOld"
  /\ \/ CloseSession(row[t]) /\ (Goto(t, "spawn") \/ Goto(t, "abandon"))
     \/ UNCHANGED tmuxVars /\ Goto(t, "abandon")
  /\ UNCHANGED <<machineVars, starting, localVars, lookVars>>

\* No pid is the number of two processes anybody still speaks of.
Unused ==
  {a \in Agents \ alive : /\ \A t \in Threads : a \notin table[t]
                          /\ \A f \in Folders : pane[f] # a}

\* `new-session` with remain-on-exit chained to it: made, or not made and not
\* said so, or timed out either way.
Spawn(t) ==
  /\ pc[t] = "spawn"
  /\ \/ /\ row[t] \notin session /\ Unused # {}
        /\ LET a == CHOOSE x \in Unused : TRUE
           IN  /\ alive' = alive \cup {a}
               /\ folder' = [folder EXCEPT ![a] = row[t]]
               /\ pane' = [pane EXCEPT ![row[t]] = a]
        /\ session' = session \cup {row[t]}
        /\ keep' = keep \cup {row[t]}
        /\ UNCHANGED <<visible, grown>>
     \/ UNCHANGED <<machineVars, tmuxVars>>
  /\ Goto(t, "awaitPs") \/ Goto(t, "abandon")
  /\ UNCHANGED <<starting, localVars, lookVars>>

\* `_abandon_partial_session`: it asks tmux, which may still not answer.
Abandon(t) ==
  /\ pc[t] = "abandon"
  /\ CloseSession(row[t]) \/ UNCHANGED tmuxVars
  /\ Return(t)
  /\ UNCHANGED machineVars

-----------------------------------------------------------------------------
(* Start: the wait for the agent, and what is done when none came.         *)

AwaitPs(t) == ReadPs(t, "awaitPs", "awaitTmux")
AwaitTmux(t) == ReadTmux(t, "awaitTmux", "await")

Running(t) ==
  /\ pc[t] = "await" /\ saw[t] = "running"
  /\ Goto(t, "release")
  /\ UNCHANGED <<machineVars, tmuxVars, starting, localVars, lookVars>>

PollAgain(t) ==
  /\ pc[t] = "await" /\ saw[t] # "running"
  /\ Goto(t, "awaitPs")
  /\ UNCHANGED <<machineVars, tmuxVars, starting, localVars, lookVars>>

\* start_grace is over: is its pane dead?
GiveUp(t) ==
  /\ pc[t] = "await" /\ saw[t] # "running"
  /\ MayEnd(t)
  /\ Goto(t, "failed")
  /\ UNCHANGED <<machineVars, tmuxVars, starting, localVars, lookVars>>

PaneIsDead(f) == f \in session /\ pane[f] = NoAgent

FoundDead(t) ==
  /\ pc[t] = "failed"
  /\ PaneIsDead(row[t])
  /\ Goto(t, "killDead")
  /\ UNCHANGED <<machineVars, tmuxVars, starting, localVars, lookVars>>

\* Alive, or not to be determined: left as it is.
LeftAlone(t) ==
  /\ pc[t] = "failed"
  /\ Return(t)
  /\ UNCHANGED <<machineVars, tmuxVars>>

KillDead(t) ==
  /\ pc[t] = "killDead"
  /\ CloseSession(row[t]) \/ UNCHANGED tmuxVars
  /\ Return(t)
  /\ UNCHANGED machineVars

\* `_release_pane`, never fatal.
ReleasePane(t) ==
  /\ pc[t] = "release"
  /\ keep' \in {keep, keep \ {row[t]}}
  /\ Return(t)
  /\ UNCHANGED <<machineVars, session, pane>>

-----------------------------------------------------------------------------
(* Kill, of this module's concern: it closes a session whoever is in it    *)
(* (StopProtocol has the stop it takes over).                              *)

MayKill(t) ==
  /\ pc[t] = "decide" /\ op[t] = "kill"
  /\ IF saw[t] \in {"running", "stale"}
     THEN /\ Goto(t, "kill")
          /\ UNCHANGED <<starting, localVars, lookVars>>
     ELSE Return(t)
  /\ UNCHANGED <<machineVars, tmuxVars>>

Kill(t) ==
  /\ pc[t] = "kill"
  /\ CloseSession(row[t]) \/ UNCHANGED tmuxVars
  /\ Return(t)
  /\ UNCHANGED machineVars

-----------------------------------------------------------------------------
\* What was there when the server came up: at most one agent in a folder, in
\* its session or outliving it, and sessions of folders with none.
Init ==
  /\ alive \in SUBSET Agents /\ visible = alive /\ grown = alive
  /\ Cardinality(alive) <= Room
  /\ folder \in [Agents -> Folders]
  /\ \A a, b \in alive : folder[a] = folder[b] => a = b
  /\ session \in SUBSET Folders
  /\ pane \in [Folders -> alive \cup {NoAgent}]
  /\ \A f \in Folders :
       pane[f] # NoAgent => f \in session /\ folder[pane[f]] = f
  /\ \A a \in alive : folder[a] \in session => pane[folder[a]] = a
  /\ keep = {}
  /\ starting = {}
  /\ pc = [t \in Threads |-> "idle"]
  /\ op = [t \in Threads |-> "kill"]
  /\ row = [t \in Threads |-> CHOOSE f \in Folders : TRUE]
  /\ ack = [t \in Threads |-> FALSE]
  /\ table = [t \in Threads |-> {}]
  /\ saw = [t \in Threads |-> "stopped"]
  /\ requests = 0

ThreadStep(t) ==
  \/ LookPs(t) \/ LookTmux(t) \/ Unreadable(t)
  \/ Refused(t) \/ Proceed(t) \/ KillOld(t) \/ Spawn(t) \/ Abandon(t)
  \/ AwaitPs(t) \/ AwaitTmux(t) \/ Running(t) \/ PollAgain(t) \/ GiveUp(t)
  \/ FoundDead(t) \/ LeftAlone(t) \/ KillDead(t) \/ ReleasePane(t)
  \/ MayKill(t) \/ Kill(t)

Next ==
  \/ \E a \in Agents : Exits(a) \/ Appears(a) \/ Grows(a)
  \/ \E f \in Folders : PaneCloses(f)
  \/ \E t \in Threads, f \in Folders : PressStart(t, f) \/ PressKill(t, f)
  \/ \E t \in Threads : ThreadStep(t)

Spec == Init /\ [][Next]_vars

-----------------------------------------------------------------------------
(* Properties.                                                             *)

\* No start puts a second agent in a folder, however Starts, Kills, timeouts
\* and half done spawns fall (`_start_locked`, `derive.look`, #49).
OneAgentPerFolder ==
  \A a, b \in alive : folder[a] = folder[b] => a = b

\* The clean up of a start that did not come up never ends an agent: between
\* finding the pane dead and closing its session nothing alive gets into it
\* (`_dead_start_output`, #66).
FailedStartEndsNobody ==
  \A t \in Threads : pc[t] = "killDead" => pane[row[t]] = NoAgent

\* A folder is locked exactly while one start of it is at work: a second one
\* is refused, and a lock that outlived a failed start would make the folder
\* unstartable (`start`).
LockedWhileStarting ==
  /\ \A f \in starting : \E t \in Threads : op[t] = "start" /\ row[t] = f
  /\ \A t, u \in Threads :
       op[t] = "start" /\ op[u] = "start" /\ row[t] = row[u] =>
         t = u /\ row[t] \in starting

\* The machine has room for what was started, each session at its full size:
\* "Memory exhaustion from one tap per session" is what the guard is against
\* (docs/superpowers/specs/2026-08-25-hitchrail-design.md, threat table).  It
\* does not hold: with Room = 1 TLC has two starts in two folders read the
\* same memory and both pass the guard (the README, "Known disagreements").
RoomForAll == Cardinality(alive) <= Room
=============================================================================
