--------------------------- MODULE StartOnceProofs ---------------------------
(***************************************************************************)
(* What StartOnce promises, for every number of threads, folders, agents   *)
(* and requests: one start of a folder at a time, one agent in a folder,   *)
(* and no start that failed ends a live one.                               *)
(***************************************************************************)
EXTENDS StartOnce, TLAPS

USE FoldersAssumption, AgentsAssumption, SettingsAssumption

MachineTypeOK ==
  /\ alive \subseteq Agents /\ visible \subseteq alive /\ grown \subseteq alive
  /\ folder \in [Agents -> Folders]
  /\ session \subseteq Folders /\ keep \subseteq session
  /\ pane \in [Folders -> alive \cup {NoAgent}]

ThreadTypeOK ==
  /\ starting \subseteq Folders
  /\ pc \in [Threads -> PCs]
  /\ op \in [Threads -> {"start", "kill"}]
  /\ row \in [Threads -> Folders]
  /\ ack \in [Threads -> BOOLEAN]
  /\ table \in [Threads -> SUBSET Agents]
  /\ saw \in [Threads -> States]
  /\ requests \in Nat

(* A thread is at work on a start between its press and its return.        *)
AtWork == {"killOld", "spawn", "abandon", "awaitPs", "awaitTmux", "await",
           "release", "failed", "killDead"}

PhaseInv ==
  \A t \in Threads :
    /\ pc[t] = "idle" => op[t] = "kill"
    /\ pc[t] = "kill" => op[t] = "kill"
    /\ pc[t] \in AtWork => op[t] = "start"

LockInv == PhaseInv /\ LockedWhileStarting

AfterSpawn == AtWork \ {"killOld", "spawn"}

PaneIsTheRows ==
  \A f \in Folders : pane[f] # NoAgent => f \in session /\ folder[pane[f]] = f

\* A session that is there hides no agent of its folder: it has it.
SessionHasAgent ==
  \A a \in alive : folder[a] \in session => pane[folder[a]] = a

\* An agent no look can find yet is one a start still waits for.
HiddenIsAwaited ==
  \A a \in alive \ visible :
    \E t \in Threads :
      op[t] = "start" /\ row[t] = folder[a] /\ pc[t] \in AfterSpawn

\* What a start read before it acts: nobody can have come since but by it.
LookMissesNobody ==
  \A t \in Threads : op[t] = "start" /\ pc[t] = "tmux" =>
    \A a \in alive : folder[a] = row[t] => a \in table[t]

ClearToSpawn ==
  \A t \in Threads :
    \/ op[t] = "start" /\ pc[t] = "decide" /\ Startable(saw[t])
    \/ pc[t] \in {"killOld", "spawn"}
    => \A a \in alive : folder[a] # row[t]

FolderInv ==
  /\ PaneIsTheRows /\ SessionHasAgent /\ HiddenIsAwaited
  /\ LookMissesNobody /\ ClearToSpawn /\ OneAgentPerFolder

-----------------------------------------------------------------------------
(* Types.                                                                  *)

LEMMA TypeParts == TypeOK <=> MachineTypeOK /\ ThreadTypeOK
BY DEF TypeOK, MachineTypeOK, ThreadTypeOK

LEMMA MachineTypeStep ==
  ASSUME MachineTypeOK, ThreadTypeOK, [Next]_vars
  PROVE  MachineTypeOK'
<1> USE DEF MachineTypeOK, Goto
<1>0. CASE UNCHANGED vars
  BY <1>0 DEF vars, machineVars, tmuxVars, localVars, lookVars
<1>1. ASSUME NEW a \in Agents, Exits(a)
      PROVE  MachineTypeOK'
  <2>1. /\ alive' = alive \ {a} /\ visible' = visible \ {a}
        /\ grown' = grown \ {a} /\ UNCHANGED <<folder, keep>>
    BY <1>1 DEF Exits
  <2>2. session' = session \ {f \in Folders : pane[f] = a /\ f \notin keep}
    BY <1>1 DEF Exits
  <2>3. pane' \in [Folders -> alive' \cup {NoAgent}]
    BY <1>1, <2>1 DEF Exits
  <2> QED
    BY <2>1, <2>2, <2>3
<1>2. ASSUME NEW a \in Agents, Appears(a)
      PROVE  MachineTypeOK'
  BY <1>2 DEF Appears, tmuxVars, localVars, lookVars
<1>3. ASSUME NEW a \in Agents, Grows(a)
      PROVE  MachineTypeOK'
  BY <1>3 DEF Grows, tmuxVars, localVars, lookVars
<1>4. ASSUME NEW f \in Folders, PaneCloses(f)
      PROVE  MachineTypeOK'
  <2>1. CASE CloseSession(f)
    BY <1>4, <2>1 DEF PaneCloses, CloseSession, machineVars
  <2>2. CASE pane' = [pane EXCEPT ![f] = NoAgent] /\ UNCHANGED <<session, keep>>
    BY <1>4, <2>2 DEF PaneCloses, machineVars
  <2> QED
    BY <1>4, <2>1, <2>2 DEF PaneCloses
<1>5. ASSUME NEW t \in Threads, NEW f \in Folders,
               PressStart(t, f)
      PROVE  MachineTypeOK'
  BY <1>5 DEF PressStart, Press, Lockable, machineVars, tmuxVars, lookVars
<1>6. ASSUME NEW t \in Threads, NEW f \in Folders,
               PressKill(t, f)
      PROVE  MachineTypeOK'
  BY <1>6 DEF PressKill, Press, machineVars, tmuxVars, lookVars
<1>7. ASSUME NEW t \in Threads, LookPs(t)
      PROVE  MachineTypeOK'
  BY <1>7 DEF LookPs, ReadPs, machineVars, tmuxVars, localVars
<1>8. ASSUME NEW t \in Threads, LookTmux(t)
      PROVE  MachineTypeOK'
  BY <1>8 DEF LookTmux, ReadTmux, machineVars, tmuxVars, localVars
<1>9. ASSUME NEW t \in Threads, Unreadable(t)
      PROVE  MachineTypeOK'
  BY <1>9 DEF Unreadable, machineVars, tmuxVars
<1>10. ASSUME NEW t \in Threads, Refused(t)
      PROVE  MachineTypeOK'
  BY <1>10 DEF Refused, machineVars, tmuxVars
<1>11. ASSUME NEW t \in Threads, Proceed(t)
      PROVE  MachineTypeOK'
  BY <1>11 DEF Proceed, machineVars, tmuxVars, localVars, lookVars
<1>12. ASSUME NEW t \in Threads, KillOld(t)
      PROVE  MachineTypeOK'
  BY <1>12 DEF KillOld, CloseSession, machineVars, tmuxVars, localVars,
     lookVars
<1>13. ASSUME NEW t \in Threads, Spawn(t)
      PROVE  MachineTypeOK'
  <2>1. CASE UNCHANGED <<machineVars, tmuxVars>>
    BY <2>1 DEF machineVars, tmuxVars
  <2>2. ASSUME NEW a \in Agents,
               alive' = alive \cup {a},
               folder' = [folder EXCEPT ![a] = row[t]],
               pane' = [pane EXCEPT ![row[t]] = a],
               session' = session \cup {row[t]},
               keep' = keep \cup {row[t]},
               UNCHANGED <<visible, grown>>
        PROVE  MachineTypeOK'
    <3>1. row[t] \in Folders
      BY DEF ThreadTypeOK
    <3>2. alive' \subseteq Agents /\ visible' \subseteq alive' /\ grown' \subseteq alive'
      BY <2>2
    <3>3. session' \subseteq Folders /\ keep' \subseteq session'
      BY <2>2, <3>1
    <3>4. folder' \in [Agents -> Folders]
      BY <2>2, <3>1
    <3>5. pane' \in [Folders -> alive' \cup {NoAgent}]
      BY <2>2, <3>1
    <3> QED
      BY <3>2, <3>3, <3>4, <3>5
  <2> QED
    BY <1>13, <2>1, <2>2 DEF Spawn, Unused
<1>14. ASSUME NEW t \in Threads, Abandon(t)
      PROVE  MachineTypeOK'
  BY <1>14 DEF Abandon, CloseSession, machineVars, tmuxVars
<1>15. ASSUME NEW t \in Threads, AwaitPs(t)
      PROVE  MachineTypeOK'
  BY <1>15 DEF AwaitPs, ReadPs, machineVars, tmuxVars, localVars
<1>16. ASSUME NEW t \in Threads, AwaitTmux(t)
      PROVE  MachineTypeOK'
  BY <1>16 DEF AwaitTmux, ReadTmux, machineVars, tmuxVars, localVars
<1>17. ASSUME NEW t \in Threads, Running(t)
      PROVE  MachineTypeOK'
  BY <1>17 DEF Running, machineVars, tmuxVars, localVars, lookVars
<1>18. ASSUME NEW t \in Threads, PollAgain(t)
      PROVE  MachineTypeOK'
  BY <1>18 DEF PollAgain, machineVars, tmuxVars, localVars, lookVars
<1>19. ASSUME NEW t \in Threads, GiveUp(t)
      PROVE  MachineTypeOK'
  BY <1>19 DEF GiveUp, machineVars, tmuxVars, localVars, lookVars
<1>20. ASSUME NEW t \in Threads, FoundDead(t)
      PROVE  MachineTypeOK'
  BY <1>20 DEF FoundDead, PaneIsDead, machineVars, tmuxVars, localVars,
     lookVars
<1>21. ASSUME NEW t \in Threads, LeftAlone(t)
      PROVE  MachineTypeOK'
  BY <1>21 DEF LeftAlone, machineVars, tmuxVars
<1>22. ASSUME NEW t \in Threads, KillDead(t)
      PROVE  MachineTypeOK'
  BY <1>22 DEF KillDead, CloseSession, machineVars, tmuxVars
<1>23. ASSUME NEW t \in Threads, ReleasePane(t)
      PROVE  MachineTypeOK'
  BY <1>23 DEF ReleasePane, machineVars
<1>24. ASSUME NEW t \in Threads, MayKill(t)
      PROVE  MachineTypeOK'
  BY <1>24 DEF MayKill, machineVars, tmuxVars, localVars, lookVars
<1>25. ASSUME NEW t \in Threads, Kill(t)
      PROVE  MachineTypeOK'
  BY <1>25 DEF Kill, CloseSession, machineVars, tmuxVars
<1> QED
  BY <1>0, <1>1, <1>2, <1>3, <1>4, <1>5, <1>6, <1>7, <1>8, <1>9, <1>10,
     <1>11, <1>12, <1>13, <1>14, <1>15, <1>16, <1>17, <1>18, <1>19, <1>20,
     <1>21, <1>22, <1>23, <1>24, <1>25 DEF Next, ThreadStep

LEMMA ThreadTypeStep ==
  ASSUME TypeOK, ThreadTypeOK, [Next]_vars
  PROVE  ThreadTypeOK'
<1> USE DEF ThreadTypeOK, Goto, PCs, States
<1>0. CASE UNCHANGED vars
  BY <1>0 DEF vars, machineVars, tmuxVars, localVars, lookVars
<1>1. ASSUME NEW a \in Agents, Exits(a)
      PROVE  ThreadTypeOK'
  BY <1>1 DEF Exits, localVars, lookVars
<1>2. ASSUME NEW a \in Agents, Appears(a)
      PROVE  ThreadTypeOK'
  BY <1>2 DEF Appears, tmuxVars, localVars, lookVars
<1>3. ASSUME NEW a \in Agents, Grows(a)
      PROVE  ThreadTypeOK'
  BY <1>3 DEF Grows, tmuxVars, localVars, lookVars
<1>4. ASSUME NEW f \in Folders, PaneCloses(f)
      PROVE  ThreadTypeOK'
  BY <1>4 DEF PaneCloses, machineVars, CloseSession, localVars, lookVars
<1>5. ASSUME NEW t \in Threads, NEW f \in Folders,
               PressStart(t, f)
      PROVE  ThreadTypeOK'
  BY <1>5 DEF PressStart, Press, Lockable, machineVars, tmuxVars, lookVars
<1>6. ASSUME NEW t \in Threads, NEW f \in Folders,
               PressKill(t, f)
      PROVE  ThreadTypeOK'
  BY <1>6 DEF PressKill, Press, machineVars, tmuxVars, lookVars
<1>7. ASSUME NEW t \in Threads, LookPs(t)
      PROVE  ThreadTypeOK'
  BY <1>7 DEF LookPs, ReadPs, machineVars, tmuxVars, localVars, TypeOK
<1>8. ASSUME NEW t \in Threads, LookTmux(t)
      PROVE  ThreadTypeOK'
  BY <1>8 DEF LookTmux, ReadTmux, machineVars, tmuxVars, localVars, State
<1>9. ASSUME NEW t \in Threads, Unreadable(t)
      PROVE  ThreadTypeOK'
  BY <1>9 DEF Unreadable, machineVars, tmuxVars, Return, Unlocked
<1>10. ASSUME NEW t \in Threads, Refused(t)
      PROVE  ThreadTypeOK'
  BY <1>10 DEF Refused, machineVars, tmuxVars, Return, Unlocked
<1>11. ASSUME NEW t \in Threads, Proceed(t)
      PROVE  ThreadTypeOK'
  BY <1>11 DEF Proceed, machineVars, tmuxVars, localVars, lookVars
<1>12. ASSUME NEW t \in Threads, KillOld(t)
      PROVE  ThreadTypeOK'
  BY <1>12 DEF KillOld, CloseSession, machineVars, tmuxVars, localVars,
     lookVars
<1>13. ASSUME NEW t \in Threads, Spawn(t)
      PROVE  ThreadTypeOK'
  BY <1>13 DEF Spawn, Unused, machineVars, tmuxVars, localVars, lookVars
<1>14. ASSUME NEW t \in Threads, Abandon(t)
      PROVE  ThreadTypeOK'
  BY <1>14 DEF Abandon, CloseSession, machineVars, tmuxVars, Return, Unlocked
<1>15. ASSUME NEW t \in Threads, AwaitPs(t)
      PROVE  ThreadTypeOK'
  BY <1>15 DEF AwaitPs, ReadPs, machineVars, tmuxVars, localVars, TypeOK
<1>16. ASSUME NEW t \in Threads, AwaitTmux(t)
      PROVE  ThreadTypeOK'
  BY <1>16 DEF AwaitTmux, ReadTmux, machineVars, tmuxVars, localVars, State
<1>17. ASSUME NEW t \in Threads, Running(t)
      PROVE  ThreadTypeOK'
  BY <1>17 DEF Running, machineVars, tmuxVars, localVars, lookVars
<1>18. ASSUME NEW t \in Threads, PollAgain(t)
      PROVE  ThreadTypeOK'
  BY <1>18 DEF PollAgain, machineVars, tmuxVars, localVars, lookVars
<1>19. ASSUME NEW t \in Threads, GiveUp(t)
      PROVE  ThreadTypeOK'
  BY <1>19 DEF GiveUp, machineVars, tmuxVars, localVars, lookVars
<1>20. ASSUME NEW t \in Threads, FoundDead(t)
      PROVE  ThreadTypeOK'
  BY <1>20 DEF FoundDead, PaneIsDead, machineVars, tmuxVars, localVars,
     lookVars
<1>21. ASSUME NEW t \in Threads, LeftAlone(t)
      PROVE  ThreadTypeOK'
  BY <1>21 DEF LeftAlone, machineVars, tmuxVars, Return, Unlocked
<1>22. ASSUME NEW t \in Threads, KillDead(t)
      PROVE  ThreadTypeOK'
  BY <1>22 DEF KillDead, CloseSession, machineVars, tmuxVars, Return, Unlocked
<1>23. ASSUME NEW t \in Threads, ReleasePane(t)
      PROVE  ThreadTypeOK'
  BY <1>23 DEF ReleasePane, machineVars, Return, Unlocked
<1>24. ASSUME NEW t \in Threads, MayKill(t)
      PROVE  ThreadTypeOK'
  BY <1>24 DEF MayKill, machineVars, tmuxVars, localVars, lookVars, Return,
     Unlocked
<1>25. ASSUME NEW t \in Threads, Kill(t)
      PROVE  ThreadTypeOK'
  BY <1>25 DEF Kill, CloseSession, machineVars, tmuxVars, Return, Unlocked
<1> QED
  BY <1>0, <1>1, <1>2, <1>3, <1>4, <1>5, <1>6, <1>7, <1>8, <1>9, <1>10,
     <1>11, <1>12, <1>13, <1>14, <1>15, <1>16, <1>17, <1>18, <1>19, <1>20,
     <1>21, <1>22, <1>23, <1>24, <1>25 DEF Next, ThreadStep

LEMMA TypeStep ==
  ASSUME TypeOK, [Next]_vars
  PROVE  TypeOK'
<1>1. MachineTypeOK' /\ ThreadTypeOK'
  BY TypeParts, MachineTypeStep, ThreadTypeStep
<1> QED
  BY <1>1 DEF TypeOK, MachineTypeOK, ThreadTypeOK

\* Every variable keeps its type; only sessions that are there are told to
\* remain, and a pane holds an agent that runs.
THEOREM TypeCorrect == Spec => []TypeOK
<1>1. Init => TypeOK
  BY DEF Init, TypeOK, PCs, States
<1> QED
  BY <1>1, TypeStep, PTL DEF Spec

-----------------------------------------------------------------------------
(* The lock, and what it keeps apart.                                      *)

LEMMA LockStep ==
  ASSUME TypeOK, LockInv, [Next]_vars
  PROVE  LockInv'
<1> USE DEF TypeOK, LockInv, PhaseInv, LockedWhileStarting, AtWork, Goto
<1>0. CASE UNCHANGED vars
  BY <1>0 DEF vars, machineVars, tmuxVars, localVars, lookVars
<1>1. ASSUME NEW a \in Agents, Exits(a)
      PROVE  LockInv'
  BY <1>1 DEF Exits, localVars, lookVars
<1>2. ASSUME NEW a \in Agents, Appears(a)
      PROVE  LockInv'
  BY <1>2 DEF Appears, tmuxVars, localVars, lookVars
<1>3. ASSUME NEW a \in Agents, Grows(a)
      PROVE  LockInv'
  BY <1>3 DEF Grows, tmuxVars, localVars, lookVars
<1>4. ASSUME NEW f \in Folders, PaneCloses(f)
      PROVE  LockInv'
  BY <1>4 DEF PaneCloses, machineVars, CloseSession, localVars, lookVars
<1>5. ASSUME NEW t \in Threads, NEW f \in Folders,
               PressStart(t, f)
      PROVE  LockInv'
  BY <1>5 DEF PressStart, Press, Lockable, machineVars, tmuxVars, lookVars
<1>6. ASSUME NEW t \in Threads, NEW f \in Folders,
               PressKill(t, f)
      PROVE  LockInv'
  BY <1>6 DEF PressKill, Press, machineVars, tmuxVars, lookVars
<1>7. ASSUME NEW t \in Threads, LookPs(t)
      PROVE  LockInv'
  BY <1>7 DEF LookPs, ReadPs, machineVars, tmuxVars, localVars
<1>8. ASSUME NEW t \in Threads, LookTmux(t)
      PROVE  LockInv'
  BY <1>8 DEF LookTmux, ReadTmux, machineVars, tmuxVars, localVars
<1>9. ASSUME NEW t \in Threads, Unreadable(t)
      PROVE  LockInv'
  BY <1>9 DEF Unreadable, machineVars, tmuxVars, Return, Unlocked
<1>10. ASSUME NEW t \in Threads, Refused(t)
      PROVE  LockInv'
  BY <1>10 DEF Refused, machineVars, tmuxVars, Return, Unlocked
<1>11. ASSUME NEW t \in Threads, Proceed(t)
      PROVE  LockInv'
  BY <1>11 DEF Proceed, machineVars, tmuxVars, localVars, lookVars
<1>12. ASSUME NEW t \in Threads, KillOld(t)
      PROVE  LockInv'
  BY <1>12 DEF KillOld, CloseSession, machineVars, tmuxVars, localVars,
     lookVars
<1>13. ASSUME NEW t \in Threads, Spawn(t)
      PROVE  LockInv'
  BY <1>13 DEF Spawn, Unused, machineVars, tmuxVars, localVars, lookVars
<1>14. ASSUME NEW t \in Threads, Abandon(t)
      PROVE  LockInv'
  BY <1>14 DEF Abandon, CloseSession, machineVars, tmuxVars, Return, Unlocked
<1>15. ASSUME NEW t \in Threads, AwaitPs(t)
      PROVE  LockInv'
  BY <1>15 DEF AwaitPs, ReadPs, machineVars, tmuxVars, localVars
<1>16. ASSUME NEW t \in Threads, AwaitTmux(t)
      PROVE  LockInv'
  BY <1>16 DEF AwaitTmux, ReadTmux, machineVars, tmuxVars, localVars
<1>17. ASSUME NEW t \in Threads, Running(t)
      PROVE  LockInv'
  BY <1>17 DEF Running, machineVars, tmuxVars, localVars, lookVars
<1>18. ASSUME NEW t \in Threads, PollAgain(t)
      PROVE  LockInv'
  BY <1>18 DEF PollAgain, machineVars, tmuxVars, localVars, lookVars
<1>19. ASSUME NEW t \in Threads, GiveUp(t)
      PROVE  LockInv'
  BY <1>19 DEF GiveUp, machineVars, tmuxVars, localVars, lookVars
<1>20. ASSUME NEW t \in Threads, FoundDead(t)
      PROVE  LockInv'
  BY <1>20 DEF FoundDead, PaneIsDead, machineVars, tmuxVars, localVars,
     lookVars
<1>21. ASSUME NEW t \in Threads, LeftAlone(t)
      PROVE  LockInv'
  BY <1>21 DEF LeftAlone, machineVars, tmuxVars, Return, Unlocked
<1>22. ASSUME NEW t \in Threads, KillDead(t)
      PROVE  LockInv'
  BY <1>22 DEF KillDead, CloseSession, machineVars, tmuxVars, Return, Unlocked
<1>23. ASSUME NEW t \in Threads, ReleasePane(t)
      PROVE  LockInv'
  BY <1>23 DEF ReleasePane, machineVars, Return, Unlocked
<1>24. ASSUME NEW t \in Threads, MayKill(t)
      PROVE  LockInv'
  BY <1>24 DEF MayKill, machineVars, tmuxVars, localVars, lookVars, Return,
     Unlocked
<1>25. ASSUME NEW t \in Threads, Kill(t)
      PROVE  LockInv'
  BY <1>25 DEF Kill, CloseSession, machineVars, tmuxVars, Return, Unlocked
<1> QED
  BY <1>0, <1>1, <1>2, <1>3, <1>4, <1>5, <1>6, <1>7, <1>8, <1>9, <1>10,
     <1>11, <1>12, <1>13, <1>14, <1>15, <1>16, <1>17, <1>18, <1>19, <1>20,
     <1>21, <1>22, <1>23, <1>24, <1>25 DEF Next, ThreadStep

\* One start of a folder at a time, and no lock without its start.
THEOREM OneStartAtATime == Spec => []LockedWhileStarting
<1>1. Init => LockInv
  BY DEF Init, LockInv, PhaseInv, LockedWhileStarting, AtWork
<1>2. LockInv => LockedWhileStarting
  BY DEF LockInv
<1> QED
  BY <1>1, <1>2, LockStep, TypeCorrect, PTL DEF Spec

LEMMA DeadPaneStep ==
  ASSUME TypeOK, LockInv, FailedStartEndsNobody, [Next]_vars
  PROVE  FailedStartEndsNobody'
<1> USE DEF TypeOK, LockInv, PhaseInv, LockedWhileStarting,
   FailedStartEndsNobody, AtWork, Goto
<1>0. CASE UNCHANGED vars
  BY <1>0 DEF vars, machineVars, tmuxVars, localVars, lookVars
<1>1. ASSUME NEW a \in Agents, Exits(a)
      PROVE  FailedStartEndsNobody'
  BY <1>1 DEF Exits, localVars, lookVars
<1>2. ASSUME NEW a \in Agents, Appears(a)
      PROVE  FailedStartEndsNobody'
  BY <1>2 DEF Appears, tmuxVars, localVars, lookVars
<1>3. ASSUME NEW a \in Agents, Grows(a)
      PROVE  FailedStartEndsNobody'
  BY <1>3 DEF Grows, tmuxVars, localVars, lookVars
<1>4. ASSUME NEW f \in Folders, PaneCloses(f)
      PROVE  FailedStartEndsNobody'
  BY <1>4 DEF PaneCloses, machineVars, CloseSession, localVars, lookVars
<1>5. ASSUME NEW t \in Threads, NEW f \in Folders,
               PressStart(t, f)
      PROVE  FailedStartEndsNobody'
  BY <1>5 DEF PressStart, Press, Lockable, machineVars, tmuxVars, lookVars
<1>6. ASSUME NEW t \in Threads, NEW f \in Folders,
               PressKill(t, f)
      PROVE  FailedStartEndsNobody'
  BY <1>6 DEF PressKill, Press, machineVars, tmuxVars, lookVars
<1>7. ASSUME NEW t \in Threads, LookPs(t)
      PROVE  FailedStartEndsNobody'
  BY <1>7 DEF LookPs, ReadPs, machineVars, tmuxVars, localVars
<1>8. ASSUME NEW t \in Threads, LookTmux(t)
      PROVE  FailedStartEndsNobody'
  BY <1>8 DEF LookTmux, ReadTmux, machineVars, tmuxVars, localVars
<1>9. ASSUME NEW t \in Threads, Unreadable(t)
      PROVE  FailedStartEndsNobody'
  BY <1>9 DEF Unreadable, machineVars, tmuxVars, Return, Unlocked
<1>10. ASSUME NEW t \in Threads, Refused(t)
      PROVE  FailedStartEndsNobody'
  BY <1>10 DEF Refused, machineVars, tmuxVars, Return, Unlocked
<1>11. ASSUME NEW t \in Threads, Proceed(t)
      PROVE  FailedStartEndsNobody'
  BY <1>11 DEF Proceed, machineVars, tmuxVars, localVars, lookVars
<1>12. ASSUME NEW t \in Threads, KillOld(t)
      PROVE  FailedStartEndsNobody'
  BY <1>12 DEF KillOld, CloseSession, machineVars, tmuxVars, localVars,
     lookVars
<1>13. ASSUME NEW t \in Threads, Spawn(t)
      PROVE  FailedStartEndsNobody'
  BY <1>13 DEF Spawn, Unused, machineVars, tmuxVars, localVars, lookVars
<1>14. ASSUME NEW t \in Threads, Abandon(t)
      PROVE  FailedStartEndsNobody'
  BY <1>14 DEF Abandon, CloseSession, machineVars, tmuxVars, Return, Unlocked
<1>15. ASSUME NEW t \in Threads, AwaitPs(t)
      PROVE  FailedStartEndsNobody'
  BY <1>15 DEF AwaitPs, ReadPs, machineVars, tmuxVars, localVars
<1>16. ASSUME NEW t \in Threads, AwaitTmux(t)
      PROVE  FailedStartEndsNobody'
  BY <1>16 DEF AwaitTmux, ReadTmux, machineVars, tmuxVars, localVars
<1>17. ASSUME NEW t \in Threads, Running(t)
      PROVE  FailedStartEndsNobody'
  BY <1>17 DEF Running, machineVars, tmuxVars, localVars, lookVars
<1>18. ASSUME NEW t \in Threads, PollAgain(t)
      PROVE  FailedStartEndsNobody'
  BY <1>18 DEF PollAgain, machineVars, tmuxVars, localVars, lookVars
<1>19. ASSUME NEW t \in Threads, GiveUp(t)
      PROVE  FailedStartEndsNobody'
  BY <1>19 DEF GiveUp, machineVars, tmuxVars, localVars, lookVars
<1>20. ASSUME NEW t \in Threads, FoundDead(t)
      PROVE  FailedStartEndsNobody'
  BY <1>20 DEF FoundDead, PaneIsDead, machineVars, tmuxVars, localVars,
     lookVars
<1>21. ASSUME NEW t \in Threads, LeftAlone(t)
      PROVE  FailedStartEndsNobody'
  BY <1>21 DEF LeftAlone, machineVars, tmuxVars, Return, Unlocked
<1>22. ASSUME NEW t \in Threads, KillDead(t)
      PROVE  FailedStartEndsNobody'
  BY <1>22 DEF KillDead, CloseSession, machineVars, tmuxVars, Return, Unlocked
<1>23. ASSUME NEW t \in Threads, ReleasePane(t)
      PROVE  FailedStartEndsNobody'
  BY <1>23 DEF ReleasePane, machineVars, Return, Unlocked
<1>24. ASSUME NEW t \in Threads, MayKill(t)
      PROVE  FailedStartEndsNobody'
  BY <1>24 DEF MayKill, machineVars, tmuxVars, localVars, lookVars, Return,
     Unlocked
<1>25. ASSUME NEW t \in Threads, Kill(t)
      PROVE  FailedStartEndsNobody'
  BY <1>25 DEF Kill, CloseSession, machineVars, tmuxVars, Return, Unlocked
<1> QED
  BY <1>0, <1>1, <1>2, <1>3, <1>4, <1>5, <1>6, <1>7, <1>8, <1>9, <1>10,
     <1>11, <1>12, <1>13, <1>14, <1>15, <1>16, <1>17, <1>18, <1>19, <1>20,
     <1>21, <1>22, <1>23, <1>24, <1>25 DEF Next, ThreadStep

\* No start that failed ends an agent that runs, however slow agents are.
THEOREM FailedStartsSpare == Spec => []FailedStartEndsNobody
<1>1. Init => LockInv /\ FailedStartEndsNobody
  BY DEF Init, LockInv, PhaseInv, LockedWhileStarting, AtWork,
     FailedStartEndsNobody
<1> QED
  BY <1>1, LockStep, DeadPaneStep, TypeCorrect, PTL DEF Spec

-----------------------------------------------------------------------------
(* One agent in a folder.                                                  *)

SpawnOutcome(t) ==
  \/ UNCHANGED <<machineVars, tmuxVars>>
  \/ \E a \in Unused :
       /\ alive' = alive \cup {a}
       /\ folder' = [folder EXCEPT ![a] = row[t]]
       /\ pane' = [pane EXCEPT ![row[t]] = a]
       /\ session' = session \cup {row[t]}

LEMMA SpawnOutcomes ==
  ASSUME NEW t \in Threads, Spawn(t)
  PROVE  SpawnOutcome(t)
BY DEF Spawn, SpawnOutcome

LEMMA FolderStep ==
  ASSUME ~StartsSlowly, ~OtherWindows, TypeOK, LockInv, FolderInv, [Next]_vars
  PROVE  FolderInv'
<1> USE DEF TypeOK, LockInv, PhaseInv, LockedWhileStarting, FolderInv,
   PaneIsTheRows, SessionHasAgent, HiddenIsAwaited, LookMissesNobody,
   ClearToSpawn, OneAgentPerFolder, AtWork, AfterSpawn, Startable, Goto
<1>0. CASE UNCHANGED vars
  BY <1>0 DEF vars, machineVars, tmuxVars, localVars, lookVars
<1>1. ASSUME NEW a \in Agents, Exits(a)
      PROVE  FolderInv'
  BY <1>1 DEF Exits, localVars, lookVars
<1>2. ASSUME NEW a \in Agents, Appears(a)
      PROVE  FolderInv'
  BY <1>2 DEF Appears, tmuxVars, localVars, lookVars
<1>3. ASSUME NEW a \in Agents, Grows(a)
      PROVE  FolderInv'
  BY <1>3 DEF Grows, tmuxVars, localVars, lookVars
<1>4. ASSUME NEW f \in Folders, PaneCloses(f)
      PROVE  FolderInv'
  BY <1>4 DEF PaneCloses, machineVars, CloseSession, localVars, lookVars
<1>5. ASSUME NEW t \in Threads, NEW f \in Folders,
               PressStart(t, f)
      PROVE  FolderInv'
  BY <1>5 DEF PressStart, Press, Lockable, machineVars, tmuxVars, lookVars
<1>6. ASSUME NEW t \in Threads, NEW f \in Folders,
               PressKill(t, f)
      PROVE  FolderInv'
  BY <1>6 DEF PressKill, Press, machineVars, tmuxVars, lookVars
<1>7. ASSUME NEW t \in Threads, LookPs(t)
      PROVE  FolderInv'
  BY <1>7 DEF LookPs, ReadPs, machineVars, tmuxVars, localVars
<1>8. ASSUME NEW t \in Threads, LookTmux(t)
      PROVE  FolderInv'
  BY <1>8 DEF LookTmux, ReadTmux, machineVars, tmuxVars, localVars, State
<1>9. ASSUME NEW t \in Threads, Unreadable(t)
      PROVE  FolderInv'
  BY <1>9 DEF Unreadable, machineVars, tmuxVars, Return, Unlocked, MayEnd
<1>10. ASSUME NEW t \in Threads, Refused(t)
      PROVE  FolderInv'
  BY <1>10 DEF Refused, machineVars, tmuxVars, Return, Unlocked, MayEnd
<1>11. ASSUME NEW t \in Threads, Proceed(t)
      PROVE  FolderInv'
  BY <1>11 DEF Proceed, machineVars, tmuxVars, localVars, lookVars
<1>12. ASSUME NEW t \in Threads, KillOld(t)
      PROVE  FolderInv'
  BY <1>12 DEF KillOld, CloseSession, machineVars, tmuxVars, localVars,
     lookVars
<1>13. ASSUME NEW t \in Threads, Spawn(t)
      PROVE  FolderInv'
  <2>1. /\ pc[t] = "spawn" /\ op[t] = "start"
        /\ \E to \in {"awaitPs", "abandon"} : pc' = [pc EXCEPT ![t] = to]
        /\ UNCHANGED <<starting, op, row, table, saw, visible>>
    BY <1>13 DEF Spawn, localVars, lookVars, machineVars
  <2>2. \A a \in alive : folder[a] # row[t]
    BY <2>1
  <2>3. pc'[t] \in AfterSpawn /\ \A u \in Threads : u # t => pc'[u] = pc[u]
    BY <2>1
  <2>4. CASE UNCHANGED <<machineVars, tmuxVars>>
    BY <2>1, <2>3, <2>4 DEF machineVars, tmuxVars
  <2>5. ASSUME NEW a \in Unused,
               alive' = alive \cup {a},
               folder' = [folder EXCEPT ![a] = row[t]],
               pane' = [pane EXCEPT ![row[t]] = a],
               session' = session \cup {row[t]}
        PROVE  FolderInv'
    <3>1. /\ a \in Agents \ alive /\ \A f \in Folders : pane[f] # a
          /\ \A u \in Threads : a \notin table[u]
      BY <2>5 DEF Unused
    <3>2. folder'[a] = row[t] /\ \A b \in alive : folder'[b] = folder[b]
      BY <2>5, <3>1
    <3>3. pane'[row[t]] = a
      BY <2>5
    <3>4. \A f \in Folders : f # row[t] => pane'[f] = pane[f]
      BY <2>5
    <3>5. PaneIsTheRows'
      BY <2>5, <3>1, <3>2, <3>3, <3>4
    <3>6. SessionHasAgent'
      BY <2>2, <2>5, <3>2, <3>3, <3>4
    <3>7. HiddenIsAwaited'
      BY <2>1, <2>3, <2>5, <3>2
    <3>8. LookMissesNobody'
      BY <2>1, <2>3, <2>5, <3>2
    <3>9. ClearToSpawn'
      BY <2>1, <2>3, <2>5, <3>2
    <3>10. OneAgentPerFolder'
      BY <2>2, <2>5, <3>2
    <3> QED
      BY <3>5, <3>6, <3>7, <3>8, <3>9, <3>10
  <2> QED
    <3>1. SpawnOutcome(t)
      BY <1>13, SpawnOutcomes
    <3> HIDE DEF FolderInv
    <3> QED
      BY <3>1, <2>4, <2>5 DEF SpawnOutcome
<1>14. ASSUME NEW t \in Threads, Abandon(t)
      PROVE  FolderInv'
  BY <1>14 DEF Abandon, CloseSession, machineVars, tmuxVars, Return,
     Unlocked, MayEnd
<1>15. ASSUME NEW t \in Threads, AwaitPs(t)
      PROVE  FolderInv'
  BY <1>15 DEF AwaitPs, ReadPs, machineVars, tmuxVars, localVars
<1>16. ASSUME NEW t \in Threads, AwaitTmux(t)
      PROVE  FolderInv'
  BY <1>16 DEF AwaitTmux, ReadTmux, machineVars, tmuxVars, localVars, State
<1>17. ASSUME NEW t \in Threads, Running(t)
      PROVE  FolderInv'
  BY <1>17 DEF Running, machineVars, tmuxVars, localVars, lookVars
<1>18. ASSUME NEW t \in Threads, PollAgain(t)
      PROVE  FolderInv'
  BY <1>18 DEF PollAgain, machineVars, tmuxVars, localVars, lookVars
<1>19. ASSUME NEW t \in Threads, GiveUp(t)
      PROVE  FolderInv'
  BY <1>19 DEF GiveUp, machineVars, tmuxVars, localVars, lookVars
<1>20. ASSUME NEW t \in Threads, FoundDead(t)
      PROVE  FolderInv'
  BY <1>20 DEF FoundDead, PaneIsDead, machineVars, tmuxVars, localVars,
     lookVars
<1>21. ASSUME NEW t \in Threads, LeftAlone(t)
      PROVE  FolderInv'
  BY <1>21 DEF LeftAlone, machineVars, tmuxVars, Return, Unlocked, MayEnd
<1>22. ASSUME NEW t \in Threads, KillDead(t)
      PROVE  FolderInv'
  BY <1>22 DEF KillDead, CloseSession, machineVars, tmuxVars, Return,
     Unlocked, MayEnd
<1>23. ASSUME NEW t \in Threads, ReleasePane(t)
      PROVE  FolderInv'
  BY <1>23 DEF ReleasePane, machineVars, Return, Unlocked, MayEnd
<1>24. ASSUME NEW t \in Threads, MayKill(t)
      PROVE  FolderInv'
  BY <1>24 DEF MayKill, machineVars, tmuxVars, localVars, lookVars, Return,
     Unlocked, MayEnd
<1>25. ASSUME NEW t \in Threads, Kill(t)
      PROVE  FolderInv'
  BY <1>25 DEF Kill, CloseSession, machineVars, tmuxVars, Return, Unlocked,
     MayEnd
<1> QED
  BY <1>0, <1>1, <1>2, <1>3, <1>4, <1>5, <1>6, <1>7, <1>8, <1>9, <1>10,
     <1>11, <1>12, <1>13, <1>14, <1>15, <1>16, <1>17, <1>18, <1>19, <1>20,
     <1>21, <1>22, <1>23, <1>24, <1>25 DEF Next, ThreadStep

\* Where an agent shows itself before the start of it is over, and takes its
\* session with it when its pane goes, no start adds a second one.
THEOREM OneAgent ==
  ~StartsSlowly /\ ~OtherWindows => (Spec => []OneAgentPerFolder)
<1> SUFFICES ASSUME ~StartsSlowly, ~OtherWindows
             PROVE  Spec => []OneAgentPerFolder
  OBVIOUS
<1>1. Init => LockInv /\ FolderInv
  BY DEF Init, LockInv, PhaseInv, LockedWhileStarting, AtWork, AfterSpawn,
     FolderInv, PaneIsTheRows, SessionHasAgent, HiddenIsAwaited,
     LookMissesNobody, ClearToSpawn, OneAgentPerFolder, Startable
<1>2. TypeOK /\ LockInv /\ FolderInv /\ [Next]_vars => FolderInv'
  BY FolderStep
<1>3. FolderInv => OneAgentPerFolder
  BY DEF FolderInv
<1> QED
  BY <1>1, <1>2, <1>3, LockStep, TypeCorrect, PTL DEF Spec
=============================================================================
