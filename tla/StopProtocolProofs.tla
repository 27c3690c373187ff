------------------------- MODULE StopProtocolProofs -------------------------
(***************************************************************************)
(* Proofs about StopProtocol, for any number of threads, markers and       *)
(* requests.  The types, WithdrawnStaysOut and NoStrandedMarker hold for   *)
(* every setting of its switches: also where a wait runs out while typing, *)
(* where Kills overlap and where a start overtakes a look.  So does        *)
(* RestartOutlivesNoKill; OneTypistPerAgent asks for the order that        *)
(* Orderly names.                                                          *)
(***************************************************************************)
EXTENDS StopProtocol, TLAPS

(* A process owns a marker from its claim until it has typed and, for a    *)
(* wrap up, set the watch; or until it gave the marker up.                 *)
Owns(p) == pc[p] \in {"prompt", "watch", "exit"}

\* What an owner may rely on of the marker it holds, whoever else runs.
OwnedAsClaimed ==
  \A p \in Procs :
    /\ Owns(p) => mk[p] \in Markers
    /\ pc[p] \in {"prompt", "watch"} =>
         /\ phase[mk[p]] = "closing"
         /\ ~watch[mk[p]] /\ ~typing[mk[p]]
    /\ pc[p] = "exit" =>
         phase[mk[p]] = "exiting" /\ typing[mk[p]]
    /\ Owns(p) => ~withdrawn[mk[p]]

OneOwner ==
  \A p, q \in Procs : Owns(p) /\ Owns(q) /\ mk[p] = mk[q] => p = q

\* NoStrandedMarker of every marker, in the table or out of it: a Kill can
\* hand back one that was out.
NoOrphan ==
  \A m \in Markers : IsTyping(m) /\ ~withdrawn[m] =>
    \E p \in Procs : Owns(p) /\ mk[p] = m

\* The sweep only ever captured a marker whose watch was set, and it stays.
CapturedIsWatched ==
  pc[Wrapper] = "captured" =>
    mk[Wrapper] \in Markers /\ watch[mk[Wrapper]]

OwnerInv ==
  OwnedAsClaimed /\ OneOwner /\ NoOrphan /\ CapturedIsWatched

-----------------------------------------------------------------------------
(* Type correctness.                                                       *)

LEMMA FreshIsUnreferenced ==
  ASSUME Unreferenced # {}
  PROVE  Fresh \in Unreferenced
BY Zenon DEF Fresh

LEMMA Processes ==
  (\A t \in Threads : t \in Procs) /\ Ticker \in Procs /\ Wrapper \in Procs
BY DEF Procs

LEMMA InitType == Init => TypeOK
<1> SUFFICES ASSUME Init PROVE TypeOK
  OBVIOUS
<1>1. RestartTypeOK
  <2>1. ended \in Nat
    BY SMT DEF Init
  <2> QED
    BY <2>1, Zenon DEF Init, RestartTypeOK
<1>2. LocalTypeOK
  <2>1. presses \in Nat
    BY SMT DEF Init
  <2>2. pc \in [Procs -> PCs]
    BY DEF Init, PCs
  <2> QED
    BY <2>1, <2>2 DEF Init, LocalTypeOK, States
<1>3. /\ phase \in [Markers -> {"closing", "exiting"}]
      /\ watch \in [Markers -> BOOLEAN] /\ typing \in [Markers -> BOOLEAN]
      /\ withdrawn \in [Markers -> BOOLEAN] /\ aimed \in [Markers -> BOOLEAN]
  BY DEF Init
<1> QED
  BY <1>1, <1>2, <1>3, Zenon DEF Init, TypeOK

LEMMA ReturnTypes ==
  ASSUME NEW p \in Procs, LocalTypeOK, Return(p)
  PROVE  LocalTypeOK'
<1>1. epoch' \in [Procs -> Nat] /\ presses' \in Nat
  BY DEF LocalTypeOK, Return
<1>2. saw' \in [Procs -> States] /\ pc' \in [Procs -> PCs]
  BY DEF LocalTypeOK, Return, States, PCs
<1>3. /\ op' \in [Procs -> AllRoutes \cup {"none"}]
      /\ mk' \in [Procs -> Markers \cup {NoMarker}]
  BY DEF LocalTypeOK, Return
<1>4. resume' \in [Procs -> BOOLEAN] /\ marked' \in [Procs -> BOOLEAN]
  BY DEF LocalTypeOK, Return
<1> QED
  BY <1>1, <1>2, <1>3, <1>4, Zenon DEF LocalTypeOK

LEMMA CancelTypes ==
  ASSUME RestartTypeOK, CancelRestart
  PROVE  RestartTypeOK'
<1>1. ended' \in Nat
  BY DEF RestartTypeOK, CancelRestart
<1>2. valid' \subseteq Threads \cup {"mark"}
  BY DEF CancelRestart
<1> QED
  BY <1>1, <1>2, Zenon DEF RestartTypeOK, CancelRestart

LEMMA TypeStep == TypeOK /\ [Next]_vars => TypeOK'
<1> SUFFICES ASSUME TypeOK, [Next]_vars PROVE TypeOK'
  OBVIOUS
<1> USE Processes DEF TypeOK, RestartTypeOK, LocalTypeOK, machineVars, stopVars, restartVars, localVars,
        markerVars, otherMarkerVars, vars
<1>1. CASE AgentExits
  BY <1>1 DEF AgentExits, AgentLost
<1>2. CASE PaneCloses
  BY <1>2 DEF PaneCloses, AgentLost
<1>3. ASSUME NEW t \in Threads, NEW r \in Routes, Request(t, r)
      PROVE  TypeOK'
  BY <1>3 DEF Request, Press, Row, States, AllRoutes, Goto, PCs
<1>4. ASSUME NEW t \in Threads, RequestRestart(t) PROVE TypeOK'
  BY <1>4 DEF RequestRestart, Press, AllRoutes, Goto, PCs
<1>5. ASSUME NEW t \in Threads, Start(t) PROVE TypeOK'
  BY <1>5 DEF Start, Press, Reconciled, RefusalKept, Startable, Spawned
<1>6. ASSUME NEW t \in Threads, Look(t) PROVE TypeOK'
  BY <1>6 DEF Look, Row, States, Goto, PCs
<1>7. ASSUME NEW t \in Threads, Derive(t) PROVE TypeOK'
  BY <1>7, ReturnTypes DEF Derive, AfterRow, Reconciled, RefusalKept, Goto, PCs,
         States
<1>8. ASSUME NEW t \in Threads, ClaimNothing(t) PROVE TypeOK'
  BY <1>8, ReturnTypes DEF ClaimNothing, Goto, PCs, States
<1>9. ASSUME NEW t \in Threads, ClaimExitNow(t) PROVE TypeOK'
  BY <1>9 DEF ClaimExitNow, SendToExit, Goto, PCs
<1>10. ASSUME NEW t \in Threads, ClaimAfresh(t) PROVE TypeOK'
  <2>1. Fresh \in Markers
    BY <1>10, FreshIsUnreferenced DEF ClaimAfresh, Unreferenced
  <2> QED
    BY <2>1, <1>10 DEF ClaimAfresh, Goto, PCs
<1>11. ASSUME NEW t \in Threads, PromptTyped(t) PROVE TypeOK'
  BY <1>11 DEF PromptTyped, Goto, PCs
<1>12. ASSUME NEW t \in Threads, SetWatch(t) PROVE TypeOK'
  BY <1>12 DEF SetWatch, Goto, PCs
<1>13. ASSUME NEW t \in Threads, TypingRefused(t) PROVE TypeOK'
  <2>1. LocalTypeOK'
    BY <1>13, ReturnTypes DEF TypingRefused
  <2>2. CASE resume[t]
    <3>1. /\ phase' = [phase EXCEPT ![mk[t]] = "closing"]
          /\ typing' = [typing EXCEPT ![mk[t]] = FALSE]
          /\ watch' = [watch EXCEPT ![mk[t]] = TRUE]
      BY <1>13, <2>2 DEF TypingRefused, GiveBack
    <3>2. UNCHANGED <<withdrawn, aimed, table>>
      BY <1>13, <2>2 DEF TypingRefused, GiveBack
    <3>3. UNCHANGED <<session, agent, held, pending, refused, ended, valid>>
      BY <1>13 DEF TypingRefused
    <3> QED
      BY <2>1, <3>1, <3>2, <3>3
  <2>3. CASE ~resume[t]
    BY <1>13, <2>1, <2>3 DEF TypingRefused, GiveBack, Drop
  <2> QED
    BY <2>2, <2>3
<1>14. ASSUME NEW t \in Threads, Mark(t) PROVE TypeOK'
  <2>1. LocalTypeOK'
    BY <1>14, ReturnTypes DEF Mark
  <2>2. RestartTypeOK'
    BY <1>14, Zenon DEF Mark, SetMark
  <2> QED
    BY <1>14, <2>1, <2>2 DEF Mark
<1>15. ASSUME NEW t \in Threads, Take(t) PROVE TypeOK'
  BY <1>15, CancelTypes DEF Take, Goto, PCs
<1>16. ASSUME NEW t \in Threads, KillSession(t) PROVE TypeOK'
  <2>1. PICK done \in BOOLEAN, failed \in BOOLEAN :
          /\ session' = (session /\ ~done)
          /\ IF done THEN AgentLost ELSE UNCHANGED aimed
          /\ Goto(t, IF failed THEN "releaseFailed" ELSE "releaseOk")
    BY <1>16 DEF KillSession
  <2>2. aimed' \in [Markers -> BOOLEAN] /\ session' \in BOOLEAN
    BY <2>1 DEF AgentLost
  <2>3. pc' \in [Procs -> PCs]
    BY <2>1 DEF Goto, PCs
  <2> QED
    BY <1>16, <2>2, <2>3 DEF KillSession
<1>17. ASSUME NEW t \in Threads, Release(t) PROVE TypeOK'
  BY <1>17 DEF Release, Released, Goto, PCs
<1>18. ASSUME NEW t \in Threads, ReleaseFailed(t) PROVE TypeOK'
  BY <1>18, ReturnTypes DEF ReleaseFailed, Released, HandedBack, PCs, States
<1>19. ASSUME NEW t \in Threads, Wipe(t) PROVE TypeOK'
  BY <1>19, CancelTypes DEF Wipe, Goto, PCs
<1>20. ASSUME NEW t \in Threads, SignalDetached(t) PROVE TypeOK'
  BY <1>20, CancelTypes, ReturnTypes DEF SignalDetached
<1>21. ASSUME NEW p \in Procs, ExitTyped(p) PROVE TypeOK'
  BY <1>21 DEF ExitTyped, Goto, PCs
<1>22. ASSUME NEW p \in Procs, Settle(p) PROVE TypeOK'
  BY <1>22 DEF Settle, Row, States, Goto, PCs
<1>23. ASSUME NEW p \in Procs, Settled(p) PROVE TypeOK'
  BY <1>23, ReturnTypes DEF Settled, Reconciled, RefusalKept, Goto, PCs, States
<1>24. ASSUME NEW p \in Procs, SettleUnreadable(p) PROVE TypeOK'
  BY <1>24, ReturnTypes DEF SettleUnreadable, PCs, States
<1>25. CASE TickPasses
  BY <1>25 DEF TickPasses, Goto, PCs
<1>26. CASE TickLook
  BY <1>26 DEF TickLook, Row, States, Goto, PCs
<1>27. CASE TickDerive
  BY <1>27 DEF TickDerive, Reconciled, RefusalKept, Goto, PCs
<1>28. CASE Consume
  BY <1>28 DEF Consume, MarkStays, Goto, PCs, States
<1>29. CASE RestartStarts
  BY <1>29 DEF RestartStarts, Reconciled, RefusalKept, Startable, Spawned,
         Goto, PCs
<1>30. CASE ExpireStop
  BY <1>30 DEF ExpireStop, Goto, PCs, WaitIsOver
<1>31. CASE ExpireNothing
  BY <1>31 DEF ExpireNothing, Goto, PCs
<1>32. CASE ExpiredEndsAnyway
  BY <1>32, CancelTypes DEF ExpiredEndsAnyway, Goto, PCs
<1>33. CASE ExpiredReports
  BY <1>33 DEF ExpiredReports, Reconciled, RefusalKept, Goto, PCs
<1>34. CASE WrapUpSeen
  BY <1>34 DEF WrapUpSeen, Goto, PCs
<1>35. CASE WrapUpClaim
  BY <1>35 DEF WrapUpClaim, SendToExit, Goto, PCs
<1>36. CASE WrapUpLost
  BY <1>36, ReturnTypes DEF WrapUpLost, PCs, States
<1>37. CASE WrapUpRefused
  BY <1>37 DEF WrapUpRefused, Drop, Goto, PCs
<1>38. CASE UNCHANGED vars
  BY <1>38
<1> QED
  BY <1>1, <1>2, <1>3, <1>4, <1>5, <1>6, <1>7, <1>8, <1>9, <1>10,
     <1>11, <1>12, <1>13, <1>14, <1>15, <1>16, <1>17, <1>18, <1>19, <1>20,
     <1>21, <1>22, <1>23, <1>24, <1>25, <1>26, <1>27, <1>28, <1>29, <1>30,
     <1>31, <1>32, <1>33, <1>34, <1>35, <1>36, <1>37, <1>38
     DEF Next, ThreadStep, TickerStep, WrapperStep, Procs

\* Every variable keeps its type, whatever is pressed and however it ends.
THEOREM TypeCorrect == Spec => []TypeOK
<1> QED
  BY InitType, TypeStep, PTL DEF Spec

-----------------------------------------------------------------------------
(* What was withdrawn stays out of the table.                              *)

LEMMA WithdrawnStep ==
  TypeOK /\ WithdrawnStaysOut /\ [Next]_vars => WithdrawnStaysOut'
<1> SUFFICES ASSUME TypeOK, WithdrawnStaysOut, [Next]_vars
             PROVE  WithdrawnStaysOut'
  OBVIOUS
<1> USE Processes, MarkersAssumption
    DEF WithdrawnStaysOut, TypeOK, stopVars, markerVars, otherMarkerVars
<1>1. CASE AgentExits
  BY <1>1 DEF AgentExits
<1>2. CASE PaneCloses
  BY <1>2 DEF PaneCloses
<1>3. ASSUME NEW t \in Threads, NEW r \in Routes, Request(t, r)
      PROVE  WithdrawnStaysOut'
  BY <1>3 DEF Request
<1>4. ASSUME NEW t \in Threads, RequestRestart(t) PROVE WithdrawnStaysOut'
  BY <1>4 DEF RequestRestart
<1>5. ASSUME NEW t \in Threads, Start(t) PROVE WithdrawnStaysOut'
  BY <1>5 DEF Start, Reconciled
<1>6. ASSUME NEW t \in Threads, Look(t) PROVE WithdrawnStaysOut'
  BY <1>6 DEF Look
<1>7. ASSUME NEW t \in Threads, Derive(t) PROVE WithdrawnStaysOut'
  BY <1>7 DEF Derive, Reconciled
<1>8. ASSUME NEW t \in Threads, ClaimNothing(t) PROVE WithdrawnStaysOut'
  BY <1>8 DEF ClaimNothing
<1>9. ASSUME NEW t \in Threads, ClaimExitNow(t) PROVE WithdrawnStaysOut'
  BY <1>9 DEF ClaimExitNow, SendToExit
<1>10. ASSUME NEW t \in Threads, ClaimAfresh(t) PROVE WithdrawnStaysOut'
  <2>1. Fresh \in Markers
    BY <1>10, FreshIsUnreferenced DEF ClaimAfresh, Unreferenced
  <2> QED
    BY <2>1, <1>10 DEF ClaimAfresh
<1>11. ASSUME NEW t \in Threads, PromptTyped(t) PROVE WithdrawnStaysOut'
  BY <1>11 DEF PromptTyped
<1>12. ASSUME NEW t \in Threads, SetWatch(t) PROVE WithdrawnStaysOut'
  BY <1>12 DEF SetWatch
<1>13. ASSUME NEW t \in Threads, TypingRefused(t) PROVE WithdrawnStaysOut'
  BY <1>13 DEF TypingRefused, GiveBack, Drop
<1>14. ASSUME NEW t \in Threads, Mark(t) PROVE WithdrawnStaysOut'
  BY <1>14 DEF Mark
<1>15. ASSUME NEW t \in Threads, Take(t) PROVE WithdrawnStaysOut'
  BY <1>15 DEF Take
<1>16. ASSUME NEW t \in Threads, KillSession(t) PROVE WithdrawnStaysOut'
  BY <1>16 DEF KillSession
<1>17. ASSUME NEW t \in Threads, Release(t) PROVE WithdrawnStaysOut'
  BY <1>17 DEF Release
<1>18. ASSUME NEW t \in Threads, ReleaseFailed(t) PROVE WithdrawnStaysOut'
  BY <1>18 DEF ReleaseFailed, HandedBack
<1>19. ASSUME NEW t \in Threads, Wipe(t) PROVE WithdrawnStaysOut'
  BY <1>19 DEF Wipe
<1>20. ASSUME NEW t \in Threads, SignalDetached(t) PROVE WithdrawnStaysOut'
  BY <1>20 DEF SignalDetached
<1>21. ASSUME NEW p \in Procs, ExitTyped(p) PROVE WithdrawnStaysOut'
  BY <1>21 DEF ExitTyped
<1>22. ASSUME NEW p \in Procs, Settle(p) PROVE WithdrawnStaysOut'
  BY <1>22 DEF Settle
<1>23. ASSUME NEW p \in Procs, Settled(p) PROVE WithdrawnStaysOut'
  BY <1>23 DEF Settled, Reconciled
<1>24. ASSUME NEW p \in Procs, SettleUnreadable(p) PROVE WithdrawnStaysOut'
  BY <1>24 DEF SettleUnreadable
<1>25. CASE TickPasses
  BY <1>25 DEF TickPasses
<1>26. CASE TickLook
  BY <1>26 DEF TickLook
<1>27. CASE TickDerive
  BY <1>27 DEF TickDerive, Reconciled
<1>28. CASE Consume
  BY <1>28 DEF Consume
<1>29. CASE RestartStarts
  BY <1>29 DEF RestartStarts, Reconciled
<1>30. CASE ExpireStop
  BY <1>30 DEF ExpireStop
<1>31. CASE ExpireNothing
  BY <1>31 DEF ExpireNothing
<1>32. CASE ExpiredEndsAnyway
  BY <1>32 DEF ExpiredEndsAnyway
<1>33. CASE ExpiredReports
  BY <1>33 DEF ExpiredReports, Reconciled
<1>34. CASE WrapUpSeen
  BY <1>34 DEF WrapUpSeen
<1>35. CASE WrapUpClaim
  BY <1>35 DEF WrapUpClaim, SendToExit
<1>36. CASE WrapUpLost
  BY <1>36 DEF WrapUpLost
<1>37. CASE WrapUpRefused
  BY <1>37 DEF WrapUpRefused, Drop
<1>38. CASE UNCHANGED vars
  BY <1>38 DEF vars, stopVars, markerVars
<1> QED
  BY <1>1, <1>2, <1>3, <1>4, <1>5, <1>6, <1>7, <1>8, <1>9, <1>10,
     <1>11, <1>12, <1>13, <1>14, <1>15, <1>16, <1>17, <1>18, <1>19, <1>20,
     <1>21, <1>22, <1>23, <1>24, <1>25, <1>26, <1>27, <1>28, <1>29, <1>30,
     <1>31, <1>32, <1>33, <1>34, <1>35, <1>36, <1>37, <1>38
     DEF Next, ThreadStep, TickerStep, WrapperStep, Procs

\* A stop its owner withdrew is never handed back (#387).
THEOREM WithdrawnNeverReturns == Spec => []WithdrawnStaysOut
<1>1. Init => WithdrawnStaysOut
  BY DEF Init, WithdrawnStaysOut
<1> QED
  BY <1>1, TypeCorrect, WithdrawnStep, PTL DEF Spec

-----------------------------------------------------------------------------
(* Owners.  A step of a process that owns nothing before or after it, and  *)
(* writes no marker, cannot disturb what the owners rely on; the others    *)
(* are the claims, the ends of a sequence and the ways to give up.         *)

LEMMA InitOwner == Init => OwnerInv
<1> SUFFICES ASSUME Init PROVE OwnerInv
  OBVIOUS
<1>1. \A p \in Procs : ~Owns(p) /\ pc[p] # "captured"
  BY DEF Init, Owns
<1>2. \A m \in Markers : ~IsTyping(m)
  BY DEF Init, IsTyping
<1> QED
  BY <1>1, <1>2, Processes
     DEF OwnerInv, OwnedAsClaimed, OneOwner, NoOrphan, CapturedIsWatched, Owns

Bystander(p) ==
  /\ ~Owns(p) /\ ~Owns(p)'
  /\ p = Wrapper => pc'[p] # "captured"
  /\ \A q \in Procs \ {p} : pc'[q] = pc[q] /\ mk'[q] = mk[q]
  /\ UNCHANGED <<phase, watch, typing, withdrawn>>

\* What a process does that owns nothing does not disturb the owners.
LEMMA OthersKeep ==
  ASSUME OwnerInv, NEW p \in Procs, ~Owns(p), ~Owns(p)',
         \A q \in Procs \ {p} : pc'[q] = pc[q] /\ mk'[q] = mk[q],
         UNCHANGED <<phase, watch, typing, withdrawn>>
  PROVE  OwnedAsClaimed' /\ OneOwner' /\ NoOrphan'
<1>1. \A q \in Procs : Owns(q)' => q # p /\ Owns(q) /\ mk'[q] = mk[q]
                                     /\ pc'[q] = pc[q]
  BY DEF Owns
<1>2. \A q \in Procs : Owns(q) => q # p /\ Owns(q)' /\ mk'[q] = mk[q]
  BY DEF Owns
<1>3. OwnedAsClaimed'
  BY <1>1 DEF OwnerInv, OwnedAsClaimed, Owns
<1>4. OneOwner'
  BY <1>1 DEF OwnerInv, OneOwner
<1>5. NoOrphan'
  <2> SUFFICES ASSUME NEW m \in Markers, IsTyping(m)', ~withdrawn'[m]
               PROVE  \E q \in Procs : Owns(q)' /\ mk'[q] = m
    BY DEF NoOrphan
  <2>1. IsTyping(m) /\ ~withdrawn[m]
    BY DEF IsTyping
  <2>2. PICK q \in Procs : Owns(q) /\ mk[q] = m
    BY <2>1 DEF OwnerInv, NoOrphan
  <2> QED
    BY <2>2, <1>2
<1> QED
  BY <1>3, <1>4, <1>5

LEMMA BystanderKeeps ==
  ASSUME OwnerInv, NEW p \in Procs, Bystander(p)
  PROVE  OwnerInv'
<1>1. OwnedAsClaimed' /\ OneOwner' /\ NoOrphan'
  BY OthersKeep DEF Bystander
<1>2. CapturedIsWatched'
  BY Processes DEF OwnerInv, CapturedIsWatched, Bystander
<1> QED
  BY <1>1, <1>2 DEF OwnerInv

LEMMA StillKeeps ==
  ASSUME OwnerInv, UNCHANGED <<phase, watch, typing, withdrawn, pc, mk>>
  PROVE  OwnerInv'
BY DEF OwnerInv, OwnedAsClaimed, OneOwner, NoOrphan, CapturedIsWatched, Owns,
       IsTyping

\* A claim for the exit, in place: nobody owns a marker that is not typing.
LEMMA ExitClaimKeeps ==
  ASSUME TypeOK, OwnerInv, NEW p \in Procs, NEW m \in Markers,
         ~IsTyping(m), phase[m] = "closing", ~withdrawn[m], SendToExit(m),
         pc' = [pc EXCEPT ![p] = "exit"], mk' = [mk EXCEPT ![p] = m],
         ~Owns(p)
  PROVE  OwnerInv'
<1> USE DEF TypeOK, LocalTypeOK
<1>1. \A q \in Procs : Owns(q) => mk[q] # m /\ q # p
  BY DEF OwnerInv, OwnedAsClaimed, Owns, IsTyping
<1>2. \A q \in Procs : q # p => pc'[q] = pc[q] /\ mk'[q] = mk[q]
  OBVIOUS
<1>3. pc'[p] = "exit" /\ mk'[p] = m
  OBVIOUS
<1>4. \A x \in Markers : x # m => phase'[x] = phase[x] /\ typing'[x] = typing[x]
  BY DEF SendToExit
<1>5. phase'[m] = "exiting" /\ typing'[m] /\ UNCHANGED <<watch, withdrawn>>
  BY DEF SendToExit
<1>6. OwnedAsClaimed'
  BY <1>1, <1>2, <1>3, <1>4, <1>5 DEF OwnerInv, OwnedAsClaimed, Owns
<1>7. OneOwner'
  BY <1>1, <1>2, <1>3 DEF OwnerInv, OneOwner, Owns
<1>8. NoOrphan'
  <2> SUFFICES ASSUME NEW x \in Markers, IsTyping(x)', ~withdrawn'[x]
               PROVE  \E q \in Procs : Owns(q)' /\ mk'[q] = x
    BY DEF NoOrphan
  <2>1. CASE x = m
    BY <2>1, <1>3 DEF Owns
  <2>2. CASE x # m
    BY <2>2, <1>1, <1>2, <1>4, <1>5 DEF OwnerInv, NoOrphan, IsTyping, Owns
  <2> QED
    BY <2>1, <2>2
<1>9. CapturedIsWatched'
  BY <1>2, <1>3, <1>5, Processes DEF OwnerInv, CapturedIsWatched
<1> QED
  BY <1>6, <1>7, <1>8, <1>9 DEF OwnerInv

\* A new marker is one no process had.
LEMMA FreshClaimKeeps ==
  ASSUME TypeOK, OwnerInv, NEW t \in Threads, ClaimAfresh(t)
  PROVE  OwnerInv'
<1> DEFINE m == Fresh
<1> USE Processes DEF TypeOK, LocalTypeOK
<1>1. m \in Markers /\ \A q \in Procs : mk[q] # m
  BY FreshIsUnreferenced DEF ClaimAfresh, Unreferenced
<1>2. t # Wrapper /\ \A q \in Procs : q # t => pc'[q] = pc[q] /\ mk'[q] = mk[q]
  BY ProcsAssumption DEF ClaimAfresh, Goto
<1>3. mk'[t] = m /\ pc'[t] = IF Wrapping THEN "prompt" ELSE "exit"
  BY DEF ClaimAfresh, Goto
<1>4. \A x \in Markers : x # m =>
        /\ phase'[x] = phase[x] /\ watch'[x] = watch[x]
        /\ typing'[x] = typing[x] /\ withdrawn'[x] = withdrawn[x]
  BY DEF ClaimAfresh
<1>5. /\ phase'[m] = IF Wrapping THEN "closing" ELSE "exiting"
      /\ ~watch'[m] /\ ~withdrawn'[m]
  BY <1>1 DEF ClaimAfresh
<1>6. typing'[m] = ~Wrapping
  BY <1>1 DEF ClaimAfresh
<1>7. OwnedAsClaimed'
  <2> SUFFICES ASSUME NEW q \in Procs, Owns(q)'
               PROVE  /\ mk'[q] \in Markers
                      /\ pc'[q] \in {"prompt", "watch"} =>
                           /\ phase'[mk'[q]] = "closing"
                           /\ ~watch'[mk'[q]] /\ ~typing'[mk'[q]]
                      /\ pc'[q] = "exit" =>
                           phase'[mk'[q]] = "exiting" /\ typing'[mk'[q]]
                      /\ ~withdrawn'[mk'[q]]
    BY DEF OwnedAsClaimed, Owns
  <2>1. CASE q = t
    BY <2>1, <1>1, <1>3, <1>5, <1>6
  <2>2. CASE q # t
    <3>1. Owns(q) /\ pc'[q] = pc[q] /\ mk'[q] = mk[q]
      BY <2>2, <1>2 DEF Owns
    <3>2. mk[q] \in Markers \ {m}
      BY <3>1, <1>1 DEF OwnerInv, OwnedAsClaimed
    <3> QED
      BY <3>1, <3>2, <1>4 DEF OwnerInv, OwnedAsClaimed
  <2> QED
    BY <2>1, <2>2
<1>8. OneOwner'
  BY <1>1, <1>2, <1>3 DEF OwnerInv, OneOwner, Owns
<1>9. NoOrphan'
  <2> SUFFICES ASSUME NEW x \in Markers, IsTyping(x)', ~withdrawn'[x]
               PROVE  \E q \in Procs : Owns(q)' /\ mk'[q] = x
    BY DEF NoOrphan
  <2>1. CASE x = m
    BY <2>1, <1>3 DEF Owns
  <2>2. CASE x # m
    <3>1. PICK q \in Procs : Owns(q) /\ mk[q] = x
      BY <2>2, <1>4 DEF OwnerInv, NoOrphan, IsTyping
    <3>2. q # t
      BY <3>1 DEF ClaimAfresh, Owns
    <3> QED
      BY <3>1, <3>2, <1>2 DEF Owns
  <2> QED
    BY <2>1, <2>2
<1>10. CapturedIsWatched'
  BY <1>1, <1>2, <1>4 DEF OwnerInv, CapturedIsWatched
<1> QED
  BY <1>7, <1>8, <1>9, <1>10 DEF OwnerInv

\* An owner lets its marker go: it is not being typed any more, or withdrawn.
LEMMA GiveUpKeeps ==
  ASSUME TypeOK, OwnerInv, NEW p \in Procs, NEW m \in Markers,
         Owns(p), mk[p] = m, ~(IsTyping(m)' /\ ~withdrawn'[m]),
         \A x \in Markers \ {m} :
           /\ phase'[x] = phase[x] /\ watch'[x] = watch[x]
           /\ typing'[x] = typing[x] /\ withdrawn'[x] = withdrawn[x],
         watch[m] => watch'[m],
         NEW to \in {"settle", "idle"}, pc' = [pc EXCEPT ![p] = to],
         \A q \in Procs \ {p} : mk'[q] = mk[q]
  PROVE  OwnerInv'
<1> USE Processes DEF TypeOK, LocalTypeOK
<1>1. ~Owns(p)' /\ pc'[p] # "captured"
  BY DEF Owns
<1>2. \A q \in Procs : q # p => pc'[q] = pc[q] /\ mk'[q] = mk[q]
  OBVIOUS
<1>3. \A q \in Procs : Owns(q) /\ q # p => mk[q] # m
  BY DEF OwnerInv, OneOwner
<1>4. OwnedAsClaimed'
  <2> SUFFICES ASSUME NEW q \in Procs, Owns(q)'
               PROVE  /\ mk'[q] \in Markers
                      /\ pc'[q] \in {"prompt", "watch"} =>
                           /\ phase'[mk'[q]] = "closing"
                           /\ ~watch'[mk'[q]] /\ ~typing'[mk'[q]]
                      /\ pc'[q] = "exit" =>
                           phase'[mk'[q]] = "exiting" /\ typing'[mk'[q]]
                      /\ ~withdrawn'[mk'[q]]
    BY DEF OwnedAsClaimed, Owns
  <2>1. q # p /\ Owns(q) /\ pc'[q] = pc[q] /\ mk'[q] = mk[q]
    BY <1>1, <1>2 DEF Owns
  <2>2. mk[q] \in Markers \ {m}
    BY <2>1, <1>3 DEF OwnerInv, OwnedAsClaimed
  <2> QED
    BY <2>1, <2>2 DEF OwnerInv, OwnedAsClaimed
<1>5. OneOwner'
  BY <1>1, <1>2 DEF OwnerInv, OneOwner, Owns
<1>6. NoOrphan'
  <2> SUFFICES ASSUME NEW x \in Markers, IsTyping(x)', ~withdrawn'[x]
               PROVE  \E q \in Procs : Owns(q)' /\ mk'[q] = x
    BY DEF NoOrphan
  <2>1. x # m
    OBVIOUS
  <2>2. PICK q \in Procs : Owns(q) /\ mk[q] = x
    BY <2>1 DEF OwnerInv, NoOrphan, IsTyping
  <2> QED
    BY <2>1, <2>2, <1>2 DEF Owns
<1>7. CapturedIsWatched'
  <2> SUFFICES ASSUME pc'[Wrapper] = "captured"
               PROVE  mk'[Wrapper] \in Markers /\ watch'[mk'[Wrapper]]
    BY DEF CapturedIsWatched
  <2>1. Wrapper # p /\ pc[Wrapper] = "captured" /\ mk'[Wrapper] = mk[Wrapper]
    BY <1>1, <1>2
  <2> QED
    BY <2>1 DEF OwnerInv, CapturedIsWatched
<1> QED
  BY <1>4, <1>5, <1>6, <1>7 DEF OwnerInv

LEMMA OwnerStep ==
  TypeOK /\ WithdrawnStaysOut /\ OwnerInv /\ [Next]_vars => OwnerInv'
<1> SUFFICES ASSUME TypeOK, WithdrawnStaysOut, OwnerInv, [Next]_vars
             PROVE  OwnerInv'
  OBVIOUS
<1> USE DEF TypeOK, LocalTypeOK
<1>1. CASE AgentExits
  BY <1>1, StillKeeps DEF AgentExits, otherMarkerVars, markerVars, localVars
<1>2. CASE PaneCloses
  BY <1>2, StillKeeps DEF PaneCloses, otherMarkerVars, markerVars, localVars
<1>3. ASSUME NEW t \in Threads, NEW r \in Routes, Request(t, r)
      PROVE  OwnerInv'
  <2>1. Bystander(t)
    BY <1>3, Processes, ProcsAssumption
       DEF Request, Bystander, Owns,
           Press, Goto, stopVars, markerVars, localVars
  <2> QED
    BY <2>1, BystanderKeeps, Processes
<1>4. ASSUME NEW t \in Threads, RequestRestart(t) PROVE OwnerInv'
  <2>1. Bystander(t)
    BY <1>4, Processes, ProcsAssumption
       DEF RequestRestart, Bystander,
           Owns, Press, Goto, stopVars, markerVars, localVars
  <2> QED
    BY <2>1, BystanderKeeps, Processes
<1>5. ASSUME NEW t \in Threads, Start(t) PROVE OwnerInv'
  BY <1>5, StillKeeps DEF Start, Press, otherMarkerVars, markerVars, localVars
<1>6. ASSUME NEW t \in Threads, Look(t) PROVE OwnerInv'
  <2>1. Bystander(t)
    BY <1>6, Processes, ProcsAssumption
       DEF Look, Bystander, Owns,
           Goto, stopVars, markerVars, localVars
  <2> QED
    BY <2>1, BystanderKeeps, Processes
<1>7. ASSUME NEW t \in Threads, Derive(t) PROVE OwnerInv'
  <2>1. Bystander(t)
    BY <1>7, Processes, ProcsAssumption
       DEF Derive, Bystander, Owns,
           Return, Goto, AfterRow, stopVars, markerVars, localVars
  <2> QED
    BY <2>1, BystanderKeeps, Processes
<1>8. ASSUME NEW t \in Threads, ClaimNothing(t) PROVE OwnerInv'
  <2>1. Bystander(t)
    BY <1>8, Processes, ProcsAssumption
       DEF ClaimNothing, Bystander,
           Owns, Return, Goto, stopVars, markerVars, localVars
  <2> QED
    BY <2>1, BystanderKeeps, Processes
<1>9. ASSUME NEW t \in Threads, ClaimExitNow(t) PROVE OwnerInv'
  <2> DEFINE m == table
  <2>1. m \in Markers /\ ~IsTyping(m) /\ phase[m] = "closing"
    BY <1>9, MarkersAssumption DEF ClaimExitNow, TypingHere, TypeOK
  <2>2. pc' = [pc EXCEPT ![t] = "exit"] /\ mk' = [mk EXCEPT ![t] = m]
    BY <1>9 DEF ClaimExitNow, Goto
  <2>3. ~withdrawn[m]
    BY <1>9 DEF ClaimExitNow, WithdrawnStaysOut
  <2>4. t \in Procs /\ ~Owns(t) /\ SendToExit(m)
    BY <1>9, Processes DEF ClaimExitNow, Owns
  <2>5. m \in Markers /\ OwnerInv /\ TypeOK
    BY <2>1
  <2> HIDE DEF m
  <2> QED
    BY <2>1, <2>2, <2>3, <2>4, <2>5, ExitClaimKeeps
<1>10. ASSUME NEW t \in Threads, ClaimAfresh(t) PROVE OwnerInv'
  BY <1>10, FreshClaimKeeps
<1>11. ASSUME NEW t \in Threads, PromptTyped(t) PROVE OwnerInv'
  <2>1. Owns(t) /\ mk' = mk /\ pc' = [pc EXCEPT ![t] = "watch"]
    BY <1>11 DEF PromptTyped, Owns, Goto, localVars
  <2>2. typing' = typing
    BY <1>11, <2>1, Processes
       DEF PromptTyped, OwnerInv, OwnedAsClaimed, TypeOK
  <2>3. UNCHANGED <<phase, watch, withdrawn>>
    BY <1>11 DEF PromptTyped
  <2>4. \A p \in Procs :
          /\ Owns(p)' <=> Owns(p)
          /\ \/ pc'[p] = pc[p]
             \/ p = t /\ pc[p] = "prompt" /\ pc'[p] = "watch"
    BY <1>11, <2>1, Processes DEF PromptTyped, Owns, TypeOK, LocalTypeOK
  <2>5. OwnedAsClaimed'
    BY <2>1, <2>2, <2>3, <2>4 DEF OwnerInv, OwnedAsClaimed
  <2>6. OneOwner'
    BY <2>1, <2>4 DEF OwnerInv, OneOwner
  <2>7. NoOrphan'
    <3> SUFFICES ASSUME NEW x \in Markers, IsTyping(x)', ~withdrawn'[x]
                 PROVE  \E q \in Procs : Owns(q)' /\ mk'[q] = x
      BY DEF NoOrphan
    <3>1. IsTyping(x) /\ ~withdrawn[x]
      BY <2>2, <2>3 DEF IsTyping
    <3>2. PICK q \in Procs : Owns(q) /\ mk[q] = x
      BY <3>1 DEF OwnerInv, NoOrphan
    <3>3. Owns(q)' /\ mk'[q] = mk[q]
      BY <3>2, <2>1, <2>4 DEF Owns
    <3> QED
      BY <3>2, <3>3
  <2>8. CapturedIsWatched'
    BY <2>1, <2>3, <2>4, Processes DEF OwnerInv, CapturedIsWatched
  <2> QED
    BY <2>5, <2>6, <2>7, <2>8 DEF OwnerInv
<1>12. ASSUME NEW t \in Threads, SetWatch(t) PROVE OwnerInv'
  <2> DEFINE m == mk[t]
  <2>1. Owns(t) /\ t # Wrapper
    BY <1>12, ProcsAssumption DEF SetWatch, Owns
  <2>2. m \in Markers /\ ~typing[m]
    BY <1>12, <2>1, Processes DEF SetWatch, OwnerInv, OwnedAsClaimed
  <2>3. watch' = [watch EXCEPT ![m] = TRUE] /\ UNCHANGED <<phase, typing, withdrawn, mk>>
    BY <1>12 DEF SetWatch, localVars
  <2>4. pc' = [pc EXCEPT ![t] = "settle"]
    BY <1>12 DEF SetWatch, Goto
  <2> QED
    BY <2>1, <2>2, <2>3, <2>4, Processes, GiveUpKeeps DEF IsTyping
<1>13. ASSUME NEW t \in Threads, TypingRefused(t) PROVE OwnerInv'
  <2> DEFINE m == mk[t]
  <2>1. Owns(t) /\ m \in Markers
    BY <1>13, Processes DEF TypingRefused, Owns, OwnerInv, OwnedAsClaimed
  <2>2. pc' = [pc EXCEPT ![t] = "idle"] /\ mk' = [mk EXCEPT ![t] = NoMarker]
    BY <1>13 DEF TypingRefused, Return
  <2>3. CASE resume[t]
    <3>1. /\ phase' = [phase EXCEPT ![m] = "closing"]
          /\ typing' = [typing EXCEPT ![m] = FALSE]
          /\ watch' = [watch EXCEPT ![m] = TRUE]
          /\ UNCHANGED withdrawn
      BY <1>13, <2>3 DEF TypingRefused, GiveBack
    <3> QED
      BY <2>1, <2>2, <3>1, Processes, GiveUpKeeps DEF IsTyping
  <2>4. CASE ~resume[t]
    <3>1. /\ withdrawn' = [withdrawn EXCEPT ![m] = TRUE]
          /\ UNCHANGED <<phase, watch, typing>>
      BY <1>13, <2>4 DEF TypingRefused, GiveBack, Drop
    <3> QED
      BY <2>1, <2>2, <3>1, Processes, GiveUpKeeps
  <2> QED
    BY <2>3, <2>4
<1>14. ASSUME NEW t \in Threads, Mark(t) PROVE OwnerInv'
  <2>1. Bystander(t)
    BY <1>14, Processes, ProcsAssumption
       DEF Mark, Bystander, Owns,
           Return, stopVars, markerVars, localVars
  <2> QED
    BY <2>1, BystanderKeeps, Processes
<1>15. ASSUME NEW t \in Threads, Take(t) PROVE OwnerInv'
  <2>1. Bystander(t)
    BY <1>15, Processes, ProcsAssumption
       DEF Take, Bystander, Owns,
           Goto, stopVars, markerVars, localVars
  <2> QED
    BY <2>1, BystanderKeeps, Processes
<1>16. ASSUME NEW t \in Threads, KillSession(t) PROVE OwnerInv'
  <2>1. PICK to \in {"releaseFailed", "releaseOk"} : Goto(t, to)
    BY <1>16 DEF KillSession
  <2>2. Bystander(t)
    BY <1>16, <2>1, ProcsAssumption
       DEF KillSession, Bystander, Owns, Goto, localVars, otherMarkerVars
  <2> QED
    BY <2>2, BystanderKeeps, Processes
<1>17. ASSUME NEW t \in Threads, Release(t) PROVE OwnerInv'
  <2>1. Bystander(t)
    BY <1>17, Processes, ProcsAssumption
       DEF Release, Bystander, Owns,
           Goto, stopVars, markerVars, localVars
  <2> QED
    BY <2>1, BystanderKeeps, Processes
<1>18. ASSUME NEW t \in Threads, ReleaseFailed(t) PROVE OwnerInv'
  <2>1. Bystander(t)
    BY <1>18, Processes, ProcsAssumption
       DEF ReleaseFailed, Bystander,
           Owns, Return, stopVars, markerVars, localVars
  <2> QED
    BY <2>1, BystanderKeeps, Processes
<1>19. ASSUME NEW t \in Threads, Wipe(t) PROVE OwnerInv'
  <2>1. Bystander(t)
    BY <1>19, Processes, ProcsAssumption
       DEF Wipe, Bystander, Owns,
           Goto, stopVars, markerVars, localVars
  <2> QED
    BY <2>1, BystanderKeeps, Processes
<1>20. ASSUME NEW t \in Threads, SignalDetached(t) PROVE OwnerInv'
  <2>1. Bystander(t)
    BY <1>20, Processes, ProcsAssumption
       DEF SignalDetached, Bystander,
           Owns, Return, stopVars, markerVars, localVars
  <2> QED
    BY <2>1, BystanderKeeps, Processes
<1>21. ASSUME NEW p \in Procs, ExitTyped(p) PROVE OwnerInv'
  <2> DEFINE m == mk[p]
  <2>1. Owns(p)
    BY <1>21 DEF ExitTyped, Owns
  <2>2. m \in Markers /\ phase[m] = "exiting"
    BY <1>21, <2>1 DEF ExitTyped, OwnerInv, OwnedAsClaimed
  <2>3. typing' = [typing EXCEPT ![m] = FALSE] /\ UNCHANGED <<phase, watch, withdrawn, mk>>
    BY <1>21 DEF ExitTyped, localVars
  <2>4. pc' = [pc EXCEPT ![p] = "settle"]
    BY <1>21 DEF ExitTyped, Goto
  <2> QED
    BY <2>1, <2>2, <2>3, <2>4, GiveUpKeeps DEF IsTyping
<1>22. ASSUME NEW p \in Procs, Settle(p) PROVE OwnerInv'
  <2>1. Bystander(p)
    BY <1>22, Processes, ProcsAssumption
       DEF Settle, Bystander, Owns,
           Goto, stopVars, markerVars, localVars
  <2> QED
    BY <2>1, BystanderKeeps, Processes
<1>23. ASSUME NEW p \in Procs, Settled(p) PROVE OwnerInv'
  <2>1. Bystander(p)
    BY <1>23, Processes, ProcsAssumption
       DEF Settled, Bystander, Owns,
           Return, Goto, stopVars, markerVars, localVars
  <2> QED
    BY <2>1, BystanderKeeps, Processes
<1>24. ASSUME NEW p \in Procs, SettleUnreadable(p) PROVE OwnerInv'
  <2>1. Bystander(p)
    BY <1>24, Processes, ProcsAssumption
       DEF SettleUnreadable,
           Bystander, Owns, Return, stopVars, markerVars, localVars
  <2> QED
    BY <2>1, BystanderKeeps, Processes
<1>25. CASE TickPasses
  <2>1. Bystander(Ticker)
    BY <1>25, Processes, ProcsAssumption
       DEF TickPasses, Bystander,
           Owns, Goto, stopVars, markerVars, localVars
  <2> QED
    BY <2>1, BystanderKeeps, Processes
<1>26. CASE TickLook
  <2>1. Bystander(Ticker)
    BY <1>26, Processes, ProcsAssumption
       DEF TickLook, Bystander, Owns,
           Goto, stopVars, markerVars, localVars
  <2> QED
    BY <2>1, BystanderKeeps, Processes
<1>27. CASE TickDerive
  <2>1. Bystander(Ticker)
    BY <1>27, Processes, ProcsAssumption
       DEF TickDerive, Bystander,
           Owns, Goto, stopVars, markerVars, localVars
  <2> QED
    BY <2>1, BystanderKeeps, Processes
<1>28. CASE Consume
  <2>1. Bystander(Ticker)
    BY <1>28, Processes, ProcsAssumption
       DEF Consume, Bystander, Owns,
           Goto, stopVars, markerVars, localVars
  <2> QED
    BY <2>1, BystanderKeeps, Processes
<1>29. CASE RestartStarts
  <2>1. Bystander(Ticker)
    BY <1>29, Processes, ProcsAssumption
       DEF RestartStarts, Bystander,
           Owns, Goto, stopVars, markerVars, localVars
  <2> QED
    BY <2>1, BystanderKeeps, Processes
<1>30. CASE ExpireStop
  <2>1. Bystander(Ticker)
    BY <1>30, Processes, ProcsAssumption
       DEF ExpireStop, Bystander,
           Owns, Goto, stopVars, markerVars, localVars
  <2> QED
    BY <2>1, BystanderKeeps, Processes
<1>31. CASE ExpireNothing
  <2>1. Bystander(Ticker)
    BY <1>31, Processes, ProcsAssumption
       DEF ExpireNothing, Bystander,
           Owns, Goto, stopVars, markerVars, localVars
  <2> QED
    BY <2>1, BystanderKeeps, Processes
<1>32. CASE ExpiredEndsAnyway
  <2>1. Bystander(Ticker)
    BY <1>32, Processes, ProcsAssumption
       DEF ExpiredEndsAnyway,
           Bystander, Owns, Goto, stopVars, markerVars, localVars
  <2> QED
    BY <2>1, BystanderKeeps, Processes
<1>33. CASE ExpiredReports
  <2>1. Bystander(Ticker)
    BY <1>33, Processes, ProcsAssumption
       DEF ExpiredReports, Bystander,
           Owns, Goto, stopVars, markerVars, localVars
  <2> QED
    BY <2>1, BystanderKeeps, Processes
<1>34. CASE WrapUpSeen
  <2>1. /\ table \in Markers /\ watch[table] /\ ~Owns(Wrapper)
        /\ mk' = [mk EXCEPT ![Wrapper] = table]
        /\ pc' = [pc EXCEPT ![Wrapper] = "captured"]
        /\ UNCHANGED <<phase, watch, typing, withdrawn>>
    BY <1>34 DEF WrapUpSeen, Goto, Owns, TypeOK, stopVars, markerVars
  <2>2. /\ ~Owns(Wrapper)'
        /\ \A q \in Procs \ {Wrapper} : pc'[q] = pc[q] /\ mk'[q] = mk[q]
    BY <2>1, Processes DEF Owns, TypeOK, LocalTypeOK
  <2>3. OwnedAsClaimed' /\ OneOwner' /\ NoOrphan'
    BY <2>1, <2>2, Processes, OthersKeep
  <2>4. CapturedIsWatched'
    BY <2>1, Processes DEF CapturedIsWatched, TypeOK, LocalTypeOK
  <2> QED
    BY <2>3, <2>4 DEF OwnerInv
<1>35. CASE WrapUpClaim
  <2> DEFINE m == mk[Wrapper]
  <2>1. m \in Markers /\ watch[m]
    BY <1>35 DEF WrapUpClaim, OwnerInv, CapturedIsWatched
  <2>2. ~IsTyping(m) /\ phase[m] = "closing" /\ ~withdrawn[m]
    <3>1. phase[m] = "closing" /\ ~withdrawn[m]
      BY <1>35, <2>1, MarkersAssumption DEF WrapUpClaim, WithdrawnStaysOut
    <3>2. ~Owns(Wrapper)
      BY <1>35 DEF WrapUpClaim, Owns
    <3>3. \A q \in Procs : Owns(q) => mk[q] # m
      BY <2>1, <3>1 DEF OwnerInv, OwnedAsClaimed, Owns
    <3> QED
      BY <2>1, <3>1, <3>3 DEF OwnerInv, NoOrphan
  <2>3. pc' = [pc EXCEPT ![Wrapper] = "exit"] /\ mk' = [mk EXCEPT ![Wrapper] = m]
    BY <1>35, Processes DEF WrapUpClaim, Goto, localVars, TypeOK, LocalTypeOK
  <2>4. Wrapper \in Procs /\ ~Owns(Wrapper) /\ SendToExit(m)
    BY <1>35, Processes DEF WrapUpClaim, Owns
  <2> HIDE DEF m
  <2> QED
    BY <2>1, <2>2, <2>3, <2>4, ExitClaimKeeps
<1>36. CASE WrapUpLost
  <2>1. Bystander(Wrapper)
    BY <1>36, Processes, ProcsAssumption
       DEF WrapUpLost, Bystander,
           Owns, Return, stopVars, markerVars, localVars
  <2> QED
    BY <2>1, BystanderKeeps, Processes
<1>37. CASE WrapUpRefused
  <2> DEFINE m == mk[Wrapper]
  <2>1. Owns(Wrapper) /\ m \in Markers
    BY <1>37, Processes DEF WrapUpRefused, Owns, OwnerInv, OwnedAsClaimed
  <2>2. pc' = [pc EXCEPT ![Wrapper] = "settle"] /\ mk' = mk
    BY <1>37 DEF WrapUpRefused, Goto, localVars
  <2>3. /\ withdrawn' = [withdrawn EXCEPT ![m] = TRUE]
        /\ UNCHANGED <<phase, watch, typing>>
    BY <1>37 DEF WrapUpRefused, Drop
  <2> QED
    BY <2>1, <2>2, <2>3, Processes, GiveUpKeeps
<1>38. CASE UNCHANGED vars
  BY <1>38, StillKeeps DEF vars, stopVars, markerVars, localVars
<1> QED
  BY <1>1, <1>2, <1>3, <1>4, <1>5, <1>6, <1>7, <1>8, <1>9, <1>10,
     <1>11, <1>12, <1>13, <1>14, <1>15, <1>16, <1>17, <1>18, <1>19, <1>20,
     <1>21, <1>22, <1>23, <1>24, <1>25, <1>26, <1>27, <1>28, <1>29, <1>30,
     <1>31, <1>32, <1>33, <1>34, <1>35, <1>36, <1>37, <1>38
     DEF Next, ThreadStep, TickerStep, WrapperStep, Procs

THEOREM OwnerCorrect == Spec => []OwnerInv
<1> QED
  BY InitOwner, OwnerStep, TypeCorrect, WithdrawnNeverReturns, PTL DEF Spec

\* A marker that reads as being typed always has a thread at work on it
\* (#387, #407).
THEOREM NeverStranded == Spec => []NoStrandedMarker
<1>1. OwnerInv /\ WithdrawnStaysOut /\ TypeOK => NoStrandedMarker
  BY DEF OwnerInv, NoOrphan, WithdrawnStaysOut, TypeOK, NoStrandedMarker, Owns
<1> QED
  BY <1>1, OwnerCorrect, WithdrawnNeverReturns, TypeCorrect, PTL

-----------------------------------------------------------------------------
(* A pending start outlives no Kill, whatever the number of Kills, signals *)
(* and Restarts in flight: `request` reads the epoch before it stops       *)
(* anything, so an epoch which still stands says nothing ended this        *)
(* Restart since.                                                          *)

\* A Restart whose epoch still stands has not been ended.
EpochTells ==
  \A t \in Threads :
    /\ op[t] = "restart" => epoch[t] <= ended
    /\ op[t] = "restart" /\ epoch[t] = ended => t \in valid
    /\ pc[t] = "mark" => op[t] = "restart"

RestartInv == EpochTells /\ RestartOutlivesNoKill

LEMMA InitRestart == Init => RestartInv
BY Processes DEF Init, RestartInv, EpochTells, RestartOutlivesNoKill

\* A step of p that begins no Restart and touches no other's locals.
Bystands(p) ==
  /\ \A q \in Procs \ {p} : op'[q] = op[q] /\ epoch'[q] = epoch[q]
                            /\ pc'[q] = pc[q]
  /\ p \in Threads =>
       \/ op'[p] # "restart" /\ pc'[p] # "mark"
       \/ /\ op'[p] = op[p] /\ epoch'[p] = epoch[p]
          /\ pc'[p] = "mark" => op[p] = "restart"

LEMMA StillOwed ==
  ASSUME RestartInv, UNCHANGED <<pending, ended, valid, op, epoch, pc>>
  PROVE  RestartInv'
BY DEF RestartInv, EpochTells, RestartOutlivesNoKill

LEMMA NotMarking ==
  ASSUME RestartInv, NEW p \in Procs, Bystands(p),
         UNCHANGED <<pending, ended, valid>>
  PROVE  RestartInv'
BY Processes DEF RestartInv, EpochTells, RestartOutlivesNoKill, Bystands

\* The mark is consumed, or cleared with a stop that ran out.
LEMMA MarkGone ==
  ASSUME RestartInv, NEW p \in Procs, Bystands(p), UNCHANGED ended,
         \/ UNCHANGED <<pending, valid>>
         \/ pending' = FALSE /\ valid' = valid \ {"mark"}
  PROVE  RestartInv'
BY Processes, ProcsAssumption
   DEF RestartInv, EpochTells, RestartOutlivesNoKill, Bystands

\* A cancel moves the epoch on: nothing read before it stands.
LEMMA EndedKeeps ==
  ASSUME TypeOK, RestartInv, NEW p \in Procs, Bystands(p), CancelRestart
  PROVE  RestartInv'
<1>1. \A t \in Threads : op'[t] = "restart" =>
        op[t] = "restart" /\ epoch'[t] = epoch[t]
  BY Processes DEF Bystands
<1>2. \A t \in Threads : epoch[t] \in Nat
  BY Processes DEF TypeOK, LocalTypeOK
<1>3. ended \in Nat /\ ended' = ended + 1
  BY DEF TypeOK, RestartTypeOK, CancelRestart
<1>4. \A t \in Threads : op'[t] = "restart" =>
        epoch'[t] <= ended' /\ epoch'[t] # ended'
  BY <1>1, <1>2, <1>3 DEF RestartInv, EpochTells
<1>5. \A t \in Threads : pc'[t] = "mark" => op'[t] = "restart"
  BY Processes DEF Bystands, RestartInv, EpochTells
<1> QED
  BY <1>4, <1>5 DEF RestartInv, EpochTells, RestartOutlivesNoKill, CancelRestart

LEMMA RestartStep == TypeOK /\ RestartInv /\ [Next]_vars => RestartInv'
<1> SUFFICES ASSUME TypeOK, RestartInv, [Next]_vars PROVE RestartInv'
  OBVIOUS
<1> USE DEF TypeOK, LocalTypeOK
<1>1. CASE AgentExits
  BY <1>1, StillOwed DEF AgentExits, restartVars, localVars
<1>2. CASE PaneCloses
  BY <1>2, StillOwed DEF PaneCloses, restartVars, localVars
<1>3. ASSUME NEW t \in Threads, NEW r \in Routes, Request(t, r)
      PROVE  RestartInv'
  <2>1. Bystands(t)
    BY <1>3, Processes, ProcsAssumption DEF Request, Bystands, Press, Goto,
       restartVars, localVars
  <2> QED
    BY <2>1, <1>3, NotMarking, Processes DEF Request, restartVars
<1>4. ASSUME NEW t \in Threads, RequestRestart(t) PROVE RestartInv'
  <2>1. /\ op' = [op EXCEPT ![t] = "restart"]
        /\ epoch' = [epoch EXCEPT ![t] = ended]
        /\ pc' = [pc EXCEPT ![t] = "asked"]
        /\ valid' = valid \cup {t} /\ UNCHANGED <<pending, ended>>
    BY <1>4 DEF RequestRestart, Goto
  <2> QED
    BY <2>1, Processes
       DEF RestartInv, EpochTells, RestartOutlivesNoKill, TypeOK, LocalTypeOK,
           RestartTypeOK
<1>5. ASSUME NEW t \in Threads, Start(t) PROVE RestartInv'
  BY <1>5, StillOwed DEF Start, Press, restartVars, localVars
<1>6. ASSUME NEW t \in Threads, Look(t) PROVE RestartInv'
  <2>1. Bystands(t)
    BY <1>6, Processes, ProcsAssumption DEF Look, Bystands, Goto, restartVars,
       localVars
  <2> QED
    BY <2>1, <1>6, NotMarking, Processes DEF Look, restartVars
<1>7. ASSUME NEW t \in Threads, Derive(t) PROVE RestartInv'
  <2>1. Bystands(t)
    BY <1>7, Processes, ProcsAssumption DEF Derive, Bystands, Return, Goto,
       AfterRow, restartVars, localVars
  <2> QED
    BY <2>1, <1>7, NotMarking, Processes DEF Derive, restartVars
<1>8. ASSUME NEW t \in Threads, ClaimNothing(t) PROVE RestartInv'
  <2>1. Bystands(t)
    BY <1>8, Processes, ProcsAssumption DEF ClaimNothing, Bystands, Return,
       Goto, restartVars, localVars
  <2> QED
    BY <2>1, <1>8, NotMarking, Processes DEF ClaimNothing, restartVars
<1>9. ASSUME NEW t \in Threads, ClaimExitNow(t) PROVE RestartInv'
  <2>1. Bystands(t)
    BY <1>9, Processes, ProcsAssumption DEF ClaimExitNow, Bystands,
       SendToExit, Goto, restartVars, localVars
  <2> QED
    BY <2>1, <1>9, NotMarking, Processes DEF ClaimExitNow, restartVars
<1>10. ASSUME NEW t \in Threads, ClaimAfresh(t) PROVE RestartInv'
  <2>1. Bystands(t)
    BY <1>10, Processes, ProcsAssumption DEF ClaimAfresh, Bystands, Goto,
       restartVars, localVars
  <2> QED
    BY <2>1, <1>10, NotMarking, Processes DEF ClaimAfresh, restartVars
<1>11. ASSUME NEW t \in Threads, PromptTyped(t) PROVE RestartInv'
  <2>1. Bystands(t)
    BY <1>11, Processes, ProcsAssumption DEF PromptTyped, Bystands, Goto,
       restartVars, localVars
  <2> QED
    BY <2>1, <1>11, NotMarking, Processes DEF PromptTyped, restartVars
<1>12. ASSUME NEW t \in Threads, SetWatch(t) PROVE RestartInv'
  <2>1. Bystands(t)
    BY <1>12, Processes, ProcsAssumption DEF SetWatch, Bystands, Goto,
       restartVars, localVars
  <2> QED
    BY <2>1, <1>12, NotMarking, Processes DEF SetWatch, restartVars
<1>13. ASSUME NEW t \in Threads, TypingRefused(t) PROVE RestartInv'
  <2>1. Bystands(t)
    BY <1>13, Processes, ProcsAssumption DEF TypingRefused, Bystands, Return,
       restartVars, localVars
  <2> QED
    BY <2>1, <1>13, NotMarking, Processes DEF TypingRefused, restartVars
<1>14. ASSUME NEW t \in Threads, Mark(t) PROVE RestartInv'
  <2>1. /\ op' = [op EXCEPT ![t] = "none"]
        /\ epoch' = [epoch EXCEPT ![t] = 0]
        /\ pc' = [pc EXCEPT ![t] = "idle"]
        /\ UNCHANGED ended
    BY <1>14 DEF Mark, Return
  <2>2. MayMark(t) => t \in valid
    BY <1>14 DEF Mark, MayMark, RestartInv, EpochTells
  <2>3. /\ valid \subseteq valid'
        /\ pending' => "mark" \in valid'
    BY <1>14, <2>2 DEF Mark, SetMark, RestartInv, RestartOutlivesNoKill
  <2> QED
    BY <2>1, <2>3, Processes
       DEF RestartInv, EpochTells, RestartOutlivesNoKill, TypeOK, LocalTypeOK
<1>15. ASSUME NEW t \in Threads, Take(t) PROVE RestartInv'
  <2>1. Bystands(t)
    BY <1>15, Processes, ProcsAssumption DEF Take, Bystands, Goto,
       restartVars, localVars
  <2> QED
    BY <2>1, <1>15, EndedKeeps, Processes DEF Take
<1>16. ASSUME NEW t \in Threads, KillSession(t) PROVE RestartInv'
  <2>1. PICK to \in {"releaseFailed", "releaseOk"} : Goto(t, to)
    BY <1>16 DEF KillSession
  <2>2. Bystands(t)
    BY <1>16, <2>1, Processes
       DEF KillSession, Bystands, Goto, restartVars, localVars
  <2> QED
    BY <2>2, <1>16, NotMarking, Processes DEF KillSession, restartVars
<1>17. ASSUME NEW t \in Threads, Release(t) PROVE RestartInv'
  <2>1. Bystands(t)
    BY <1>17, Processes, ProcsAssumption DEF Release, Bystands, Goto,
       restartVars, localVars
  <2> QED
    BY <2>1, <1>17, NotMarking, Processes DEF Release, restartVars
<1>18. ASSUME NEW t \in Threads, ReleaseFailed(t) PROVE RestartInv'
  <2>1. Bystands(t)
    BY <1>18, Processes, ProcsAssumption DEF ReleaseFailed, Bystands, Return,
       restartVars, localVars
  <2> QED
    BY <2>1, <1>18, NotMarking, Processes DEF ReleaseFailed, restartVars
<1>19. ASSUME NEW t \in Threads, Wipe(t) PROVE RestartInv'
  <2>1. Bystands(t)
    BY <1>19, Processes, ProcsAssumption DEF Wipe, Bystands, Goto,
       restartVars, localVars
  <2> QED
    BY <2>1, <1>19, EndedKeeps, Processes DEF Wipe
<1>20. ASSUME NEW t \in Threads, SignalDetached(t) PROVE RestartInv'
  <2>1. Bystands(t)
    BY <1>20, Processes, ProcsAssumption DEF SignalDetached, Bystands, Return,
       restartVars, localVars
  <2> QED
    BY <2>1, <1>20, EndedKeeps, Processes DEF SignalDetached
<1>21. ASSUME NEW p \in Procs, ExitTyped(p) PROVE RestartInv'
  <2>1. Bystands(p)
    BY <1>21, Processes, ProcsAssumption DEF ExitTyped, Bystands, Goto,
       restartVars, localVars
  <2> QED
    BY <2>1, <1>21, NotMarking, Processes DEF ExitTyped, restartVars
<1>22. ASSUME NEW p \in Procs, Settle(p) PROVE RestartInv'
  <2>1. Bystands(p)
    BY <1>22, Processes, ProcsAssumption DEF Settle, Bystands, Goto,
       restartVars, localVars
  <2> QED
    BY <2>1, <1>22, NotMarking, Processes DEF Settle, restartVars
<1>23. ASSUME NEW p \in Procs, Settled(p) PROVE RestartInv'
  <2>1. Bystands(p)
    BY <1>23, Processes, ProcsAssumption DEF Settled, Bystands, Return, Goto,
       restartVars, localVars
  <2> QED
    BY <2>1, <1>23, NotMarking, Processes DEF Settled, restartVars
<1>24. ASSUME NEW p \in Procs, SettleUnreadable(p) PROVE RestartInv'
  <2>1. Bystands(p)
    BY <1>24, Processes, ProcsAssumption DEF SettleUnreadable, Bystands,
       Return, restartVars, localVars
  <2> QED
    BY <2>1, <1>24, NotMarking, Processes DEF SettleUnreadable, restartVars
<1>25. CASE TickPasses
  <2>1. Bystands(Ticker)
    BY <1>25, Processes, ProcsAssumption DEF TickPasses, Bystands, Goto,
       restartVars, localVars
  <2> QED
    BY <2>1, <1>25, NotMarking, Processes DEF TickPasses, restartVars
<1>26. CASE TickLook
  <2>1. Bystands(Ticker)
    BY <1>26, Processes, ProcsAssumption DEF TickLook, Bystands, Goto,
       restartVars, localVars
  <2> QED
    BY <2>1, <1>26, NotMarking, Processes DEF TickLook, restartVars
<1>27. CASE TickDerive
  <2>1. Bystands(Ticker)
    BY <1>27, Processes, ProcsAssumption DEF TickDerive, Bystands, Goto,
       restartVars, localVars
  <2> QED
    BY <2>1, <1>27, NotMarking, Processes DEF TickDerive, restartVars
<1>28. CASE Consume
  <2>1. Bystands(Ticker)
    BY <1>28, Processes, ProcsAssumption DEF Consume, Bystands, Goto,
       restartVars, localVars
  <2> QED
    BY <2>1, <1>28, MarkGone, Processes DEF Consume, stopVars, restartVars
<1>29. CASE RestartStarts
  <2>1. Bystands(Ticker)
    BY <1>29, Processes, ProcsAssumption DEF RestartStarts, Bystands, Goto,
       restartVars, localVars
  <2> QED
    BY <2>1, <1>29, NotMarking, Processes DEF RestartStarts, restartVars
<1>30. CASE ExpireStop
  <2>1. Bystands(Ticker)
    BY <1>30, Processes, ProcsAssumption DEF ExpireStop, Bystands, Goto,
       restartVars, localVars
  <2> QED
    BY <2>1, <1>30, MarkGone, Processes DEF ExpireStop, stopVars, restartVars
<1>31. CASE ExpireNothing
  <2>1. Bystands(Ticker)
    BY <1>31, Processes, ProcsAssumption DEF ExpireNothing, Bystands, Goto,
       restartVars, localVars
  <2> QED
    BY <2>1, <1>31, NotMarking, Processes DEF ExpireNothing, restartVars
<1>32. CASE ExpiredEndsAnyway
  <2>1. Bystands(Ticker)
    BY <1>32, Processes, ProcsAssumption DEF ExpiredEndsAnyway, Bystands,
       Goto, restartVars, localVars
  <2> QED
    BY <2>1, <1>32, EndedKeeps, Processes DEF ExpiredEndsAnyway
<1>33. CASE ExpiredReports
  <2>1. Bystands(Ticker)
    BY <1>33, Processes, ProcsAssumption DEF ExpiredReports, Bystands, Goto,
       restartVars, localVars
  <2> QED
    BY <2>1, <1>33, NotMarking, Processes DEF ExpiredReports, restartVars
<1>34. CASE WrapUpSeen
  <2>1. Bystands(Wrapper)
    BY <1>34, Processes, ProcsAssumption DEF WrapUpSeen, Bystands, Goto,
       restartVars, localVars
  <2> QED
    BY <2>1, <1>34, NotMarking, Processes DEF WrapUpSeen, restartVars
<1>35. CASE WrapUpClaim
  <2>1. Bystands(Wrapper)
    BY <1>35, Processes, ProcsAssumption DEF WrapUpClaim, Bystands, Goto,
       SendToExit, restartVars, localVars
  <2> QED
    BY <2>1, <1>35, NotMarking, Processes DEF WrapUpClaim, restartVars
<1>36. CASE WrapUpLost
  <2>1. Bystands(Wrapper)
    BY <1>36, Processes, ProcsAssumption DEF WrapUpLost, Bystands, Return,
       restartVars, localVars
  <2> QED
    BY <2>1, <1>36, NotMarking, Processes DEF WrapUpLost, restartVars
<1>37. CASE WrapUpRefused
  <2>1. Bystands(Wrapper)
    BY <1>37, Processes, ProcsAssumption DEF WrapUpRefused, Bystands, Drop,
       Goto, restartVars, localVars
  <2> QED
    BY <2>1, <1>37, NotMarking, Processes DEF WrapUpRefused, restartVars
<1>38. CASE UNCHANGED vars
  BY <1>38, StillOwed DEF vars, restartVars, localVars
<1> QED
  BY <1>1, <1>2, <1>3, <1>4, <1>5, <1>6, <1>7, <1>8, <1>9, <1>10,
     <1>11, <1>12, <1>13, <1>14, <1>15, <1>16, <1>17, <1>18, <1>19, <1>20,
     <1>21, <1>22, <1>23, <1>24, <1>25, <1>26, <1>27, <1>28, <1>29, <1>30,
     <1>31, <1>32, <1>33, <1>34, <1>35, <1>36, <1>37, <1>38
     DEF Next, ThreadStep, TickerStep, WrapperStep, Procs

\* A Kill, a signal or an end_anyway is never undone by the start of a
\* Restart that was pressed before it (#472).
THEOREM KillEndsRestart == Spec => []RestartOutlivesNoKill
<1>1. RestartInv => RestartOutlivesNoKill
  BY DEF RestartInv
<1> QED
  BY <1>1, InitRestart, RestartStep, TypeCorrect, PTL DEF Spec

-----------------------------------------------------------------------------
(* Two threads never type into the pane of one agent, where waits outlast  *)
(* typing, one Kill is in flight at a time, and no start overtakes a look: *)
(* each of the three, alone, lets a marker leave the table under its       *)
(* typist.                                                                 *)

Orderly == ~TypingCanOutlastWait /\ ~KillsOverlap /\ ~StartOvertakes

\* An agent's typist is where the claim looks for it.
TypistInPlace ==
  \A p \in Typists : aimed[mk[p]] =>
    mk[p] = table \/ (mk[p] = held /\ ~withdrawn[held])

AimedIsAlive == \A m \in Markers : aimed[m] => session /\ agent

\* What was seen gone, or killed, is gone until it is acted on.
GoneStaysGone ==
  \A p \in Procs :
    /\ pc[p] \in {"derive", "settled", "rederive"} /\ saw[p] = "stopped"
         => ~agent
    /\ pc[p] \in {"releaseOk", "wipe"} => ~session

InKill == {"killing", "releaseOk", "releaseFailed"}

\* What a Kill holds, the one Kill there is has in its hand.
OneKill ==
  /\ \A t, u \in Threads : op[t] = "kill" /\ op[u] = "kill" => t = u
  /\ \A t \in Threads : pc[t] \in InKill \cup {"take"} => op[t] = "kill"
  /\ held # NoMarker => \E t \in Threads : pc[t] \in InKill /\ mk[t] = held

\* While what a Kill holds is being typed, nothing was claimed in its place.
HeldAlone ==
  /\ table # NoMarker => table # held
  /\ held # NoMarker /\ ~withdrawn[held] /\ IsTyping(held)
       => table = NoMarker

OrderInv ==
  TypistInPlace /\ AimedIsAlive /\ GoneStaysGone /\ OneKill /\ HeldAlone

-----------------------------------------------------------------------------
(* The machine: what a stop is aimed at is alive, what was seen gone stays *)
(* gone.                                                                   *)

LEMMA AliveStep ==
  TypeOK /\ AimedIsAlive /\ [Next]_vars => AimedIsAlive'
<1> SUFFICES ASSUME TypeOK, AimedIsAlive, [Next]_vars PROVE AimedIsAlive'
  OBVIOUS
<1>1. ASSUME UNCHANGED <<session, agent, aimed>> PROVE AimedIsAlive'
  BY <1>1 DEF AimedIsAlive
<1>2. CASE AgentExits \/ PaneCloses
  BY <1>2 DEF AgentExits, PaneCloses, AgentLost, AimedIsAlive
<1>3. ASSUME NEW t \in Threads, ClaimAfresh(t) PROVE AimedIsAlive'
  <2>1. /\ aimed' = [aimed EXCEPT ![Fresh] = (Row = "running")]
        /\ UNCHANGED <<session, agent>>
    BY <1>3 DEF ClaimAfresh, machineVars
  <2> QED
    BY <2>1 DEF AimedIsAlive, Row, TypeOK
<1>4. ASSUME NEW t \in Threads, KillSession(t) PROVE AimedIsAlive'
  BY <1>4 DEF KillSession, AgentLost, AimedIsAlive
<1>5. CASE RestartStarts \/ \E t \in Threads : Start(t)
  BY <1>5 DEF RestartStarts, Start, Spawned, AimedIsAlive, machineVars,
     markerVars
<1>6. ASSUME NEW t \in Threads, NEW r \in Routes, Request(t, r)
      PROVE  AimedIsAlive'
  BY <1>1, <1>6 DEF Request, machineVars, stopVars, markerVars
<1>7. ASSUME NEW t \in Threads, RequestRestart(t) PROVE AimedIsAlive'
  BY <1>1, <1>7 DEF RequestRestart, machineVars, stopVars, markerVars
<1>8. ASSUME NEW t \in Threads, ThreadStep(t), ~ClaimAfresh(t), ~KillSession(t)
      PROVE  UNCHANGED <<session, agent, aimed>>
  BY <1>8
     DEF ThreadStep, Look, Derive, ClaimNothing, ClaimExitNow, SendToExit,
         PromptTyped, SetWatch, ExitTyped, TypingRefused, GiveBack, Drop,
         Settle, Settled, SettleUnreadable, Mark, Take, Release,
         ReleaseFailed, Wipe, SignalDetached, machineVars, stopVars,
         markerVars
<1>9. ASSUME TickerStep, ~RestartStarts
      PROVE  UNCHANGED <<session, agent, aimed>>
  BY <1>9
     DEF TickerStep, TickPasses, TickLook, TickDerive, Consume, ExpireStop,
         ExpireNothing, ExpiredEndsAnyway, ExpiredReports, machineVars,
         stopVars, markerVars
<1>10. ASSUME WrapperStep PROVE UNCHANGED <<session, agent, aimed>>
  BY <1>10
     DEF WrapperStep, WrapUpSeen, WrapUpClaim, SendToExit, WrapUpLost,
         WrapUpRefused, Drop, ExitTyped, Settle, Settled, SettleUnreadable,
         machineVars, stopVars, markerVars
<1>11. CASE UNCHANGED vars
  BY <1>1, <1>11 DEF vars, machineVars, stopVars, markerVars
<1> QED
  BY <1>1, <1>2, <1>3, <1>4, <1>5, <1>6, <1>7, <1>8, <1>9, <1>10, <1>11
     DEF Next

\* Only the process that moves can come to rely on what it saw.
Unseen(p) ==
  /\ \A q \in Procs \ {p} : pc'[q] = pc[q] /\ saw'[q] = saw[q]
  /\ agent' => agent
  /\ session' => session

LEMMA GoneStep ==
  Orderly /\ TypeOK /\ GoneStaysGone /\ [Next]_vars => GoneStaysGone'
<1> SUFFICES ASSUME Orderly, TypeOK, GoneStaysGone, [Next]_vars
             PROVE  GoneStaysGone'
  OBVIOUS
<1> USE Processes DEF TypeOK, LocalTypeOK
<1>1. ASSUME UNCHANGED <<pc, saw>>, agent' => agent, session' => session
      PROVE  GoneStaysGone'
  BY <1>1 DEF GoneStaysGone
<1>2. ASSUME NEW p \in Procs, Unseen(p),
             pc'[p] \notin {"derive", "settled", "rederive", "releaseOk",
                            "wipe"}
      PROVE  GoneStaysGone'
  BY <1>2 DEF GoneStaysGone, Unseen
<1>3. ASSUME NEW p \in Procs, Unseen(p), saw'[p] = Row, UNCHANGED agent,
             pc'[p] \in {"derive", "settled", "rederive"}
      PROVE  GoneStaysGone'
  BY <1>3 DEF GoneStaysGone, Unseen, Row
<1>4. CASE AgentExits \/ PaneCloses
  BY <1>1, <1>4 DEF AgentExits, PaneCloses, localVars
<1>5. ASSUME Startable, Spawned, NEW p \in Procs, pc'[p] \in {pc[p], "expire"},
             \A q \in Procs \ {p} : pc'[q] = pc[q], UNCHANGED saw
      PROVE  GoneStaysGone'
  BY <1>5 DEF GoneStaysGone, Startable, Orderly
<1>6. ASSUME NEW t \in Threads, Start(t) PROVE GoneStaysGone'
  BY <1>5, <1>6 DEF Start
<1>7. CASE RestartStarts
  <2>1. /\ pc' = [pc EXCEPT ![Ticker] = "expire"]
        /\ UNCHANGED saw
        /\ (Startable /\ Spawned) \/ UNCHANGED machineVars
    BY <1>7 DEF RestartStarts, Goto, localVars
  <2> QED
    BY <1>2, <1>5, <2>1 DEF Unseen, machineVars
<1>8. ASSUME NEW t \in Threads, NEW r \in Routes, Request(t, r)
      PROVE  GoneStaysGone'
  BY <1>3, <1>8 DEF Request, Unseen, Goto, machineVars
<1>9. ASSUME NEW t \in Threads, RequestRestart(t) PROVE GoneStaysGone'
  BY <1>2, <1>9 DEF RequestRestart, Unseen, Goto, machineVars
<1>10. ASSUME NEW t \in Threads, Look(t) PROVE GoneStaysGone'
  BY <1>3, <1>10 DEF Look, Unseen, Goto, machineVars
<1>11. ASSUME NEW p \in Procs, Settle(p) PROVE GoneStaysGone'
  BY <1>3, <1>11 DEF Settle, Unseen, Goto, machineVars
<1>12. CASE TickLook
  BY <1>3, <1>12 DEF TickLook, Unseen, Goto, machineVars
<1>13. ASSUME NEW t \in Threads, KillSession(t) PROVE GoneStaysGone'
  <2>1. PICK done \in BOOLEAN, failed \in BOOLEAN :
          /\ done \/ failed
          /\ session' = (session /\ ~done)
          /\ pc' = [pc EXCEPT ![t] = IF failed THEN "releaseFailed"
                                               ELSE "releaseOk"]
    BY <1>13 DEF KillSession, Goto
  <2>2. UNCHANGED <<agent, saw>>
    BY <1>13 DEF KillSession, localVars
  <2> QED
    BY <2>1, <2>2 DEF GoneStaysGone
<1>14. ASSUME NEW t \in Threads, Release(t) PROVE GoneStaysGone'
  BY <1>14 DEF Release, Goto, machineVars, localVars, GoneStaysGone
<1>15. ASSUME NEW t \in Threads, ThreadStep(t), ~Look(t), ~Settle(t),
              ~KillSession(t), ~Release(t)
       PROVE  GoneStaysGone'
  <2>1. /\ Unseen(t)
        /\ pc'[t] \notin {"derive", "settled", "rederive", "releaseOk", "wipe"}
    BY <1>15
       DEF ThreadStep, Derive, AfterRow, ClaimNothing, ClaimExitNow,
           ClaimAfresh, PromptTyped, SetWatch, ExitTyped, TypingRefused,
           Settled, SettleUnreadable, Mark, Take, ReleaseFailed, Wipe,
           SignalDetached, Goto, Return, Unseen, machineVars, localVars
  <2> QED
    BY <1>2, <2>1
<1>16. ASSUME TickerStep, ~TickLook, ~RestartStarts PROVE GoneStaysGone'
  <2>1. /\ Unseen(Ticker)
        /\ pc'[Ticker] \notin {"derive", "settled", "rederive", "releaseOk",
                               "wipe"}
    BY <1>16
       DEF TickerStep, TickPasses, TickDerive, Consume, ExpireStop,
           ExpireNothing, ExpiredEndsAnyway, ExpiredReports, Goto, Unseen,
           machineVars, localVars
  <2> QED
    BY <1>2, <2>1
<1>17. ASSUME WrapperStep, ~Settle(Wrapper) PROVE GoneStaysGone'
  <2>1. /\ Unseen(Wrapper)
        /\ pc'[Wrapper] \notin {"derive", "settled", "rederive", "releaseOk",
                                "wipe"}
    BY <1>17
       DEF WrapperStep, WrapUpSeen, WrapUpClaim, WrapUpLost, WrapUpRefused,
           ExitTyped, Settled, SettleUnreadable, Goto, Return, Unseen,
           machineVars, localVars
  <2> QED
    BY <1>2, <2>1
<1>18. CASE UNCHANGED vars
  BY <1>1, <1>18 DEF vars, machineVars, localVars
<1> QED
  BY <1>4, <1>6, <1>7, <1>8, <1>9, <1>10, <1>11, <1>12, <1>13, <1>14, <1>15,
     <1>16, <1>17, <1>18 DEF Next, ThreadStep, TickerStep, WrapperStep

-----------------------------------------------------------------------------
(* The one Kill, and what it holds.                                        *)

\* A step of p that is no Kill's, or a Kill's that goes on with what it has.
KillGoesOn(p) ==
  /\ \A q \in Procs \ {p} : pc'[q] = pc[q] /\ op'[q] = op[q] /\ mk'[q] = mk[q]
  /\ op'[p] \in {op[p], "none"}
  /\ pc'[p] \in InKill \cup {"take"} => op'[p] = "kill"
  /\ pc[p] \in InKill => pc'[p] \in InKill /\ mk'[p] = mk[p]
  /\ UNCHANGED held

LEMMA KillStep ==
  Orderly /\ TypeOK /\ OneKill /\ [Next]_vars => OneKill'
<1> SUFFICES ASSUME Orderly, TypeOK, OneKill, [Next]_vars PROVE OneKill'
  OBVIOUS
<1> USE Processes, ProcsAssumption DEF TypeOK, LocalTypeOK
<1>1. ASSUME UNCHANGED <<pc, op, mk, held>> PROVE OneKill'
  BY <1>1 DEF OneKill
<1>2. ASSUME NEW p \in Procs, KillGoesOn(p) PROVE OneKill'
  BY <1>2 DEF OneKill, KillGoesOn
<1>3. CASE AgentExits \/ PaneCloses \/ \E t \in Threads : Start(t)
  BY <1>1, <1>3 DEF AgentExits, PaneCloses, Start, localVars
<1>4. ASSUME NEW t \in Threads, NEW r \in Routes, Request(t, r)
      PROVE  OneKill'
  <2>1. /\ op' = [op EXCEPT ![t] = r]
        /\ pc' = [pc EXCEPT ![t] = "derive"] /\ pc[t] = "idle"
        /\ r = "kill" => \A u \in Threads : op[u] # "kill"
        /\ UNCHANGED <<mk, held>>
    BY <1>4 DEF Request, Press, Goto, Orderly, stopVars
  <2>2. r \in AllRoutes
    BY <1>4 DEF Request, AllRoutes
  <2> QED
    BY <2>1, <2>2 DEF OneKill, InKill
<1>5. ASSUME NEW t \in Threads, RequestRestart(t) PROVE OneKill'
  <2>1. /\ op' = [op EXCEPT ![t] = "restart"]
        /\ pc' = [pc EXCEPT ![t] = "asked"] /\ pc[t] = "idle"
        /\ UNCHANGED <<mk, held>>
    BY <1>5 DEF RequestRestart, Press, Goto, stopVars
  <2> QED
    BY <2>1 DEF OneKill, InKill
<1>6. ASSUME NEW t \in Threads, Take(t) PROVE OneKill'
  <2>1. /\ mk' = [mk EXCEPT ![t] = table]
        /\ held' = IF table = NoMarker THEN held ELSE table
        /\ pc' = [pc EXCEPT ![t] = "killing"] /\ pc[t] = "take"
        /\ UNCHANGED op
    BY <1>6 DEF Take, Goto
  <2>2. held = NoMarker
    BY <2>1 DEF OneKill, InKill
  <2> QED
    BY <2>1, <2>2 DEF OneKill, InKill
<1>7. ASSUME NEW t \in Threads, pc[t] \in {"releaseOk", "releaseFailed"},
             pc'[t] \in {"wipe", "idle"}, op'[t] \in {op[t], "none"},
             \A q \in Procs \ {t} :
               pc'[q] = pc[q] /\ op'[q] = op[q] /\ mk'[q] = mk[q],
             held' = IF mk[t] = NoMarker THEN held ELSE Released(mk[t])
      PROVE  OneKill'
  <2>1. held' = NoMarker
    BY <1>7, MarkersAssumption DEF OneKill, Released, InKill
  <2> QED
    BY <1>7, <2>1 DEF OneKill, InKill
<1>8. ASSUME NEW t \in Threads, Release(t) PROVE OneKill'
  BY <1>7, <1>8 DEF Release, Goto, localVars
<1>9. ASSUME NEW t \in Threads, ReleaseFailed(t) PROVE OneKill'
  BY <1>7, <1>9 DEF ReleaseFailed, Return
<1>10. ASSUME NEW t \in Threads, KillSession(t) PROVE OneKill'
  <2>1. PICK to \in {"releaseFailed", "releaseOk"} : Goto(t, to)
    BY <1>10 DEF KillSession
  <2>2. /\ UNCHANGED <<op, mk, held>> /\ pc[t] = "killing"
        /\ pc' = [pc EXCEPT ![t] = to] /\ to \in InKill
    BY <1>10, <2>1 DEF KillSession, Goto, InKill, localVars
  <2> QED
    BY <2>1, <2>2 DEF OneKill, InKill
<1>11. ASSUME NEW t \in Threads, Derive(t) PROVE OneKill'
  <2>1. KillGoesOn(t)
    BY <1>11
       DEF Derive, AfterRow, KillGoesOn, Goto, Return, InKill, localVars
  <2> QED
    BY <1>2, <2>1
<1>12. ASSUME NEW t \in Threads, ThreadStep(t), ~Take(t), ~Release(t),
              ~ReleaseFailed(t), ~KillSession(t), ~Derive(t)
       PROVE  KillGoesOn(t)
  BY <1>12
     DEF ThreadStep, Look, ClaimNothing, ClaimExitNow, ClaimAfresh,
         PromptTyped, SetWatch, ExitTyped, TypingRefused, GiveBack, Drop,
         Settle, Settled, SettleUnreadable, Mark, Wipe, SignalDetached, Goto,
         Return, KillGoesOn, InKill, localVars, stopVars
<1>13. ASSUME TickerStep PROVE KillGoesOn(Ticker)
  BY <1>13
     DEF TickerStep, TickPasses, TickLook, TickDerive, Consume, RestartStarts,
         ExpireStop, ExpireNothing, ExpiredEndsAnyway, ExpiredReports, Goto,
         KillGoesOn, InKill, localVars, stopVars
<1>14. ASSUME WrapperStep PROVE KillGoesOn(Wrapper)
  BY <1>14
     DEF WrapperStep, WrapUpSeen, WrapUpClaim, WrapUpLost, WrapUpRefused,
         Drop, ExitTyped, Settle, Settled, SettleUnreadable, Goto, Return,
         KillGoesOn, InKill, localVars, stopVars
<1>15. CASE UNCHANGED vars
  BY <1>1, <1>15 DEF vars, stopVars, localVars
<1> QED
  BY <1>2, <1>3, <1>4, <1>5, <1>6, <1>8, <1>9, <1>10, <1>11, <1>12, <1>13,
     <1>14, <1>15 DEF Next

-----------------------------------------------------------------------------
(* What a Kill holds and what the table holds are not typed at once.       *)

\* A marker that reads as typed after the step did before it.
NoNewTyping ==
  \A m \in Markers : IsTyping(m)' /\ ~withdrawn'[m] =>
    IsTyping(m) /\ ~withdrawn[m]

LEMMA HeldStep ==
  TypeOK /\ OwnerInv /\ OneKill /\ HeldAlone /\ [Next]_vars => HeldAlone'
<1> SUFFICES ASSUME TypeOK, OwnerInv, OneKill, HeldAlone, [Next]_vars
             PROVE  HeldAlone'
  OBVIOUS
<1> USE Processes, MarkersAssumption DEF TypeOK
<1>1. ASSUME table' \in {table, NoMarker}, held' \in {held, NoMarker},
             NoNewTyping
      PROVE  HeldAlone'
  <2>1. CASE held' = NoMarker
    BY <1>1, <2>1 DEF HeldAlone
  <2>2. CASE held' = held /\ held # NoMarker
    BY <1>1, <2>2 DEF HeldAlone, NoNewTyping
  <2> QED
    BY <1>1, <2>1, <2>2
<1>2. ASSUME UNCHANGED <<phase, watch, typing, withdrawn>> PROVE NoNewTyping
  BY <1>2 DEF NoNewTyping, IsTyping
<1>3. CASE AgentExits \/ PaneCloses
  BY <1>1, <1>2, <1>3 DEF AgentExits, PaneCloses, otherMarkerVars
<1>4. CASE \E t \in Threads : \/ \E r \in Routes : Request(t, r)
                              \/ RequestRestart(t) \/ Start(t)
  BY <1>1, <1>2, <1>4
     DEF Request, RequestRestart, Start, Reconciled, stopVars, markerVars
<1>5. ASSUME NEW m \in Markers, m = table, SendToExit(m), UNCHANGED <<table, held>>
      PROVE  HeldAlone'
  <2>1. m # held
    BY <1>5 DEF HeldAlone
  <2>2. CASE held # NoMarker
    <3>1. IsTyping(held)' /\ ~withdrawn'[held] => IsTyping(held) /\ ~withdrawn[held]
      BY <1>5, <2>1, <2>2 DEF SendToExit, IsTyping
    <3> QED
      BY <1>5, <2>2, <3>1 DEF HeldAlone
  <2>3. CASE held = NoMarker
    BY <1>5, <2>3 DEF HeldAlone
  <2> QED
    BY <2>2, <2>3
<1>6. ASSUME NEW t \in Threads, ClaimExitNow(t) PROVE HeldAlone'
  BY <1>5, <1>6 DEF ClaimExitNow
<1>7. CASE WrapUpClaim
  <2>1. mk[Wrapper] = table /\ table \in Markers
    BY <1>7 DEF WrapUpClaim, OwnerInv, CapturedIsWatched
  <2> QED
    BY <1>5, <1>7, <2>1 DEF WrapUpClaim
<1>8. ASSUME NEW t \in Threads, ClaimAfresh(t) PROVE HeldAlone'
  <2>1. Fresh \in Markers /\ Fresh # held
    BY <1>8, FreshIsUnreferenced DEF ClaimAfresh, Unreferenced
  <2>2. table' = Fresh /\ UNCHANGED held
    BY <1>8 DEF ClaimAfresh
  <2>3. CASE held # NoMarker
    <3>1. ~(~withdrawn[held] /\ IsTyping(held))
      BY <1>8, <2>3 DEF ClaimAfresh, TypingHere
    <3>2. /\ phase'[held] = phase[held] /\ watch'[held] = watch[held]
          /\ typing'[held] = typing[held] /\ withdrawn'[held] = withdrawn[held]
      BY <1>8, <2>1, <2>3 DEF ClaimAfresh
    <3> QED
      BY <2>1, <2>2, <3>1, <3>2 DEF HeldAlone, IsTyping
  <2>4. CASE held = NoMarker
    BY <2>1, <2>2, <2>4 DEF HeldAlone
  <2> QED
    BY <2>3, <2>4
<1>9. ASSUME NEW p \in Procs, PromptTyped(p) \/ SetWatch(p) \/ ExitTyped(p)
      PROVE  HeldAlone'
  <2>1. mk[p] \in Markers /\ UNCHANGED <<table, held>>
    BY <1>9 DEF PromptTyped, SetWatch, ExitTyped, OwnerInv, OwnedAsClaimed,
                Owns
  <2>2. PromptTyped(p) => UNCHANGED typing
    BY DEF PromptTyped, OwnerInv, OwnedAsClaimed
  <2>3. NoNewTyping
    BY <1>9, <2>1, <2>2
       DEF PromptTyped, SetWatch, ExitTyped, NoNewTyping, IsTyping
  <2> QED
    BY <1>1, <2>1, <2>3
<1>10. ASSUME NEW m \in Markers, Drop(m), UNCHANGED held PROVE HeldAlone'
  BY <1>1, <1>10 DEF Drop, NoNewTyping, IsTyping
<1>11. CASE WrapUpRefused
  BY <1>10, <1>11 DEF WrapUpRefused, OwnerInv, OwnedAsClaimed, Owns
<1>12. ASSUME NEW t \in Threads, TypingRefused(t) PROVE HeldAlone'
  <2>1. mk[t] \in Markers /\ UNCHANGED held
    BY <1>12 DEF TypingRefused, OwnerInv, OwnedAsClaimed, Owns
  <2>2. CASE resume[t]
    <3>1. /\ phase' = [phase EXCEPT ![mk[t]] = "closing"]
          /\ typing' = [typing EXCEPT ![mk[t]] = FALSE]
          /\ watch' = [watch EXCEPT ![mk[t]] = TRUE]
          /\ UNCHANGED <<withdrawn, table>>
      BY <1>12, <2>2 DEF TypingRefused, GiveBack
    <3>2. NoNewTyping
      BY <2>1, <3>1 DEF NoNewTyping, IsTyping
    <3> QED
      BY <1>1, <2>1, <3>1, <3>2
  <2>3. CASE ~resume[t]
    BY <1>10, <1>12, <2>1, <2>3 DEF TypingRefused, GiveBack
  <2> QED
    BY <2>2, <2>3
<1>13. ASSUME NEW t \in Threads, Take(t) PROVE HeldAlone'
  <2>1. table = NoMarker => held = NoMarker
    BY <1>13 DEF Take, OneKill, InKill
  <2> QED
    BY <1>13, <2>1 DEF Take, HeldAlone, markerVars
<1>14. ASSUME NEW t \in Threads, ReleaseFailed(t) PROVE HeldAlone'
  <2>1. mk[t] \in Markers \cup {NoMarker}
    BY DEF LocalTypeOK
  <2>2. held = NoMarker \/ held = mk[t]
    BY <1>14 DEF ReleaseFailed, OneKill, InKill
  <2>3. held' = NoMarker
    BY <1>14, <2>2 DEF ReleaseFailed, Released
  <2> QED
    BY <2>3 DEF HeldAlone
<1>15. ASSUME NEW t \in Threads, ThreadStep(t), ~ClaimExitNow(t),
              ~ClaimAfresh(t), ~PromptTyped(t), ~SetWatch(t), ~ExitTyped(t),
              ~TypingRefused(t), ~Take(t), ~ReleaseFailed(t)
       PROVE  /\ table' \in {table, NoMarker} /\ held' \in {held, NoMarker}
              /\ UNCHANGED <<phase, watch, typing, withdrawn>>
  BY <1>15
     DEF ThreadStep, Look, Derive, ClaimNothing, Settle, Settled,
         SettleUnreadable, Mark, KillSession, Release, Released, Wipe,
         SignalDetached, Reconciled, stopVars, markerVars, otherMarkerVars
<1>16. ASSUME TickerStep
       PROVE  /\ table' \in {table, NoMarker} /\ held' \in {held, NoMarker}
              /\ UNCHANGED <<phase, watch, typing, withdrawn>>
  BY <1>16
     DEF TickerStep, TickPasses, TickLook, TickDerive, Consume, RestartStarts,
         ExpireStop, ExpireNothing, ExpiredEndsAnyway, ExpiredReports,
         Reconciled, stopVars, markerVars
<1>17. ASSUME WrapperStep, ~WrapUpClaim, ~WrapUpRefused, ~ExitTyped(Wrapper)
       PROVE  /\ table' \in {table, NoMarker} /\ held' \in {held, NoMarker}
              /\ UNCHANGED <<phase, watch, typing, withdrawn>>
  BY <1>17
     DEF WrapperStep, WrapUpSeen, WrapUpLost, Settle, Settled,
         SettleUnreadable, Reconciled, stopVars, markerVars
<1>18. CASE UNCHANGED vars
  BY <1>1, <1>2, <1>18 DEF vars, stopVars, markerVars
<1> QED
  BY <1>1, <1>2, <1>3, <1>4, <1>6, <1>7, <1>8, <1>9, <1>11, <1>12, <1>13,
     <1>14, <1>15, <1>16, <1>17, <1>18 DEF Next

-----------------------------------------------------------------------------
(* An agent's typist stays where a claim looks for it.                     *)

InPlace(p) == mk[p] = table \/ (mk[p] = held /\ ~withdrawn[held])

AimedTypist(p) == p \in Typists /\ aimed[mk[p]]

\* Whoever types, types what reads as being typed.
LEMMA TypistTypes ==
  ASSUME TypeOK, OwnerInv, NEW p \in Typists
  PROVE  /\ p \in Procs /\ mk[p] \in Markers /\ Owns(p)
         /\ IsTyping(mk[p]) /\ ~withdrawn[mk[p]]
         /\ phase[mk[p]] = "exiting" => typing[mk[p]]
BY DEF Typists, OwnerInv, OwnedAsClaimed, Owns, IsTyping

\* Where nothing is typing here, no agent has a typist.
LEMMA NoTypistHere ==
  ASSUME TypeOK, OwnerInv, TypistInPlace, ~TypingHere, NEW p \in Procs
  PROVE  ~AimedTypist(p)
<1> SUFFICES ASSUME AimedTypist(p) PROVE FALSE
  OBVIOUS
<1>1. mk[p] \in Markers /\ IsTyping(mk[p])
  BY TypistTypes DEF AimedTypist
<1> QED
  BY <1>1, MarkersAssumption DEF TypistInPlace, AimedTypist, TypingHere

\* The step is q's, which does not type after it, and it aims nothing.
Elsewhere(q) ==
  /\ pc'[q] \notin {"prompt", "exit"}
  /\ \A r \in Procs \ {q} : pc'[r] = pc[r] /\ mk'[r] = mk[r]
  /\ \A m \in Markers : aimed'[m] => aimed[m]

LEMMA InPlaceStep ==
  /\ Orderly /\ TypeOK /\ TypeOK' /\ OwnerInv /\ OwnerInv' /\ OrderInv
  /\ [Next]_vars
  => TypistInPlace'
<1> SUFFICES ASSUME Orderly, TypeOK, TypeOK', OwnerInv, OwnerInv', OrderInv,
                    [Next]_vars, NEW p \in Procs, AimedTypist(p)'
             PROVE  InPlace(p)'
  BY DEF TypistInPlace, AimedTypist, InPlace, Typists
<1> USE Processes, MarkersAssumption
<1>1. pc'[p] \in {"prompt", "exit"} /\ mk'[p] \in Markers /\ aimed'[mk'[p]]
  BY DEF AimedTypist, Typists, OwnerInv, OwnedAsClaimed, Owns
<1>2. AimedTypist(p) => InPlace(p) /\ session /\ agent
  <2>1. AimedTypist(p) => mk[p] \in Markers
    BY DEF AimedTypist, Typists, OwnerInv, OwnedAsClaimed, Owns
  <2> QED
    BY <2>1 DEF AimedTypist, InPlace, OrderInv, TypistInPlace, AimedIsAlive
<1>3. ASSUME UNCHANGED <<pc, mk>>, \A m \in Markers : aimed'[m] => aimed[m]
      PROVE  AimedTypist(p) /\ mk'[p] = mk[p]
  BY <1>1, <1>3 DEF AimedTypist, Typists
<1>4. ASSUME NEW q \in Procs, Elsewhere(q)
      PROVE  AimedTypist(p) /\ mk'[p] = mk[p] /\ p # q
  BY <1>1, <1>4 DEF AimedTypist, Typists, Elsewhere
<1>5. ASSUME AimedTypist(p), mk'[p] = mk[p],
             table' = table \/ ~agent, UNCHANGED <<held, withdrawn>>
      PROVE  InPlace(p)'
  BY <1>2, <1>5 DEF InPlace
<1>6. CASE AgentExits \/ PaneCloses
  BY <1>1, <1>6 DEF AgentExits, PaneCloses, AgentLost
<1>7. ASSUME NEW t \in Threads, NEW r \in Routes, Request(t, r)
      PROVE  InPlace(p)'
  <2>1. Elsewhere(t) /\ UNCHANGED <<table, held, withdrawn>>
    BY <1>7 DEF Request, Goto, Elsewhere, stopVars, markerVars, TypeOK,
                LocalTypeOK
  <2> QED
    BY <1>4, <1>5, <2>1
<1>8. ASSUME NEW t \in Threads, RequestRestart(t) PROVE InPlace(p)'
  <2>1. Elsewhere(t) /\ UNCHANGED <<table, held, withdrawn>>
    BY <1>8 DEF RequestRestart, Goto, Elsewhere, stopVars, markerVars,
                TypeOK, LocalTypeOK
  <2> QED
    BY <1>4, <1>5, <2>1
<1>9. ASSUME NEW t \in Threads, Start(t) PROVE InPlace(p)'
  <2>1. ~agent /\ UNCHANGED <<pc, mk, aimed>>
    BY <1>9 DEF Start, Startable, Row, markerVars
  <2> QED
    BY <1>2, <1>3, <2>1
<1>10. ASSUME NEW t \in Threads, ClaimExitNow(t) PROVE InPlace(p)'
  <2>1. p # t => AimedTypist(p)
    BY <1>1, <1>10
       DEF ClaimExitNow, Goto, SendToExit, AimedTypist, Typists, TypeOK,
           LocalTypeOK
  <2>2. p = t
    BY <1>10, <2>1, NoTypistHere DEF ClaimExitNow, OrderInv
  <2> QED
    BY <1>10, <2>2 DEF ClaimExitNow, InPlace, TypeOK, LocalTypeOK
<1>11. ASSUME NEW t \in Threads, ClaimAfresh(t) PROVE InPlace(p)'
  <2>1. Fresh \in Markers /\ \A q \in Procs : mk[q] # Fresh
    BY <1>11, FreshIsUnreferenced DEF ClaimAfresh, Unreferenced
  <2>2. p # t => AimedTypist(p)
    BY <1>1, <1>11, <2>1
       DEF ClaimAfresh, Goto, AimedTypist, Typists, TypeOK, LocalTypeOK
  <2>3. p = t
    BY <1>11, <2>2, NoTypistHere DEF ClaimAfresh, OrderInv
  <2> QED
    BY <1>11, <2>3 DEF ClaimAfresh, InPlace, TypeOK, LocalTypeOK
<1>12. ASSUME NEW q \in Procs, PromptTyped(q) \/ SetWatch(q) \/ ExitTyped(q)
       PROVE  InPlace(p)'
  <2>1. Elsewhere(q) /\ UNCHANGED <<table, held, withdrawn>>
    BY <1>12 DEF PromptTyped, SetWatch, ExitTyped, Goto, Elsewhere, localVars,
                 TypeOK, LocalTypeOK
  <2> QED
    BY <1>4, <1>5, <2>1
<1>13. ASSUME NEW q \in Procs, Elsewhere(q), Drop(mk[q]), Owns(q),
              UNCHANGED held
       PROVE  InPlace(p)'
  <2>1. AimedTypist(p) /\ mk'[p] = mk[p] /\ p # q
    BY <1>4, <1>13
  <2>2. mk[p] # mk[q]
    BY <1>13, <2>1 DEF OwnerInv, OneOwner, AimedTypist, Typists, Owns
  <2>3. mk[q] \in Markers
    BY <1>13 DEF OwnerInv, OwnedAsClaimed
  <2>4. mk[p] \in Markers
    BY <1>1, <2>1
  <2> QED
    BY <1>2, <1>13, <2>1, <2>2, <2>3, <2>4 DEF Drop, InPlace, TypeOK
<1>14. ASSUME NEW t \in Threads, TypingRefused(t) PROVE InPlace(p)'
  <2>1. Elsewhere(t) /\ Owns(t) /\ UNCHANGED held
    BY <1>14 DEF TypingRefused, GiveBack, Drop, Return, Elsewhere, Owns, TypeOK,
                 LocalTypeOK
  <2>2. CASE resume[t]
    <3>1. UNCHANGED <<table, withdrawn>>
      BY <1>14, <2>2 DEF TypingRefused, GiveBack
    <3> QED
      BY <1>4, <1>5, <2>1, <3>1
  <2>3. CASE ~resume[t]
    BY <1>13, <1>14, <2>1, <2>3 DEF TypingRefused, GiveBack
  <2> QED
    BY <2>2, <2>3
<1>15. CASE WrapUpRefused
  <2>1. Elsewhere(Wrapper) /\ Owns(Wrapper) /\ UNCHANGED held
    BY <1>15 DEF WrapUpRefused, Drop, Goto, Elsewhere, Owns, localVars, TypeOK,
                 LocalTypeOK
  <2> QED
    BY <1>13, <1>15, <2>1 DEF WrapUpRefused
<1>16. CASE WrapUpClaim
  <2>1. mk' = mk /\ mk[Wrapper] = table /\ UNCHANGED <<table, held, withdrawn>>
    BY <1>16 DEF WrapUpClaim, SendToExit, localVars
  <2>2. p # Wrapper => AimedTypist(p)
    BY <1>1, <1>16, <2>1
       DEF WrapUpClaim, Goto, SendToExit, AimedTypist, Typists, TypeOK,
           LocalTypeOK
  <2> QED
    BY <1>2, <2>1, <2>2 DEF InPlace
<1>17. ASSUME NEW t \in Threads, Take(t) PROVE InPlace(p)'
  <2>1. Elsewhere(t) /\ UNCHANGED withdrawn
    BY <1>17 DEF Take, Goto, Elsewhere, markerVars, TypeOK, LocalTypeOK
  <2>2. AimedTypist(p) /\ mk'[p] = mk[p] /\ mk[p] \in Markers
    BY <1>1, <1>4, <2>1
  <2>3. held = NoMarker
    BY <1>17 DEF Take, OrderInv, OneKill, InKill
  <2>4. mk[p] = table
    BY <1>2, <2>2, <2>3 DEF InPlace
  <2>5. ~withdrawn[mk[p]]
    BY <2>2, TypistTypes DEF AimedTypist
  <2> QED
    BY <1>17, <2>1, <2>2, <2>4, <2>5 DEF Take, InPlace
<1>18. ASSUME NEW t \in Threads, KillSession(t) PROVE InPlace(p)'
  <2>1. PICK done \in BOOLEAN, to \in {"releaseFailed", "releaseOk"} :
          /\ IF done THEN AgentLost ELSE UNCHANGED aimed
          /\ Goto(t, to)
    BY <1>18 DEF KillSession
  <2>2. Elsewhere(t) /\ UNCHANGED <<table, held, withdrawn>>
    BY <1>18, <2>1
       DEF KillSession, AgentLost, Goto, Elsewhere, otherMarkerVars, localVars,
           TypeOK, LocalTypeOK
  <2> QED
    BY <1>4, <1>5, <2>2
<1>19. ASSUME NEW t \in Threads, Release(t) \/ Wipe(t) PROVE InPlace(p)'
  <2>1. Elsewhere(t) /\ ~session
    BY <1>19 DEF Release, Wipe, Goto, Elsewhere, markerVars, localVars, TypeOK,
                 LocalTypeOK, OrderInv, GoneStaysGone
  <2> QED
    BY <1>2, <1>4, <2>1
<1>20. ASSUME NEW t \in Threads, ReleaseFailed(t) PROVE InPlace(p)'
  <2>1. Elsewhere(t) /\ UNCHANGED withdrawn
    BY <1>20 DEF ReleaseFailed, Return, Elsewhere, markerVars, TypeOK,
                 LocalTypeOK
  <2>2. /\ AimedTypist(p) /\ mk'[p] = mk[p] /\ mk[p] \in Markers
        /\ IsTyping(mk[p]) /\ ~withdrawn[mk[p]]
    BY <1>1, <1>4, <2>1, TypistTypes DEF AimedTypist
  <2>3. CASE mk[p] = table
    BY <1>20, <2>2, <2>3 DEF ReleaseFailed, HandedBack, InPlace
  <2>4. CASE mk[p] # table
    <3>1. mk[p] = held /\ held # NoMarker
      BY <1>2, <2>2, <2>4 DEF InPlace
    <3>2. table = NoMarker
      BY <2>2, <3>1 DEF OrderInv, HeldAlone
    <3>3. mk[t] = held
      BY <1>20, <3>1 DEF ReleaseFailed, OrderInv, OneKill, InKill
    <3>4. table' = mk[p]
      BY <1>20, <2>2, <3>1, <3>2, <3>3 DEF ReleaseFailed, HandedBack
    <3> QED
      BY <2>2, <3>4 DEF InPlace
  <2> QED
    BY <2>3, <2>4
<1>21. ASSUME NEW q \in Procs, Elsewhere(q), table' = table \/ ~agent,
              UNCHANGED <<held, withdrawn>>
       PROVE  InPlace(p)'
  BY <1>4, <1>5, <1>21
<1>22. ASSUME NEW t \in Threads, ThreadStep(t),
              ~ClaimExitNow(t), ~ClaimAfresh(t), ~PromptTyped(t), ~SetWatch(t),
              ~ExitTyped(t), ~TypingRefused(t), ~Take(t), ~KillSession(t),
              ~Release(t), ~ReleaseFailed(t), ~Wipe(t)
       PROVE  InPlace(p)'
  <2>1. Elsewhere(t)
    BY <1>22
       DEF ThreadStep, Look, Derive, AfterRow, ClaimNothing, Settle, Settled,
           SettleUnreadable, Mark, SignalDetached, Goto, Return, Elsewhere,
           stopVars, markerVars, localVars, TypeOK, LocalTypeOK
  <2>2. UNCHANGED <<held, withdrawn>> /\ (table' = table \/ ~agent)
    BY <1>22
       DEF ThreadStep, Look, Derive, ClaimNothing, Settle, Settled,
           SettleUnreadable, Mark, SignalDetached, Reconciled, stopVars,
           markerVars, OrderInv, GoneStaysGone
  <2> QED
    BY <1>21, <2>1, <2>2
<1>23. CASE ExpireStop
  <2>1. Elsewhere(Ticker) /\ UNCHANGED <<held, withdrawn>> /\ table' = NoMarker
    BY <1>23 DEF ExpireStop, Goto, Elsewhere, markerVars, TypeOK, LocalTypeOK
  <2>2. /\ AimedTypist(p) /\ mk'[p] = mk[p]
        /\ phase[mk[p]] = "exiting" => typing[mk[p]]
    BY <1>4, <2>1, TypistTypes DEF AimedTypist
  <2>3. mk[p] # table
    BY <1>23, <2>2 DEF ExpireStop, WaitIsOver, Orderly
  <2> QED
    BY <1>2, <2>1, <2>2, <2>3 DEF InPlace
<1>24. ASSUME TickerStep, ~ExpireStop PROVE InPlace(p)'
  <2>1. Elsewhere(Ticker)
    BY <1>24
       DEF TickerStep, TickPasses, TickLook, TickDerive, Consume,
           RestartStarts, ExpireNothing, ExpiredEndsAnyway, ExpiredReports,
           Goto, Elsewhere, stopVars, markerVars, localVars, TypeOK,
           LocalTypeOK
  <2>2. UNCHANGED <<held, withdrawn>> /\ (table' = table \/ ~agent)
    BY <1>24
       DEF TickerStep, TickPasses, TickLook, TickDerive, Consume,
           RestartStarts, ExpireNothing, ExpiredEndsAnyway, ExpiredReports,
           Reconciled, Row, stopVars, markerVars, OrderInv, GoneStaysGone
  <2> QED
    BY <1>21, <2>1, <2>2
<1>25. ASSUME WrapperStep, ~WrapUpClaim, ~WrapUpRefused, ~ExitTyped(Wrapper)
       PROVE  InPlace(p)'
  <2>1. Elsewhere(Wrapper)
    BY <1>25
       DEF WrapperStep, WrapUpSeen, WrapUpLost, Settle, Settled,
           SettleUnreadable, Goto, Return, Elsewhere, stopVars, markerVars,
           localVars, TypeOK, LocalTypeOK
  <2>2. UNCHANGED <<held, withdrawn>> /\ (table' = table \/ ~agent)
    BY <1>25
       DEF WrapperStep, WrapUpSeen, WrapUpLost, Settle, Settled,
           SettleUnreadable, Reconciled, stopVars, markerVars, OrderInv,
           GoneStaysGone
  <2> QED
    BY <1>21, <2>1, <2>2
<1>26. CASE UNCHANGED vars
  BY <1>3, <1>5, <1>26 DEF vars, stopVars, markerVars, localVars
<1> QED
  BY <1>6, <1>7, <1>8, <1>9, <1>10, <1>11, <1>12, <1>14, <1>15, <1>16, <1>17,
     <1>18, <1>19, <1>20, <1>22, <1>23, <1>24, <1>25, <1>26 DEF Next

-----------------------------------------------------------------------------
LEMMA InitOrder == Init => OrderInv
<1> SUFFICES ASSUME Init PROVE OrderInv
  OBVIOUS
<1>1. TypistInPlace /\ AimedIsAlive /\ GoneStaysGone
  BY Processes, ProcsAssumption
     DEF Init, TypistInPlace, Typists, AimedIsAlive, GoneStaysGone
<1>2. OneKill /\ HeldAlone
  BY Processes, ProcsAssumption DEF Init, OneKill, HeldAlone, InKill
<1> QED
  BY <1>1, <1>2 DEF OrderInv

\* Where waits outlast typing, Kills do not overlap and starts do not
\* overtake looks, no two threads type into one agent's pane.
THEOREM OneTypist == Orderly => (Spec => []OneTypistPerAgent)
<1> SUFFICES ASSUME Orderly PROVE Spec => []OneTypistPerAgent
  OBVIOUS
<1>1. TypeOK /\ TypeOK' /\ OwnerInv /\ OwnerInv' /\ OrderInv /\ [Next]_vars
        => OrderInv'
  BY InPlaceStep, AliveStep, GoneStep, KillStep, HeldStep DEF OrderInv
<1>2. TypeOK /\ OwnerInv /\ OrderInv => OneTypistPerAgent
  <2> SUFFICES ASSUME TypeOK, OwnerInv, OrderInv, NEW p \in Typists,
                      NEW q \in Typists, p # q, aimed[mk[p]], aimed[mk[q]]
               PROVE  FALSE
    BY DEF OneTypistPerAgent
  <2>1. mk[p] # mk[q]
    BY TypistTypes DEF OwnerInv, OneOwner
  <2>2. InPlace(p) /\ InPlace(q)
    BY DEF OrderInv, TypistInPlace, InPlace
  <2>3. /\ mk[p] \in Markers /\ IsTyping(mk[p])
        /\ mk[q] \in Markers /\ IsTyping(mk[q])
    BY TypistTypes
  <2> QED
    BY <2>1, <2>2, <2>3, MarkersAssumption DEF InPlace, OrderInv, HeldAlone
<1> QED
  BY <1>1, <1>2, InitOrder, TypeCorrect, OwnerCorrect, PTL DEF Spec
=============================================================================
