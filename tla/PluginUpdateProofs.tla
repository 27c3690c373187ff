------------------------- MODULE PluginUpdateProofs -------------------------
(***************************************************************************)
(* What PluginUpdate promises for any number of requests, runs, children   *)
(* and listings: a run that is going has exactly one thread that will end  *)
(* it, one that is done accounts for its listing, the teardown signals     *)
(* nobody else's process and leaves no child behind, and the record others *)
(* watch is kept as RunRecord says.                                        *)
(*                                                                         *)
(* One invariant carries them.  That there is one owner is what lets a     *)
(* thread speak for the record (HeardInv, RowsInv), for the latch and its  *)
(* child (LatchInv, AliveInv), and what makes a Begins of RunRecord a      *)
(* Begins; the numbers of the records still to be published (HoldsInv)     *)
(* tell them apart.                                                        *)
(***************************************************************************)
EXTENDS PluginUpdate, FiniteSetTheorems, TLAPS

USE PluginAssumption

OwnerInv ==
  /\ \A t \in Owners : state = "running"
  /\ \A t, u \in Owners : t = u
  /\ state = "running" => \E t \in Threads : t \in Owners

HeardInv ==
  /\ \A p \in Posters : at[p] \in {"announces", "spawns"} => outcomes = <<>>
  /\ \A r \in Runners : at[r] = "free" => did[r] = <<>>
  /\ \A r \in Runners : at[r] \notin {"free", "closes"} => Len(did[r]) = Len(outcomes)

HoldsInv ==
  /\ \A t \in Threads : at[t] \in Publishing => holds[t].seq <= seq
  /\ \A t, u \in Threads :
       /\ at[t] \in Publishing /\ at[u] \in Publishing
       /\ holds[t].seq = holds[u].seq
       => t = u

LatchInv ==
  /\ closed => recorded = NoPid
  /\ \A r \in Runners :
       at[r] \in {"shows", "waits"} =>
         child[r] \in Pids /\ group[child[r]] \in {"alive", "exited", "killed"}
  /\ recorded # NoPid =>
       /\ group[recorded] # "stranger"
       /\ \E r \in Runners : at[r] \in {"waits", "clears"} /\ child[r] = recorded

KillInv ==
  /\ taken # NoPid => group[taken] # "stranger"
  /\ ~struck

IInv == TypeOK /\ OwnerInv /\ HeardInv /\ HoldsInv

-----------------------------------------------------------------------------
(* Types.                                                                  *)

LEMMA NextCallTypes ==
  ASSUME TypeOK, NEW r \in Runners, NEW what \in Calls, NextCall(r, what),
         did' \in [Runners -> Seq(Results)]
  PROVE  TypeOK'
  BY DEF NextCall, Goto, recordVars, latchVars, callVars, listVars, machineVars, bounds, TypeOK, Threads, PosterSteps, RunnerSteps, TheRecord!Record, TheRecord!States, Results, Calls, Gots

LEMMA RunFailsTypes ==
  ASSUME TypeOK, NEW r \in Runners, RunFails(r)
  PROVE  TypeOK'
  BY DEF RunFails, Goto, recordVars, latchVars, callVars, listVars, machineVars, bounds, TypeOK, Threads, PosterSteps, RunnerSteps, TheRecord!Record, TheRecord!States, Results, Calls, Gots

LEMMA ReportsTypes ==
  ASSUME TypeOK, NEW r \in Runners, NEW result \in Results, Reports(r, result)
  PROVE  TypeOK'
  BY DEF Reports, Changed, Goto, recordVars, latchVars, callVars, listVars, machineVars, bounds, TypeOK, Threads, PosterSteps, RunnerSteps, TheRecord!Record, TheRecord!States, Results, Calls, Gots

LEMMA FinalIsAsLong ==
  ASSUME TypeOK, NEW r \in Runners, NEW final \in Classifications(r)
  PROVE  final \in Seq(Results) /\ Len(final) = Len(did[r])
<1>1. did[r] \in Seq(Results)
  BY DEF TypeOK
<1>2. PICK still \in SUBSET (1..Len(did[r])) :
        final = [k \in 1..Len(did[r]) |-> IF k \in still THEN "current" ELSE did[r][k]]
  BY DEF Classifications
<1>3. final \in [1..Len(did[r]) -> Results]
  BY <1>1, <1>2 DEF Results
<1> QED
  BY <1>1, <1>3

LEMMA TypeStep ==
  ASSUME TypeOK, [Next]_vars
  PROVE  TypeOK'
<1> USE DEF recordVars, latchVars, callVars, listVars, machineVars, bounds
<1>1. ASSUME NEW p \in Posters, Post(p) PROVE TypeOK'
  BY <1>1 DEF Post, Changed, Goto, InFlight, TypeOK, Threads, PosterSteps, RunnerSteps, TheRecord!Record, TheRecord!States, Results, Calls, Gots
<1>2. ASSUME NEW p \in Posters, ThreadStarts(p) PROVE TypeOK'
  <2>1. PICK r \in Runners :
          /\ at' = [at EXCEPT ![p] = "idle", ![r] = "asks"]
          /\ call' = [call EXCEPT ![r] = "refresh"]
    BY <1>2 DEF ThreadStarts
  <2>2. UNCHANGED <<recordVars, latchVars, holds, child, got, listVars, machineVars>>
    BY <1>2 DEF ThreadStarts
  <2>3. /\ at' \in [Threads -> PosterSteps \cup RunnerSteps]
        /\ \A q \in Posters : at'[q] \in PosterSteps
        /\ \A q \in Runners : at'[q] \in RunnerSteps
    BY <2>1 DEF TypeOK, Threads, PosterSteps, RunnerSteps
  <2>4. call' \in [Runners -> Calls]
    BY <2>1 DEF TypeOK, Calls
  <2> QED
    BY <2>2, <2>3, <2>4 DEF TypeOK
<1>3. ASSUME NEW p \in Posters, ThreadCannotStart(p) PROVE TypeOK'
  BY <1>3 DEF ThreadCannotStart, Goto, TypeOK, Threads, PosterSteps, RunnerSteps, TheRecord!Record, TheRecord!States, Results, Calls, Gots
<1>4. ASSUME NEW p \in Posters, StartFails(p) PROVE TypeOK'
  BY <1>4 DEF StartFails, Changed, Goto, TypeOK, Threads, PosterSteps, RunnerSteps, TheRecord!Record, TheRecord!States, Results, Calls, Gots
<1>5. ASSUME NEW r \in Runners, Asks(r) PROVE TypeOK'
  BY <1>5 DEF Asks, Goto, Refused, TypeOK, Threads, PosterSteps, RunnerSteps, TheRecord!Record, TheRecord!States, Results, Calls, Gots
<1>6. ASSUME NEW r \in Runners, Spawns(r) PROVE TypeOK'
  <2>1. UNCHANGED <<recordVars, latchVars, holds, call, taken, up, struck>> /\ UNCHANGED did
    BY <1>6 DEF Spawns
  <2>2. CASE UNCHANGED <<child, group>> /\ Goto(r, "judges") /\ got' = [got EXCEPT ![r] = "missing"]
    BY <2>1, <2>2 DEF Goto, TypeOK, Threads, PosterSteps, RunnerSteps, TheRecord!Record, TheRecord!States, Results, Calls, Gots
  <2>3. ASSUME NEW n \in Pids,
               group' = [group EXCEPT ![n] = "alive"],
               child' = [child EXCEPT ![r] = n],
               Goto(r, "shows"), UNCHANGED got
        PROVE  TypeOK'
    BY <2>1, <2>3 DEF Goto, TypeOK, Threads, PosterSteps, RunnerSteps, TheRecord!Record, TheRecord!States, Results, Calls, Gots
  <2> QED
    BY <1>6, <2>2, <2>3 DEF Spawns
<1>7. ASSUME NEW r \in Runners, Shows(r) PROVE TypeOK'
  <2>1. group' \in [Pids -> {"free", "alive", "exited", "killed", "stranger"}]
    BY <1>7 DEF Shows, Killed, TypeOK
  <2>2. recorded' \in Pids \cup {NoPid}
    BY <1>7 DEF Shows, TypeOK
  <2> QED
    BY <1>7, <2>1, <2>2 DEF Shows, Goto, TypeOK, Threads, PosterSteps, RunnerSteps, TheRecord!Record, TheRecord!States, Results, Calls, Gots
<1>8. ASSUME NEW r \in Runners, Waits(r) PROVE TypeOK'
  <2>1. PICK came \in {"ok", "bad", "timeout"} : got' = [got EXCEPT ![r] = came]
    BY <1>8 DEF Waits
  <2>2. group' \in [Pids -> {"free", "alive", "exited", "killed", "stranger"}]
    BY <1>8 DEF Waits, TypeOK
  <2>3. got' \in [Runners -> Gots]
    BY <2>1 DEF TypeOK, Gots
  <2> QED
    BY <1>8, <2>2, <2>3 DEF Waits, Goto, TypeOK, Threads, PosterSteps, RunnerSteps, TheRecord!Record, TheRecord!States, Results, Calls, Gots
<1>9. ASSUME NEW r \in Runners, Clears(r) PROVE TypeOK'
  BY <1>9 DEF Clears, Goto, TypeOK, Threads, PosterSteps, RunnerSteps, TheRecord!Record, TheRecord!States, Results, Calls, Gots
<1>10. ASSUME NEW r \in Runners, Refreshed(r) PROVE TypeOK'
  BY <1>10, NextCallTypes, RunFailsTypes DEF Refreshed, TypeOK, Calls
<1>11. ASSUME NEW r \in Runners, Listed(r) PROVE TypeOK'
  <2>1. CASE RunFails(r)
    BY <2>1, RunFailsTypes
  <2>2. CASE ~ RunFails(r)
    BY <1>11, <2>2 DEF Listed, Goto, TypeOK, Threads, PosterSteps, RunnerSteps, TheRecord!Record, TheRecord!States, Results, Calls, Gots
  <2> QED
    BY <2>1, <2>2
<1>12. ASSUME NEW r \in Runners, RowLeftAlone(r) PROVE TypeOK'
  BY <1>12, ReportsTypes DEF RowLeftAlone, Results
<1>13. ASSUME NEW r \in Runners, RowTaken(r) PROVE TypeOK'
  BY <1>13, NextCallTypes DEF RowTaken, TypeOK, Calls
<1>14. ASSUME NEW r \in Runners, Updated(r) PROVE TypeOK'
  BY <1>14, ReportsTypes, RunFailsTypes DEF Updated, Results
<1>15. ASSUME NEW r \in Runners, RowsDone(r) PROVE TypeOK'
  <2>1. CASE NextCall(r, "relisting")
    BY <1>15, <2>1, NextCallTypes DEF RowsDone, TypeOK, Calls
  <2>2. CASE /\ Goto(r, "succeeds")
             /\ UNCHANGED <<recordVars, latchVars, holds, callVars, listVars, machineVars, bounds>>
    BY <2>2 DEF Goto, TypeOK, Threads, PosterSteps, RunnerSteps, TheRecord!Record, TheRecord!States, Results, Calls, Gots
  <2> QED
    BY <1>15, <2>1, <2>2 DEF RowsDone
<1>16. ASSUME NEW r \in Runners, Classified(r) PROVE TypeOK'
  <2>1. PICK final \in Classifications(r) : did' = [did EXCEPT ![r] = final]
    BY <1>16 DEF Classified
  <2>2. final \in Seq(Results) /\ Len(final) = Len(did[r])
    BY <2>1, FinalIsAsLong
  <2>3. did' \in [Runners -> Seq(Results)]
    BY <2>1, <2>2 DEF TypeOK
  <2> QED
    BY <1>16, <2>3 DEF Classified, Goto, TypeOK, Threads, PosterSteps, RunnerSteps, TheRecord!Record, TheRecord!States, Results, Calls, Gots
<1>17. ASSUME NEW r \in Runners, Breaks(r) PROVE TypeOK'
  BY <1>17, RunFailsTypes DEF Breaks
<1>18. ASSUME NEW r \in Runners, Finishes(r) PROVE TypeOK'
  BY <1>18 DEF Finishes, Changed, Goto, TypeOK, Threads, PosterSteps, RunnerSteps, TheRecord!Record, TheRecord!States, Results, Calls, Gots
<1>19. ASSUME NEW t \in Threads, Publish(t) PROVE TypeOK'
  <2>1. AfterPublish(t) \in {"spawns", "idle", "rows", "free"}
    BY <1>19 DEF Publish, AfterPublish, Publishing
  <2>2. /\ at' \in [Threads -> PosterSteps \cup RunnerSteps]
        /\ \A q \in Posters : at'[q] \in PosterSteps
        /\ \A q \in Runners : at'[q] \in RunnerSteps
    BY <1>19, <2>1 DEF Publish, Goto, AfterPublish, Publishing, TypeOK, Threads, PosterSteps, RunnerSteps
  <2>3. holds' \in [Threads -> TheRecord!Record]
    BY <1>19 DEF Publish, NoRecord, TypeOK, Threads, PosterSteps, RunnerSteps, TheRecord!Record, TheRecord!States, Results, Calls, Gots
  <2>4. did' \in [Runners -> Seq(Results)]
    <3>1. UNCHANGED did \/ did' = [did EXCEPT ![t] = <<>>]
      BY <1>19 DEF Publish
    <3>2. <<>> \in Seq(Results)
      OBVIOUS
    <3> QED
      BY <3>1, <3>2 DEF TypeOK
  <2> QED
    BY <1>19, <2>2, <2>3, <2>4 DEF Publish, TypeOK
<1>20. CASE KillTakes
  BY <1>20 DEF KillTakes, TypeOK, Threads, PosterSteps, RunnerSteps, TheRecord!Record, TheRecord!States, Results, Calls, Gots
<1>21. CASE KillSignals
  BY <1>21 DEF KillSignals, Killed, TypeOK, Threads, PosterSteps, RunnerSteps, TheRecord!Record, TheRecord!States, Results, Calls, Gots
<1>22. CASE Exits
  BY <1>22 DEF Exits, TypeOK, Threads, PosterSteps, RunnerSteps, TheRecord!Record, TheRecord!States, Results, Calls, Gots
<1>23. ASSUME NEW n \in Pids, ChildEnds(n) PROVE TypeOK'
  BY <1>23 DEF ChildEnds, TypeOK, Threads, PosterSteps, RunnerSteps, TheRecord!Record, TheRecord!States, Results, Calls, Gots
<1>24. ASSUME NEW n \in Pids, StrangerTakes(n) PROVE TypeOK'
  BY <1>24 DEF StrangerTakes, TypeOK, Threads, PosterSteps, RunnerSteps, TheRecord!Record, TheRecord!States, Results, Calls, Gots
<1>25. CASE UNCHANGED vars
  BY <1>25 DEF vars, TypeOK, Threads, PosterSteps, RunnerSteps, TheRecord!Record, TheRecord!States, Results, Calls, Gots
<1> QED
  BY <1>1, <1>2, <1>3, <1>4, <1>5, <1>6, <1>7, <1>8, <1>9, <1>10, <1>11, <1>12, <1>13, <1>14, <1>15, <1>16, <1>17, <1>18, <1>19, <1>20, <1>21, <1>22, <1>23, <1>24, <1>25 DEF Next, PosterStep, RunnerStep, Threads

-----------------------------------------------------------------------------
(* One owner.                                                              *)

LEMMA StillOwned ==
  ASSUME OwnerInv, Owners' = Owners, UNCHANGED state
  PROVE  OwnerInv'
  BY DEF OwnerInv

(* A step of the run that keeps it going.                                  *)
LEMMA RunGoesOn ==
  ASSUME TypeOK, OwnerInv, NEW r \in Runners, NEW step \in RunnerSteps \ {"free", "closes"},
         at[r] \notin {"free", "closes"}, Goto(r, step), UNCHANGED state
  PROVE  OwnerInv'
<1>1. Owners' = Owners
  BY DEF Goto, Owners, TypeOK, Threads
<1> QED
  BY <1>1, StillOwned

LEMMA OwnerStep ==
  ASSUME TypeOK, OwnerInv, [Next]_vars
  PROVE  OwnerInv'
<1> USE DEF recordVars, latchVars, callVars, listVars, machineVars, bounds
<1>1. ASSUME NEW p \in Posters, Post(p) PROVE OwnerInv'
  BY <1>1 DEF Post, Changed, Goto, InFlight, OwnerInv, Owners, TypeOK, Threads, PosterSteps, RunnerSteps
<1>2. ASSUME NEW p \in Posters, ThreadStarts(p) PROVE OwnerInv'
  <2>1. PICK r \in Runners : at[r] = "free" /\ at' = [at EXCEPT ![p] = "idle", ![r] = "asks"]
    BY <1>2 DEF ThreadStarts
  <2>2. p \in Owners /\ p # r
    BY <1>2, <2>1 DEF ThreadStarts, Owners, TypeOK, PosterSteps, RunnerSteps
  <2>3. Owners = {p}
    BY <2>2 DEF OwnerInv
  <2>4. \A t \in Threads : at'[t] = IF t = r THEN "asks" ELSE IF t = p THEN "idle" ELSE at[t]
    BY <2>1, <2>2 DEF TypeOK, Threads
  <2>5. Owners' = {r}
    <3>1. \A t \in Posters : at[t] \in {"announces", "spawns", "fails"} => t = p
      BY <2>3 DEF Owners
    <3>2. \A t \in Runners : at[t] \notin {"free", "closes"} => t = p
      BY <2>3 DEF Owners
    <3>3. r \in Runners /\ r \notin Posters /\ p \notin Runners
      BY <1>2, <2>1
    <3> QED
      BY <2>4, <3>1, <3>2, <3>3 DEF Owners, Threads
  <2>6. state = "running" /\ UNCHANGED state
    BY <1>2, <2>2 DEF ThreadStarts, OwnerInv
  <2> QED
    BY <2>5, <2>6 DEF OwnerInv, Threads
<1>3. ASSUME NEW p \in Posters, ThreadCannotStart(p) PROVE OwnerInv'
  BY <1>3 DEF ThreadCannotStart, Goto, OwnerInv, Owners, TypeOK, Threads, PosterSteps, RunnerSteps
<1>4. ASSUME NEW p \in Posters, StartFails(p) PROVE OwnerInv'
  BY <1>4 DEF StartFails, Changed, Goto, OwnerInv, Owners, TypeOK, Threads, PosterSteps, RunnerSteps
<1>5. ASSUME NEW r \in Runners, Asks(r) PROVE OwnerInv'
  BY <1>5, RunGoesOn DEF Asks, RunnerSteps
<1>6. ASSUME NEW r \in Runners, Spawns(r) PROVE OwnerInv'
  BY <1>6, RunGoesOn DEF Spawns, RunnerSteps
<1>7. ASSUME NEW r \in Runners, Shows(r) PROVE OwnerInv'
  BY <1>7, RunGoesOn DEF Shows, RunnerSteps
<1>8. ASSUME NEW r \in Runners, Waits(r) PROVE OwnerInv'
  BY <1>8, RunGoesOn DEF Waits, RunnerSteps
<1>9. ASSUME NEW r \in Runners, Clears(r) PROVE OwnerInv'
  BY <1>9, RunGoesOn DEF Clears, RunnerSteps
<1>10. ASSUME NEW r \in Runners, Refreshed(r) PROVE OwnerInv'
  BY <1>10, RunGoesOn DEF Refreshed, RunnerSteps, NextCall, RunFails
<1>11. ASSUME NEW r \in Runners, Listed(r) PROVE OwnerInv'
  BY <1>11, RunGoesOn DEF Listed, RunnerSteps, RunFails
<1>12. ASSUME NEW r \in Runners, RowLeftAlone(r) PROVE OwnerInv'
  BY <1>12, RunGoesOn DEF RowLeftAlone, RunnerSteps, Reports
<1>13. ASSUME NEW r \in Runners, RowTaken(r) PROVE OwnerInv'
  BY <1>13, RunGoesOn DEF RowTaken, RunnerSteps, NextCall
<1>14. ASSUME NEW r \in Runners, Updated(r) PROVE OwnerInv'
  BY <1>14, RunGoesOn DEF Updated, RunnerSteps, Reports, RunFails
<1>15. ASSUME NEW r \in Runners, RowsDone(r) PROVE OwnerInv'
  BY <1>15, RunGoesOn DEF RowsDone, RunnerSteps, NextCall
<1>16. ASSUME NEW r \in Runners, Classified(r) PROVE OwnerInv'
  BY <1>16, RunGoesOn DEF Classified, RunnerSteps
<1>17. ASSUME NEW r \in Runners, Breaks(r) PROVE OwnerInv'
  BY <1>17, RunGoesOn DEF Breaks, RunnerSteps, RunFails
<1>18. ASSUME NEW r \in Runners, Finishes(r) PROVE OwnerInv'
  BY <1>18 DEF Finishes, Changed, Goto, OwnerInv, Owners, TypeOK, Threads, PosterSteps, RunnerSteps
<1>19. ASSUME NEW t \in Threads, Publish(t) PROVE OwnerInv'
  BY <1>19 DEF Publish, Goto, AfterPublish, Publishing, OwnerInv, Owners, TypeOK, Threads, PosterSteps, RunnerSteps
<1>20. CASE KillTakes
  BY <1>20 DEF KillTakes, OwnerInv, Owners, TypeOK, Threads, PosterSteps, RunnerSteps
<1>21. CASE KillSignals
  BY <1>21 DEF KillSignals, Killed, OwnerInv, Owners, TypeOK, Threads, PosterSteps, RunnerSteps
<1>22. CASE Exits
  BY <1>22 DEF Exits, OwnerInv, Owners, TypeOK, Threads, PosterSteps, RunnerSteps
<1>23. ASSUME NEW n \in Pids, ChildEnds(n) PROVE OwnerInv'
  BY <1>23 DEF ChildEnds, OwnerInv, Owners, TypeOK, Threads, PosterSteps, RunnerSteps
<1>24. ASSUME NEW n \in Pids, StrangerTakes(n) PROVE OwnerInv'
  BY <1>24 DEF StrangerTakes, OwnerInv, Owners, TypeOK, Threads, PosterSteps, RunnerSteps
<1>25. CASE UNCHANGED vars
  BY <1>25 DEF vars, OwnerInv, Owners, TypeOK, Threads, PosterSteps, RunnerSteps
<1> QED
  BY <1>1, <1>2, <1>3, <1>4, <1>5, <1>6, <1>7, <1>8, <1>9, <1>10, <1>11, <1>12, <1>13, <1>14, <1>15, <1>16, <1>17, <1>18, <1>19, <1>20, <1>21, <1>22, <1>23, <1>24, <1>25 DEF Next, PosterStep, RunnerStep, Threads

-----------------------------------------------------------------------------
(* What the owner of a run has heard is what the record holds.             *)

LEMMA OnlyOwner ==
  ASSUME OwnerInv, NEW u \in Owners
  PROVE  /\ state = "running"
         /\ \A p \in Posters : at[p] \in {"announces", "spawns", "fails"} => p = u
         /\ \A r \in Runners : at[r] \notin {"free", "closes"} => r = u
  BY DEF OwnerInv, Owners

(* A step that touches neither the outcomes nor what the runs did.         *)
LEMMA HeardKept ==
  ASSUME HeardInv, UNCHANGED outcomes, UNCHANGED did,
         \A p \in Posters : at'[p] \in {"announces", "spawns"} => at[p] \in {"announces", "spawns"},
         \A r \in Runners : at'[r] = "free" => at[r] = "free",
         \A r \in Runners : at'[r] \notin {"free", "closes"} => at[r] \notin {"free", "closes"}
  PROVE  HeardInv'
  BY DEF HeardInv

LEMMA HeardGoesOn ==
  ASSUME TypeOK, HeardInv, NEW r \in Runners, NEW step \in RunnerSteps \ {"free", "closes"},
         at[r] \notin {"free", "closes"}, Goto(r, step), UNCHANGED outcomes, UNCHANGED did
  PROVE  HeardInv'
<1>1. r \notin Posters
  OBVIOUS
<1>2. \A t \in Threads : at'[t] = IF t = r THEN step ELSE at[t]
  BY DEF Goto, TypeOK
<1> QED
  BY <1>1, <1>2, HeardKept DEF Threads

LEMMA HeardReports ==
  ASSUME TypeOK, OwnerInv, HeardInv, NEW r \in Runners, NEW result \in Results,
         at[r] \notin {"free", "closes"}, Reports(r, result)
  PROVE  HeardInv'
<1>1. r \in Owners /\ r \notin Posters
  BY DEF Owners
<1>2. \A t \in Threads : at'[t] = IF t = r THEN "tells" ELSE at[t]
  BY DEF Reports, Goto, TypeOK
<1>3. did' = [did EXCEPT ![r] = Append(@, result)] /\ outcomes' = Append(outcomes, result)
  BY DEF Reports
<1>4. Len(did'[r]) = Len(outcomes')
  <2>1. did[r] \in Seq(Results) /\ outcomes \in Seq(Results) /\ Len(did[r]) = Len(outcomes)
    BY DEF TypeOK, HeardInv
  <2>2. did'[r] = Append(did[r], result)
    BY <1>3 DEF TypeOK
  <2> QED
    BY <2>1, <2>2, <1>3
<1>5. \A s \in Runners : s # r => did'[s] = did[s]
  BY <1>3 DEF TypeOK
<1> QED
  BY <1>1, <1>2, <1>4, <1>5, OnlyOwner DEF HeardInv, Threads

LEMMA HeardStep ==
  ASSUME TypeOK, OwnerInv, HeardInv, [Next]_vars
  PROVE  HeardInv'
<1> USE DEF recordVars, latchVars, callVars, listVars, machineVars, bounds
<1>1. ASSUME NEW p \in Posters, Post(p) PROVE HeardInv'
  <2>1. Owners = {} /\ p \notin Runners
    BY <1>1 DEF Post, InFlight, OwnerInv
  <2>2. outcomes' = <<>> /\ UNCHANGED did /\ \A t \in Threads : at'[t] = IF t = p THEN "announces" ELSE at[t]
    BY <1>1 DEF Post, Goto, TypeOK, listVars
  <2> QED
    BY <2>1, <2>2 DEF HeardInv, Owners, Threads
<1>2. ASSUME NEW p \in Posters, ThreadStarts(p) PROVE HeardInv'
  <2>1. PICK r \in Runners : at[r] = "free" /\ at' = [at EXCEPT ![p] = "idle", ![r] = "asks"]
    BY <1>2 DEF ThreadStarts
  <2>2. p \in Owners /\ p # r /\ r \notin Posters /\ p \notin Runners
    BY <1>2, <2>1 DEF ThreadStarts, Owners
  <2>3. \A t \in Threads : at'[t] = IF t = r THEN "asks" ELSE IF t = p THEN "idle" ELSE at[t]
    BY <2>1, <2>2 DEF TypeOK, Threads
  <2>4. outcomes = <<>> /\ did[r] = <<>> /\ UNCHANGED <<outcomes, did>>
    BY <1>2, <2>1 DEF ThreadStarts, HeardInv, recordVars, listVars
  <2> QED
    BY <2>2, <2>3, <2>4, OnlyOwner DEF HeardInv, Threads
<1>3. ASSUME NEW p \in Posters, ThreadCannotStart(p) PROVE HeardInv'
  <2>1. \A t \in Threads : at'[t] = IF t = p THEN "fails" ELSE at[t]
    BY <1>3 DEF ThreadCannotStart, Goto, TypeOK
  <2> QED
    BY <1>3, <2>1, HeardKept DEF ThreadCannotStart, Threads, recordVars, listVars
<1>4. ASSUME NEW p \in Posters, StartFails(p) PROVE HeardInv'
  <2>1. \A t \in Threads : at'[t] = IF t = p THEN "apologises" ELSE at[t]
    BY <1>4 DEF StartFails, Goto, TypeOK
  <2> QED
    BY <1>4, <2>1, HeardKept DEF StartFails, Threads, recordVars, listVars
<1>5. ASSUME NEW r \in Runners, Asks(r) PROVE HeardInv'
  BY <1>5, HeardGoesOn DEF Asks, RunnerSteps, recordVars, listVars
<1>6. ASSUME NEW r \in Runners, Spawns(r) PROVE HeardInv'
  BY <1>6, HeardGoesOn DEF Spawns, RunnerSteps, recordVars, listVars
<1>7. ASSUME NEW r \in Runners, Shows(r) PROVE HeardInv'
  BY <1>7, HeardGoesOn DEF Shows, RunnerSteps, recordVars, listVars
<1>8. ASSUME NEW r \in Runners, Waits(r) PROVE HeardInv'
  BY <1>8, HeardGoesOn DEF Waits, RunnerSteps, recordVars, listVars
<1>9. ASSUME NEW r \in Runners, Clears(r) PROVE HeardInv'
  BY <1>9, HeardGoesOn DEF Clears, RunnerSteps, recordVars, listVars
<1>10. ASSUME NEW r \in Runners, Refreshed(r) PROVE HeardInv'
  BY <1>10, HeardGoesOn DEF Refreshed, RunnerSteps, recordVars, listVars, NextCall, RunFails
<1>11. ASSUME NEW r \in Runners, Listed(r) PROVE HeardInv'
  BY <1>11, HeardGoesOn DEF Listed, RunnerSteps, recordVars, listVars, RunFails
<1>12. ASSUME NEW r \in Runners, RowLeftAlone(r) PROVE HeardInv'
  BY <1>12, HeardReports DEF RowLeftAlone, Results
<1>13. ASSUME NEW r \in Runners, RowTaken(r) PROVE HeardInv'
  BY <1>13, HeardGoesOn DEF RowTaken, RunnerSteps, recordVars, listVars, NextCall
<1>14. ASSUME NEW r \in Runners, Updated(r) PROVE HeardInv'
  <2>1. CASE RunFails(r)
    BY <1>14, <2>1, HeardGoesOn DEF Updated, RunFails, RunnerSteps, recordVars, listVars
  <2>2. CASE ~ RunFails(r)
    BY <1>14, <2>2, HeardReports DEF Updated, Results
  <2> QED
    BY <2>1, <2>2
<1>15. ASSUME NEW r \in Runners, RowsDone(r) PROVE HeardInv'
  BY <1>15, HeardGoesOn DEF RowsDone, RunnerSteps, recordVars, listVars, NextCall
<1>16. ASSUME NEW r \in Runners, Classified(r) PROVE HeardInv'
  <2>1. PICK final \in Classifications(r) : did' = [did EXCEPT ![r] = final]
    BY <1>16 DEF Classified
  <2>2. Len(final) = Len(did[r])
    BY <2>1, FinalIsAsLong
  <2>3. \A t \in Threads : at'[t] = IF t = r THEN "succeeds" ELSE at[t]
    BY <1>16 DEF Classified, Goto, TypeOK
  <2>4. r \notin Posters /\ at[r] = "judges" /\ UNCHANGED outcomes
    BY <1>16 DEF Classified, recordVars
  <2>5. \A s \in Runners : did'[s] = IF s = r THEN final ELSE did[s]
    BY <2>1 DEF TypeOK
  <2> QED
    BY <2>2, <2>3, <2>4, <2>5 DEF HeardInv, Threads
<1>17. ASSUME NEW r \in Runners, Breaks(r) PROVE HeardInv'
  BY <1>17, HeardGoesOn DEF Breaks, RunnerSteps, recordVars, listVars, RunFails
<1>18. ASSUME NEW r \in Runners, Finishes(r) PROVE HeardInv'
  <2>1. r \in Owners /\ r \notin Posters
    BY <1>18 DEF Finishes, Owners
  <2>2. \A t \in Threads : at'[t] = IF t = r THEN "closes" ELSE at[t]
    BY <1>18 DEF Finishes, Goto, TypeOK
  <2>3. UNCHANGED did
    BY <1>18 DEF Finishes, listVars
  <2> QED
    BY <2>1, <2>2, <2>3, OnlyOwner DEF HeardInv, Threads
<1>19. ASSUME NEW t \in Threads, Publish(t) PROVE HeardInv'
  <2>1. \A u \in Threads : at'[u] = IF u = t THEN AfterPublish(t) ELSE at[u]
    BY <1>19 DEF Publish, Goto, TypeOK
  <2>2. UNCHANGED outcomes
    BY <1>19 DEF Publish, recordVars
  <2>3. CASE t \in Posters
    <3>1. at[t] \in {"announces", "apologises"} /\ t \notin Runners
      BY <1>19, <2>3 DEF Publish, Publishing, TypeOK, PosterSteps
    <3>2. UNCHANGED did
      BY <1>19, <3>1 DEF Publish, listVars
    <3>3. AfterPublish(t) = IF at[t] = "announces" THEN "spawns" ELSE "idle"
      BY <3>1 DEF AfterPublish
    <3> QED
      BY <2>1, <2>2, <3>1, <3>2, <3>3, HeardKept DEF Threads
  <2>4. CASE t \in Runners /\ at[t] = "tells"
    <3>1. UNCHANGED did
      BY <1>19, <2>4 DEF Publish, listVars
    <3>2. AfterPublish(t) = "rows" /\ t \notin Posters
      BY <2>4 DEF AfterPublish
    <3> QED
      BY <2>1, <2>2, <2>4, <3>1, <3>2, HeardKept DEF Threads
  <2>5. CASE t \in Runners /\ at[t] = "closes"
    <3>1. did' = [did EXCEPT ![t] = <<>>]
      BY <1>19, <2>5 DEF Publish
    <3>2. \A s \in Runners : did'[s] = IF s = t THEN <<>> ELSE did[s]
      BY <3>1 DEF TypeOK
    <3>3. AfterPublish(t) = "free" /\ t \notin Posters
      BY <2>5 DEF AfterPublish
    <3> QED
      BY <2>1, <2>2, <3>2, <3>3 DEF HeardInv, Threads
  <2> QED
    BY <1>19, <2>3, <2>4, <2>5 DEF Publish, Publishing, Threads, TypeOK, RunnerSteps
<1>20. CASE KillTakes
  BY <1>20 DEF KillTakes, HeardInv
<1>21. CASE KillSignals
  BY <1>21 DEF KillSignals, Killed, HeardInv
<1>22. CASE Exits
  BY <1>22 DEF Exits, HeardInv
<1>23. ASSUME NEW n \in Pids, ChildEnds(n) PROVE HeardInv'
  BY <1>23 DEF ChildEnds, HeardInv
<1>24. ASSUME NEW n \in Pids, StrangerTakes(n) PROVE HeardInv'
  BY <1>24 DEF StrangerTakes, HeardInv
<1>25. CASE UNCHANGED vars
  BY <1>25 DEF vars, HeardInv
<1> QED
  BY <1>1, <1>2, <1>3, <1>4, <1>5, <1>6, <1>7, <1>8, <1>9, <1>10, <1>11, <1>12, <1>13, <1>14, <1>15, <1>16, <1>17, <1>18, <1>19, <1>20, <1>21, <1>22, <1>23, <1>24, <1>25 DEF Next, PosterStep, RunnerStep, Threads

-----------------------------------------------------------------------------
(* A step leaves the record and those to be published alone, makes the     *)
(* next record, or publishes one.                                          *)

Quiet ==
  /\ UNCHANGED <<recordVars, holds>>
  /\ \A t \in Threads : at'[t] \in Publishing <=> at[t] \in Publishing

(* The changes RunRecord allows: Begins, Hears, Ends.                      *)
Allowed ==
  \/ state # "running" /\ state' = "running" /\ Len(outcomes') = 0
  \/ state = "running" /\ state' = "running" /\ Len(outcomes') = Len(outcomes) + 1
  \/ state = "running" /\ state' \in {"done", "failed"} /\ Len(outcomes') = Len(outcomes)

Makes(t) ==
  /\ at[t] \notin Publishing
  /\ Changed(t)
  /\ \E step \in Publishing : Goto(t, step)
  /\ Allowed

LEMMA QuietMove ==
  ASSUME TypeOK, NEW t \in Threads, NEW step, step \notin Publishing, at[t] \notin Publishing,
         Goto(t, step), UNCHANGED <<recordVars, holds>>
  PROVE  Quiet
  BY DEF Quiet, Goto, TypeOK

LEMMA Reporting ==
  ASSUME TypeOK, OwnerInv, NEW r \in Runners, NEW result \in Results,
         at[r] \notin Publishing, at[r] # "free", Reports(r, result)
  PROVE  Makes(r)
<1>1. r \in Owners
  BY DEF Owners, Publishing
<1>2. state = "running"
  BY <1>1, OnlyOwner
<1>3. Len(outcomes') = Len(outcomes) + 1 /\ UNCHANGED state
  BY DEF Reports, TypeOK
<1> QED
  BY <1>2, <1>3 DEF Makes, Allowed, Reports, Publishing

LEMMA StepKinds ==
  ASSUME TypeOK, OwnerInv, HeardInv, [Next]_vars
  PROVE  Quiet \/ \E t \in Threads : Makes(t) \/ Publish(t)
<1> USE DEF recordVars, latchVars, callVars, listVars, machineVars, bounds
<1>1. ASSUME NEW p \in Posters, Post(p) 
       PROVE  Quiet \/ \E t \in Threads : Makes(t) \/ Publish(t)
  BY <1>1 DEF Post, Makes, Allowed, InFlight, Publishing, Threads
<1>2. ASSUME NEW p \in Posters, ThreadStarts(p) 
       PROVE  Quiet \/ \E t \in Threads : Makes(t) \/ Publish(t)
  <2>1. PICK r \in Runners : at[r] = "free" /\ at' = [at EXCEPT ![p] = "idle", ![r] = "asks"]
    BY <1>2 DEF ThreadStarts
  <2>2. p # r /\ p \in Threads /\ r \in Threads
    BY <1>2, <2>1 DEF ThreadStarts, Threads
  <2>3. \A t \in Threads : at'[t] = IF t = r THEN "asks" ELSE IF t = p THEN "idle" ELSE at[t]
    BY <2>1, <2>2 DEF TypeOK
  <2>4. at[p] = "spawns" /\ UNCHANGED <<recordVars, holds>>
    BY <1>2 DEF ThreadStarts
  <2>5. \A t \in Threads : at'[t] \in Publishing <=> at[t] \in Publishing
    <3>1. at[r] = "free"
      BY <2>1
    <3> QED
      BY <2>3, <2>4, <3>1 DEF Publishing
  <2> QED
    BY <2>4, <2>5 DEF Quiet
<1>3. ASSUME NEW p \in Posters, ThreadCannotStart(p) 
       PROVE  Quiet \/ \E t \in Threads : Makes(t) \/ Publish(t)
  BY <1>3, QuietMove DEF ThreadCannotStart, Threads, Publishing
<1>4. ASSUME NEW p \in Posters, StartFails(p) 
       PROVE  Quiet \/ \E t \in Threads : Makes(t) \/ Publish(t)
  <2>1. p \in Owners /\ p \in Threads
    BY <1>4 DEF StartFails, Owners, Threads
  <2> QED
    BY <1>4, <2>1, OnlyOwner DEF StartFails, Makes, Allowed, Publishing
<1>5. ASSUME NEW r \in Runners, Asks(r) 
       PROVE  Quiet \/ \E t \in Threads : Makes(t) \/ Publish(t)
  BY <1>5, QuietMove DEF Asks, Threads, Publishing
<1>6. ASSUME NEW r \in Runners, Spawns(r) 
       PROVE  Quiet \/ \E t \in Threads : Makes(t) \/ Publish(t)
  BY <1>6, QuietMove DEF Spawns, Threads, Publishing
<1>7. ASSUME NEW r \in Runners, Shows(r) 
       PROVE  Quiet \/ \E t \in Threads : Makes(t) \/ Publish(t)
  BY <1>7, QuietMove DEF Shows, Threads, Publishing
<1>8. ASSUME NEW r \in Runners, Waits(r) 
       PROVE  Quiet \/ \E t \in Threads : Makes(t) \/ Publish(t)
  BY <1>8, QuietMove DEF Waits, Threads, Publishing
<1>9. ASSUME NEW r \in Runners, Clears(r) 
       PROVE  Quiet \/ \E t \in Threads : Makes(t) \/ Publish(t)
  BY <1>9, QuietMove DEF Clears, Threads, Publishing
<1>10. ASSUME NEW r \in Runners, Refreshed(r) 
       PROVE  Quiet \/ \E t \in Threads : Makes(t) \/ Publish(t)
  BY <1>10, QuietMove DEF Refreshed, Threads, Publishing, NextCall, RunFails
<1>11. ASSUME NEW r \in Runners, Listed(r) 
       PROVE  Quiet \/ \E t \in Threads : Makes(t) \/ Publish(t)
  BY <1>11, QuietMove DEF Listed, Threads, Publishing, RunFails
<1>12. ASSUME NEW r \in Runners, RowLeftAlone(r) 
       PROVE  Quiet \/ \E t \in Threads : Makes(t) \/ Publish(t)
  BY <1>12, Reporting DEF RowLeftAlone, Results, Threads, Publishing
<1>13. ASSUME NEW r \in Runners, RowTaken(r) 
       PROVE  Quiet \/ \E t \in Threads : Makes(t) \/ Publish(t)
  BY <1>13, QuietMove DEF RowTaken, Threads, Publishing, NextCall
<1>14. ASSUME NEW r \in Runners, Updated(r) 
       PROVE  Quiet \/ \E t \in Threads : Makes(t) \/ Publish(t)
  <2>1. CASE RunFails(r)
    BY <1>14, <2>1, QuietMove DEF Updated, RunFails, Threads, Publishing
  <2>2. CASE ~ RunFails(r)
    BY <1>14, <2>2, Reporting DEF Updated, Results, Threads, Publishing
  <2> QED
    BY <2>1, <2>2
<1>15. ASSUME NEW r \in Runners, RowsDone(r) 
       PROVE  Quiet \/ \E t \in Threads : Makes(t) \/ Publish(t)
  BY <1>15, QuietMove DEF RowsDone, Threads, Publishing, NextCall
<1>16. ASSUME NEW r \in Runners, Classified(r) 
       PROVE  Quiet \/ \E t \in Threads : Makes(t) \/ Publish(t)
  BY <1>16, QuietMove DEF Classified, Threads, Publishing
<1>17. ASSUME NEW r \in Runners, Breaks(r) 
       PROVE  Quiet \/ \E t \in Threads : Makes(t) \/ Publish(t)
  BY <1>17, QuietMove DEF Breaks, Threads, Publishing, RunFails
<1>18. ASSUME NEW r \in Runners, Finishes(r) 
       PROVE  Quiet \/ \E t \in Threads : Makes(t) \/ Publish(t)
  <2>1. r \in Owners /\ r \in Threads
    BY <1>18 DEF Finishes, Owners, Threads
  <2>2. Len(did[r]) = Len(outcomes)
    BY <1>18 DEF Finishes, HeardInv
  <2>3. Len(outcomes') = Len(outcomes) /\ state' \in {"done", "failed"}
    BY <1>18, <2>2 DEF Finishes
  <2> QED
    BY <1>18, <2>1, <2>3, OnlyOwner DEF Finishes, Makes, Allowed, Publishing
<1>19. ASSUME NEW u \in Threads, Publish(u)
       PROVE  Quiet \/ \E t \in Threads : Makes(t) \/ Publish(t)
  BY <1>19
<1>20. CASE KillTakes
  BY <1>20 DEF KillTakes, Quiet
<1>21. CASE KillSignals
  BY <1>21 DEF KillSignals, Quiet
<1>22. CASE Exits
  BY <1>22 DEF Exits, Quiet
<1>23. ASSUME NEW n \in Pids, ChildEnds(n) 
       PROVE  Quiet \/ \E t \in Threads : Makes(t) \/ Publish(t)
  BY <1>23 DEF ChildEnds, Quiet
<1>24. ASSUME NEW n \in Pids, StrangerTakes(n) 
       PROVE  Quiet \/ \E t \in Threads : Makes(t) \/ Publish(t)
  BY <1>24 DEF StrangerTakes, Quiet
<1>25. CASE UNCHANGED vars
  BY <1>25 DEF vars, Quiet
<1> QED
  BY <1>1, <1>2, <1>3, <1>4, <1>5, <1>6, <1>7, <1>8, <1>9, <1>10, <1>11, <1>12, <1>13, <1>14, <1>15, <1>16, <1>17, <1>18, <1>19, <1>20, <1>21, <1>22, <1>23, <1>24, <1>25 DEF Next, PosterStep, RunnerStep, Threads

LEMMA NoTwoAlike ==
  ASSUME TypeOK, OwnerInv, HeardInv, HoldsInv, [Next]_vars
  PROVE  HoldsInv'
<1>1. CASE Quiet
  BY <1>1 DEF Quiet, HoldsInv, recordVars
<1>2. ASSUME NEW t \in Threads, Makes(t) PROVE HoldsInv'
  <2>1. seq' = seq + 1 /\ \A u \in Threads : u # t => holds'[u] = holds[u]
    BY <1>2 DEF Makes, Changed, TypeOK
  <2>2. holds'[t].seq = seq + 1
    BY <1>2, <2>1 DEF Makes, Changed, TypeOK
  <2>3. \A u \in Threads : u # t => at'[u] = at[u]
    BY <1>2 DEF Makes, Goto, TypeOK
  <2>4. \A u \in Threads : holds[u].seq \in Nat /\ seq \in Nat
    BY DEF TypeOK, TheRecord!Record
  <2> QED
    BY <2>1, <2>2, <2>3, <2>4 DEF HoldsInv
<1>3. ASSUME NEW t \in Threads, Publish(t) PROVE HoldsInv'
  <2>1. UNCHANGED seq /\ \A u \in Threads : u # t => holds'[u] = holds[u] /\ at'[u] = at[u]
    BY <1>3 DEF Publish, Goto, TypeOK, recordVars
  <2>2. at'[t] \notin Publishing
    BY <1>3 DEF Publish, Goto, AfterPublish, Publishing, TypeOK
  <2> QED
    BY <2>1, <2>2 DEF HoldsInv
<1> QED
  BY <1>1, <1>2, <1>3, StepKinds

LEMMA StepsOfTheRecord ==
  ASSUME TypeOK, OwnerInv, HeardInv, HoldsInv, [Next]_vars
  PROVE  [TheRecord!RecordNext]_(TheRecord!recordVars)
<1> DEFINE Run == [seq |-> seq, state |-> state, heard |-> Len(outcomes)]
           Unsent == {holds[t] : t \in {u \in Threads : at[u] \in Publishing}}
<1>1. CASE Quiet
  BY <1>1 DEF Quiet, recordVars, TheRecord!recordVars
<1>2. ASSUME NEW t \in Threads, Makes(t) PROVE TheRecord!RecordNext
  <2>1. holds' = [holds EXCEPT ![t] = Run'] /\ seq' = seq + 1
    BY <1>2 DEF Makes, Changed
  <2>2. \A u \in Threads : holds'[u] = IF u = t THEN Run' ELSE holds[u]
    <3> HIDE DEF Run
    <3> QED
      BY <2>1 DEF TypeOK
  <2>3. PICK step \in Publishing : \A u \in Threads : at'[u] = IF u = t THEN step ELSE at[u]
    BY <1>2 DEF Makes, Goto, TypeOK
  <2>4. Unsent' = Unsent \cup {Run'}
    <3> HIDE DEF Run
    <3> QED
      BY <1>2, <2>2, <2>3 DEF Makes
  <2>5. Run'.seq = Run.seq + 1 /\ Run' = [seq |-> Run.seq + 1, state |-> state', heard |-> Len(outcomes')]
    BY <2>1
  <2>6. CASE state # "running" /\ state' = "running" /\ Len(outcomes') = 0
    BY <2>4, <2>5, <2>6 DEF TheRecord!RecordNext, TheRecord!Begins, TheRecord!Changes
  <2>7. CASE state = "running" /\ state' = "running" /\ Len(outcomes') = Len(outcomes) + 1
    BY <2>4, <2>5, <2>7 DEF TheRecord!RecordNext, TheRecord!Hears, TheRecord!Changes
  <2>8. CASE state = "running" /\ state' \in {"done", "failed"} /\ Len(outcomes') = Len(outcomes)
    BY <2>4, <2>5, <2>8 DEF TheRecord!RecordNext, TheRecord!Ends, TheRecord!Changes
  <2> QED
    BY <1>2, <2>6, <2>7, <2>8 DEF Makes, Allowed
<1>3. ASSUME NEW t \in Threads, Publish(t) PROVE TheRecord!RecordNext
  <2>1. \A u \in Threads : u # t => holds'[u] = holds[u] /\ at'[u] = at[u]
    BY <1>3 DEF Publish, Goto, TypeOK
  <2>2. at[t] \in Publishing /\ at'[t] \notin Publishing
    BY <1>3 DEF Publish, Goto, AfterPublish, Publishing, TypeOK
  <2>3. holds[t] \in Unsent
    BY <2>2
  <2>4. Unsent' = Unsent \ {holds[t]}
    <3>1. \A u \in Threads : at[u] \in Publishing /\ u # t => holds[u] # holds[t]
      BY <2>2 DEF HoldsInv
    <3> QED
      BY <2>1, <2>2, <3>1
  <2>5. UNCHANGED Run
    BY <1>3 DEF Publish, recordVars
  <2> QED
    BY <2>3, <2>4, <2>5 DEF TheRecord!RecordNext, TheRecord!Publishes
<1> QED
  BY <1>1, <1>2, <1>3, StepKinds

-----------------------------------------------------------------------------
(* The latch.  It holds the number of a child not yet reaped, or one its   *)
(* thread is about to clear; and holds nothing once shut.                  *)

Latched == NumberGoesAtOnce = FALSE

(* A step at which no thread enters or leaves a call.                      *)
LEMMA LatchKept ==
  ASSUME LatchInv, UNCHANGED <<latchVars, child, group>>,
         \A r \in Runners : at'[r] \in {"shows", "waits"} => at[r] \in {"shows", "waits"},
         \A r \in Runners : at[r] \in {"waits", "clears"} => at'[r] \in {"waits", "clears"}
  PROVE  LatchInv'
  BY DEF LatchInv, latchVars

LEMMA LatchMove ==
  ASSUME TypeOK, LatchInv, NEW t \in Threads, NEW step, step \notin {"shows", "waits", "clears"},
         at[t] \notin {"waits", "clears"}, Goto(t, step),
         UNCHANGED <<latchVars, child, group>>
  PROVE  LatchInv'
<1>1. \A u \in Threads : at'[u] = IF u = t THEN step ELSE at[u]
  BY DEF Goto, TypeOK
<1> QED
  BY <1>1, LatchKept DEF Threads

LEMMA LatchStep ==
  ASSUME Latched, TypeOK, OwnerInv, LatchInv, [Next]_vars
  PROVE  LatchInv'
<1>1. ASSUME NEW p \in Posters, Post(p) PROVE LatchInv'
  BY <1>1, LatchMove DEF Post, Threads, latchVars, callVars, machineVars
<1>2. ASSUME NEW p \in Posters, ThreadStarts(p) PROVE LatchInv'
  <2>1. PICK r \in Runners : at[r] = "free" /\ at' = [at EXCEPT ![p] = "idle", ![r] = "asks"]
    BY <1>2 DEF ThreadStarts
  <2>2. at[p] = "spawns" /\ UNCHANGED <<latchVars, child, group>>
    BY <1>2 DEF ThreadStarts, machineVars
  <2>3. \A t \in Threads : at'[t] = IF t = r THEN "asks" ELSE IF t = p THEN "idle" ELSE at[t]
    BY <2>1, <2>2 DEF TypeOK, Threads
  <2>4. at[r] = "free"
    BY <2>1
  <2> QED
    BY <2>2, <2>3, <2>4, LatchKept DEF Threads
<1>3. ASSUME NEW p \in Posters, ThreadCannotStart(p) PROVE LatchInv'
  BY <1>3, LatchMove DEF ThreadCannotStart, Threads, latchVars, callVars, machineVars
<1>4. ASSUME NEW p \in Posters, StartFails(p) PROVE LatchInv'
  BY <1>4, LatchMove DEF StartFails, Threads, latchVars, callVars, machineVars
<1>5. ASSUME NEW r \in Runners, Asks(r) PROVE LatchInv'
  BY <1>5, LatchMove DEF Asks, Threads, latchVars, callVars, machineVars
<1>6. ASSUME NEW r \in Runners, Spawns(r) PROVE LatchInv'
  <2>1. UNCHANGED latchVars /\ at[r] = "spawns"
    BY <1>6 DEF Spawns
  <2>2. CASE UNCHANGED <<child, group>> /\ Goto(r, "judges")
    BY <2>1, <2>2, LatchMove DEF Threads
  <2>3. ASSUME NEW n \in Pids, group[n] = "free",
               group' = [group EXCEPT ![n] = "alive"],
               child' = [child EXCEPT ![r] = n],
               Goto(r, "shows")
        PROVE  LatchInv'
    <3>1. \A s \in Runners : /\ at'[s] = IF s = r THEN "shows" ELSE at[s]
                             /\ child'[s] = IF s = r THEN n ELSE child[s]
      BY <2>3 DEF Goto, TypeOK, Threads
    <3>2. \A m \in Pids : group'[m] = IF m = n THEN "alive" ELSE group[m]
      BY <2>3 DEF TypeOK
    <3>3. \A s \in Runners : at'[s] \in {"shows", "waits"} =>
            child'[s] \in Pids /\ group'[child'[s]] \in {"alive", "exited", "killed"}
      BY <3>1, <3>2 DEF LatchInv
    <3>4. recorded # NoPid => /\ group'[recorded] # "stranger"
                              /\ \E s \in Runners : at'[s] \in {"waits", "clears"} /\ child'[s] = recorded
      <4>1. recorded # NoPid => recorded \in Pids
        BY DEF TypeOK
      <4> QED
        BY <2>1, <3>1, <3>2, <4>1 DEF LatchInv
    <3> QED
      BY <2>1, <3>3, <3>4 DEF LatchInv, latchVars
  <2> QED
    BY <1>6, <2>2, <2>3 DEF Spawns
<1>7. ASSUME NEW r \in Runners, Shows(r) PROVE LatchInv'
  <2>1. /\ at[r] = "shows" /\ UNCHANGED <<closed, child>>
        /\ \A s \in Runners : at'[s] = IF s = r THEN "waits" ELSE at[s]
    BY <1>7 DEF Shows, Goto, TypeOK, Threads, callVars
  <2>2. child[r] \in Pids
    BY <2>1 DEF LatchInv
  <2>3. CASE closed
    <3>1. UNCHANGED recorded /\ recorded = NoPid
      BY <1>7, <2>3 DEF Shows, LatchInv
    <3>2. \A m \in Pids : group'[m] = IF m = child[r] /\ group[m] = "alive" THEN "killed" ELSE group[m]
      BY <1>7, <2>2, <2>3 DEF Shows, Killed, TypeOK
    <3> QED
      BY <2>1, <2>2, <3>1, <3>2 DEF LatchInv
  <2>4. CASE ~ closed
    BY <1>7, <2>1, <2>2, <2>4 DEF Shows, LatchInv
  <2> QED
    BY <2>3, <2>4
<1>8. ASSUME NEW r \in Runners, Waits(r) PROVE LatchInv'
  <2>1. /\ at[r] = "waits" /\ UNCHANGED <<recorded, closed, child>>
        /\ \A s \in Runners : at'[s] = IF s = r THEN "clears" ELSE at[s]
    BY <1>8 DEF Waits, Goto, TypeOK, Threads, latchVars
  <2>2. child[r] \in Pids /\ \A m \in Pids : group'[m] = IF m = child[r] THEN "free" ELSE group[m]
    BY <1>8, <2>1 DEF Waits, LatchInv, TypeOK
  <2>3. \A s \in Runners : at[s] \in {"shows", "waits"} => s = r
    <3>1. r \in Owners
      BY <2>1 DEF Owners
    <3> QED
      BY <3>1, OnlyOwner
  <2>4. recorded # NoPid => recorded \in Pids
    BY DEF TypeOK
  <2> QED
    BY <2>1, <2>2, <2>3, <2>4 DEF LatchInv
<1>9. ASSUME NEW r \in Runners, Clears(r) PROVE LatchInv'
  <2>1. /\ at[r] = "clears" /\ UNCHANGED <<closed, group>> /\ recorded' = NoPid
        /\ \A s \in Runners : at'[s] = IF s = r THEN "judges" ELSE at[s]
        /\ \A s \in Runners : s # r => child'[s] = child[s]
    BY <1>9 DEF Clears, Goto, TypeOK, Threads, LatchInv, machineVars
  <2> QED
    BY <2>1 DEF LatchInv
<1>10. ASSUME NEW r \in Runners, Refreshed(r) PROVE LatchInv'
  BY <1>10, LatchMove DEF Refreshed, Threads, latchVars, callVars, machineVars, NextCall, RunFails
<1>11. ASSUME NEW r \in Runners, Listed(r) PROVE LatchInv'
  BY <1>11, LatchMove DEF Listed, Threads, latchVars, callVars, machineVars, RunFails
<1>12. ASSUME NEW r \in Runners, RowLeftAlone(r) PROVE LatchInv'
  BY <1>12, LatchMove DEF RowLeftAlone, Threads, latchVars, callVars, machineVars, Reports
<1>13. ASSUME NEW r \in Runners, RowTaken(r) PROVE LatchInv'
  BY <1>13, LatchMove DEF RowTaken, Threads, latchVars, callVars, machineVars, NextCall
<1>14. ASSUME NEW r \in Runners, Updated(r) PROVE LatchInv'
  BY <1>14, LatchMove DEF Updated, Threads, latchVars, callVars, machineVars, Reports, RunFails
<1>15. ASSUME NEW r \in Runners, RowsDone(r) PROVE LatchInv'
  BY <1>15, LatchMove DEF RowsDone, Threads, latchVars, callVars, machineVars, NextCall
<1>16. ASSUME NEW r \in Runners, Classified(r) PROVE LatchInv'
  BY <1>16, LatchMove DEF Classified, Threads, latchVars, callVars, machineVars
<1>17. ASSUME NEW r \in Runners, Breaks(r) PROVE LatchInv'
  BY <1>17, LatchMove DEF Breaks, Threads, latchVars, callVars, machineVars, RunFails
<1>18. ASSUME NEW r \in Runners, Finishes(r) PROVE LatchInv'
  BY <1>18, LatchMove DEF Finishes, Threads, latchVars, callVars, machineVars
<1>19. ASSUME NEW t \in Threads, Publish(t) PROVE LatchInv'
  <2>1. AfterPublish(t) \in {"spawns", "idle", "rows", "free"} /\ at[t] \in Publishing
    BY <1>19 DEF Publish, AfterPublish, Publishing
  <2> QED
    BY <1>19, <2>1, LatchMove DEF Publish, Publishing, callVars, machineVars
<1>20. CASE KillTakes
  BY <1>20 DEF KillTakes, LatchInv, callVars
<1>21. CASE KillSignals
  <2>1. taken \in Pids /\ UNCHANGED <<latchVars, at, child>>
    BY <1>21 DEF KillSignals, TypeOK, callVars
  <2>2. \A m \in Pids : group'[m] = IF m = taken /\ group[m] = "alive" THEN "killed" ELSE group[m]
    BY <1>21, <2>1 DEF KillSignals, Killed, TypeOK
  <2>3. recorded # NoPid => recorded \in Pids
    BY DEF TypeOK
  <2> QED
    BY <2>1, <2>2, <2>3 DEF LatchInv, latchVars
<1>22. CASE Exits
  BY <1>22, LatchKept DEF Exits, callVars
<1>23. ASSUME NEW n \in Pids, ChildEnds(n) PROVE LatchInv'
  <2>1. UNCHANGED <<latchVars, at, child>>
    BY <1>23 DEF ChildEnds, callVars
  <2>2. \A m \in Pids : group'[m] = IF m = n THEN "exited" ELSE group[m]
    BY <1>23 DEF ChildEnds, TypeOK
  <2>3. recorded # NoPid => recorded \in Pids
    BY DEF TypeOK
  <2> QED
    BY <2>1, <2>2, <2>3 DEF LatchInv, latchVars
<1>24. ASSUME NEW n \in Pids, StrangerTakes(n) PROVE LatchInv'
  <2>1. UNCHANGED <<latchVars, at, child>> /\ group[n] = "free"
    BY <1>24 DEF StrangerTakes, callVars
  <2>2. \A m \in Pids : group'[m] = IF m = n THEN "stranger" ELSE group[m]
    BY <1>24 DEF StrangerTakes, TypeOK
  <2>3. \A r \in Runners : at[r] = "clears" => child[r] # n
    BY <1>24 DEF StrangerTakes, Latched
  <2>4. recorded # NoPid => recorded \in Pids /\ recorded # n
    BY <2>1, <2>3 DEF LatchInv, TypeOK
  <2> QED
    BY <2>1, <2>2, <2>4 DEF LatchInv, latchVars
<1>25. CASE UNCHANGED vars
  BY <1>25, LatchKept DEF vars, callVars, machineVars
<1> QED
  BY <1>1, <1>2, <1>3, <1>4, <1>5, <1>6, <1>7, <1>8, <1>9, <1>10, <1>11, <1>12, <1>13, <1>14, <1>15, <1>16, <1>17, <1>18, <1>19, <1>20, <1>21, <1>22, <1>23, <1>24, <1>25 DEF Next, PosterStep, RunnerStep, Threads

LEMMA KillStep ==
  ASSUME Latched, TypeOK, LatchInv, KillInv, [Next]_vars
  PROVE  KillInv'
<1>1. taken # NoPid => taken \in Pids
  BY DEF TypeOK
<1>2. CASE KillTakes
  BY <1>2 DEF KillTakes, KillInv, LatchInv
<1>3. CASE KillSignals
  BY <1>3 DEF KillSignals, KillInv
<1>4. ASSUME NEW n \in Pids, StrangerTakes(n) PROVE KillInv'
  <2>1. taken # n /\ UNCHANGED <<taken, struck>>
    BY <1>4 DEF StrangerTakes, Latched
  <2>2. \A m \in Pids : m # n => group'[m] = group[m]
    BY <1>4 DEF StrangerTakes, TypeOK
  <2> QED
    BY <1>1, <2>1, <2>2 DEF KillInv
<1>5. CASE /\ UNCHANGED <<taken, struck>>
           /\ \A m \in Pids : group'[m] = "stranger" => group[m] = "stranger"
  BY <1>1, <1>5 DEF KillInv
<1>6. ASSUME NEW n \in Pids, ChildEnds(n) PROVE KillInv'
  BY <1>5, <1>6 DEF ChildEnds, TypeOK
<1>7. ASSUME NEW r \in Runners, Spawns(r) PROVE KillInv'
  BY <1>5, <1>7 DEF Spawns, TypeOK, machineVars
<1>8. ASSUME NEW r \in Runners, Shows(r) PROVE KillInv'
  BY <1>5, <1>8 DEF Shows, Killed, TypeOK
<1>9. ASSUME NEW r \in Runners, Waits(r) PROVE KillInv'
  BY <1>5, <1>9 DEF Waits, TypeOK
<1>10. CASE UNCHANGED machineVars
  BY <1>10 DEF KillInv, machineVars
<1> USE <1>10
<1>11. CASE Exits
  BY <1>11 DEF Exits, KillInv
<1>12. ASSUME NEW p \in Posters, Post(p) \/ PosterStep(p) PROVE KillInv'
  BY <1>12 DEF Post, PosterStep, ThreadStarts, ThreadCannotStart, StartFails, Publish
<1>13. ASSUME NEW r \in Runners, RunnerStep(r) PROVE KillInv'
  BY <1>7, <1>8, <1>9, <1>13
     DEF RunnerStep, Asks, Clears, Refreshed, Listed, RowLeftAlone, RowTaken, Updated, RowsDone,
         Classified, Breaks, Finishes, Publish, NextCall, RunFails, Reports
<1> QED
  BY <1>2, <1>3, <1>4, <1>6, <1>11, <1>12, <1>13 DEF Next, vars

-----------------------------------------------------------------------------
(* Children.  One that is alive is the child of the thread that is between *)
(* its Popen and its wait; while it is waited for its number is in the     *)
(* latch, or, once that is shut, with the kill that will signal it.        *)

AliveInv ==
  /\ \A r \in Runners : at[r] \in {"shows", "waits"} => child[r] \in Pids
  /\ \A p \in Pids : group[p] = "alive" =>
       \E r \in Runners : at[r] \in {"shows", "waits"} /\ child[r] = p
  /\ \A r \in Runners : at[r] = "waits" /\ ~closed => recorded = child[r]
  /\ \A r \in Runners : at[r] = "waits" /\ closed /\ group[child[r]] = "alive" =>
       taken = child[r]
  /\ kills > 0 => closed
  /\ ~up => \A p \in Pids : group[p] # "alive"

LEMMA AliveKept ==
  ASSUME AliveInv, UNCHANGED <<latchVars, child, group, taken, up, kills>>,
         \A r \in Runners : /\ at'[r] = "shows" <=> at[r] = "shows"
                            /\ at'[r] = "waits" <=> at[r] = "waits"
  PROVE  AliveInv'
<1> USE DEF latchVars
<1>1. \A r \in Runners : at'[r] \in {"shows", "waits"} <=> at[r] \in {"shows", "waits"}
  OBVIOUS
<1> QED
  BY <1>1 DEF AliveInv

LEMMA AliveMove ==
  ASSUME TypeOK, AliveInv, NEW t \in Threads, NEW step, step \notin {"shows", "waits"},
         at[t] \notin {"shows", "waits"}, Goto(t, step),
         UNCHANGED <<latchVars, child, group, taken, up, kills>>
  PROVE  AliveInv'
<1>1. \A u \in Threads : at'[u] = IF u = t THEN step ELSE at[u]
  BY DEF Goto, TypeOK
<1> QED
  BY <1>1, AliveKept DEF Threads

LEMMA AliveStep ==
  ASSUME ExitsMidSpawn = FALSE, TypeOK, OwnerInv, AliveInv, [Next]_vars
  PROVE  AliveInv'
<1> USE DEF latchVars, callVars, machineVars, bounds
<1>1. ASSUME NEW p \in Posters, Post(p) PROVE AliveInv'
  BY <1>1, AliveMove DEF Post, Threads
<1>2. ASSUME NEW p \in Posters, ThreadStarts(p) PROVE AliveInv'
  <2>1. PICK r \in Runners : at[r] = "free" /\ at' = [at EXCEPT ![p] = "idle", ![r] = "asks"]
    BY <1>2 DEF ThreadStarts
  <2>2. at[p] = "spawns" /\ UNCHANGED <<latchVars, child, group, taken, up, kills>>
    BY <1>2 DEF ThreadStarts
  <2>3. \A t \in Threads : at'[t] = IF t = r THEN "asks" ELSE IF t = p THEN "idle" ELSE at[t]
    BY <2>1, <2>2 DEF TypeOK, Threads
  <2>4. at[r] = "free"
    BY <2>1
  <2> QED
    BY <2>2, <2>3, <2>4, AliveKept DEF Threads
<1>3. ASSUME NEW p \in Posters, ThreadCannotStart(p) PROVE AliveInv'
  BY <1>3, AliveMove DEF ThreadCannotStart, Threads
<1>4. ASSUME NEW p \in Posters, StartFails(p) PROVE AliveInv'
  BY <1>4, AliveMove DEF StartFails, Threads
<1>5. ASSUME NEW r \in Runners, Asks(r) PROVE AliveInv'
  BY <1>5, AliveMove DEF Asks, Threads
<1>6. ASSUME up, NEW r \in Runners, Spawns(r) PROVE AliveInv'
  <2>1. UNCHANGED <<latchVars, taken, up, kills>> /\ at[r] = "spawns"
    BY <1>6 DEF Spawns
  <2>2. CASE UNCHANGED <<child, group>> /\ Goto(r, "judges")
    BY <2>1, <2>2, AliveMove DEF Threads
  <2>3. ASSUME NEW n \in Pids, group[n] = "free",
               group' = [group EXCEPT ![n] = "alive"],
               child' = [child EXCEPT ![r] = n],
               Goto(r, "shows")
        PROVE  AliveInv'
    <3>1. \A s \in Runners : /\ at'[s] = IF s = r THEN "shows" ELSE at[s]
                             /\ child'[s] = IF s = r THEN n ELSE child[s]
      BY <2>3 DEF Goto, TypeOK, Threads
    <3>2. \A m \in Pids : group'[m] = IF m = n THEN "alive" ELSE group[m]
      BY <2>3 DEF TypeOK
    <3>3. \A s \in Runners : at[s] \in {"shows", "waits"} => s = r
      <4>1. r \in Owners
        BY <2>1 DEF Owners
      <4> QED
        BY <4>1, OnlyOwner DEF Owners
    <3>4. \A s \in Runners : at'[s] # "waits"
      BY <3>1, <3>3
    <3>5. \A m \in Pids : group'[m] = "alive" =>
            \E s \in Runners : at'[s] \in {"shows", "waits"} /\ child'[s] = m
      BY <2>1, <3>1, <3>2, <3>3 DEF AliveInv
    <3> QED
      BY <1>6, <2>1, <3>1, <3>3, <3>4, <3>5 DEF AliveInv
  <2> QED
    BY <1>6, <2>2, <2>3 DEF Spawns
<1>7. ASSUME up, NEW r \in Runners, Shows(r) PROVE AliveInv'
  <2>1. /\ at[r] = "shows" /\ UNCHANGED <<closed, child, taken, up, kills>>
        /\ \A s \in Runners : at'[s] = IF s = r THEN "waits" ELSE at[s]
    BY <1>7 DEF Shows, Goto, TypeOK, Threads
  <2>2. child[r] \in Pids
    BY <2>1 DEF AliveInv
  <2>3. \A s \in Runners : at[s] \in {"shows", "waits"} => s = r
    <3>1. r \in Owners
      BY <2>1 DEF Owners
    <3> QED
      BY <3>1, OnlyOwner DEF Owners
  <2>4. \A s \in Runners : at'[s] \in {"shows", "waits"} => s = r
    BY <2>1, <2>3
  <2>5. CASE closed
    <3>1. UNCHANGED recorded
      BY <1>7, <2>5 DEF Shows
    <3>2. \A m \in Pids : group'[m] = IF m = child[r] /\ group[m] = "alive" THEN "killed" ELSE group[m]
      BY <1>7, <2>2, <2>5 DEF Shows, Killed, TypeOK
    <3>3. \A m \in Pids : group'[m] # "alive"
      BY <2>3, <3>2 DEF AliveInv
    <3> QED
      BY <1>7, <2>1, <2>2, <2>4, <2>5, <3>1, <3>3 DEF AliveInv
  <2>6. CASE ~ closed
    <3>1. recorded' = child[r] /\ UNCHANGED group
      BY <1>7, <2>6 DEF Shows
    <3> QED
      BY <1>7, <2>1, <2>2, <2>3, <2>4, <2>6, <3>1 DEF AliveInv
  <2> QED
    BY <2>5, <2>6
<1>8. ASSUME up, NEW r \in Runners, Waits(r) PROVE AliveInv'
  <2>1. /\ at[r] = "waits" /\ UNCHANGED <<recorded, closed, child, taken, up, kills>>
        /\ \A s \in Runners : at'[s] = IF s = r THEN "clears" ELSE at[s]
    BY <1>8 DEF Waits, Goto, TypeOK, Threads
  <2>2. child[r] \in Pids /\ \A m \in Pids : group'[m] = IF m = child[r] THEN "free" ELSE group[m]
    BY <1>8, <2>1 DEF Waits, AliveInv, TypeOK
  <2>3. \A s \in Runners : at[s] \in {"shows", "waits"} => s = r
    <3>1. r \in Owners
      BY <2>1 DEF Owners
    <3> QED
      BY <3>1, OnlyOwner DEF Owners
  <2>4. \A s \in Runners : at'[s] \notin {"shows", "waits"}
    BY <2>1, <2>3
  <2>5. \A m \in Pids : group'[m] # "alive"
    BY <2>2, <2>3 DEF AliveInv
  <2> QED
    BY <1>8, <2>1, <2>4, <2>5 DEF AliveInv
<1>9. ASSUME up, NEW r \in Runners, Clears(r) PROVE AliveInv'
  <2>1. /\ at[r] = "clears" /\ UNCHANGED <<closed, group, taken, up, kills>>
        /\ \A s \in Runners : at'[s] = IF s = r THEN "judges" ELSE at[s]
    BY <1>9 DEF Clears, Goto, TypeOK, Threads
  <2>2. \A s \in Runners : at[s] \notin {"shows", "waits"}
    <3>1. r \in Owners
      BY <2>1 DEF Owners
    <3> QED
      BY <2>1, <3>1, OnlyOwner DEF Owners
  <2>3. \A s \in Runners : at'[s] \notin {"shows", "waits"}
    BY <2>1, <2>2
  <2> QED
    BY <1>9, <2>1, <2>2, <2>3 DEF AliveInv
<1>10. ASSUME NEW r \in Runners, Refreshed(r) PROVE AliveInv'
  BY <1>10, AliveMove DEF Refreshed, Threads, NextCall, RunFails
<1>11. ASSUME NEW r \in Runners, Listed(r) PROVE AliveInv'
  BY <1>11, AliveMove DEF Listed, Threads, RunFails
<1>12. ASSUME NEW r \in Runners, RowLeftAlone(r) PROVE AliveInv'
  BY <1>12, AliveMove DEF RowLeftAlone, Threads, Reports
<1>13. ASSUME NEW r \in Runners, RowTaken(r) PROVE AliveInv'
  BY <1>13, AliveMove DEF RowTaken, Threads, NextCall
<1>14. ASSUME NEW r \in Runners, Updated(r) PROVE AliveInv'
  BY <1>14, AliveMove DEF Updated, Threads, Reports, RunFails
<1>15. ASSUME NEW r \in Runners, RowsDone(r) PROVE AliveInv'
  BY <1>15, AliveMove DEF RowsDone, Threads, NextCall
<1>16. ASSUME NEW r \in Runners, Classified(r) PROVE AliveInv'
  BY <1>16, AliveMove DEF Classified, Threads
<1>17. ASSUME NEW r \in Runners, Breaks(r) PROVE AliveInv'
  BY <1>17, AliveMove DEF Breaks, Threads, RunFails
<1>18. ASSUME NEW r \in Runners, Finishes(r) PROVE AliveInv'
  BY <1>18, AliveMove DEF Finishes, Threads
<1>19. ASSUME NEW t \in Threads, Publish(t) PROVE AliveInv'
  <2>1. AfterPublish(t) \in {"spawns", "idle", "rows", "free"} /\ at[t] \in Publishing
    BY <1>19 DEF Publish, AfterPublish, Publishing
  <2> QED
    BY <1>19, <2>1, AliveMove DEF Publish, Publishing
<1>20. CASE up /\ KillTakes
  <2>1. /\ UNCHANGED <<at, child, group, up>> /\ closed' = TRUE
        /\ taken' = recorded /\ taken = NoPid /\ recorded' = NoPid
    BY <1>20 DEF KillTakes
  <2>2. \A r \in Runners : at[r] = "waits" /\ group[child[r]] = "alive" => recorded = child[r]
    BY <2>1 DEF AliveInv
  <2> QED
    BY <1>20, <2>1, <2>2 DEF AliveInv
<1>21. CASE up /\ KillSignals
  <2>1. taken \in Pids /\ UNCHANGED <<latchVars, at, child, up, kills>>
    BY <1>21 DEF KillSignals, TypeOK
  <2>2. \A m \in Pids : group'[m] = IF m = taken /\ group[m] = "alive" THEN "killed" ELSE group[m]
    BY <1>21, <2>1 DEF KillSignals, Killed, TypeOK
  <2>3. \A r \in Runners : at[r] = "waits" /\ closed => group'[child[r]] # "alive"
    BY <2>1, <2>2 DEF AliveInv
  <2> QED
    BY <1>21, <2>1, <2>2, <2>3 DEF AliveInv
<1>22. CASE up /\ Exits
  <2>1. /\ closed /\ taken = NoPid /\ \A r \in Runners : at[r] # "shows"
        /\ UNCHANGED <<latchVars, at, child, group, taken, kills>>
    BY <1>22 DEF Exits, AliveInv
  <2>2. \A m \in Pids : group[m] # "alive"
    BY <2>1 DEF AliveInv
  <2> QED
    BY <2>1, <2>2 DEF AliveInv
<1>23. ASSUME NEW n \in Pids, ChildEnds(n) PROVE AliveInv'
  <2>1. UNCHANGED <<latchVars, at, child, taken, up, kills>>
    BY <1>23 DEF ChildEnds
  <2>2. \A m \in Pids : group'[m] = IF m = n THEN "exited" ELSE group[m]
    BY <1>23 DEF ChildEnds, TypeOK
  <2> QED
    BY <2>1, <2>2 DEF AliveInv
<1>24. ASSUME NEW n \in Pids, StrangerTakes(n) PROVE AliveInv'
  <2>1. UNCHANGED <<latchVars, at, child, taken, up, kills>>
    BY <1>24 DEF StrangerTakes
  <2>2. \A m \in Pids : group'[m] = IF m = n THEN "stranger" ELSE group[m]
    BY <1>24 DEF StrangerTakes, TypeOK
  <2> QED
    BY <2>1, <2>2 DEF AliveInv
<1>25. CASE UNCHANGED vars
  BY <1>25, AliveKept DEF vars
<1> QED
  BY <1>1, <1>2, <1>3, <1>4, <1>5, <1>6, <1>7, <1>8, <1>9, <1>10, <1>11, <1>12, <1>13, <1>14, <1>15, <1>16, <1>17, <1>18, <1>19, <1>20, <1>21, <1>22, <1>23, <1>24, <1>25
     DEF Next, PosterStep, RunnerStep, Threads

-----------------------------------------------------------------------------
(* A listing against the outcomes it came to.                              *)

First(r, k) ==
  /\ rows[r][k].scope = "user"
  /\ \A j \in 1..(k - 1) : rows[r][j].scope = "user" => rows[r][j].plugin # rows[r][k].plugin

(* The outcomes s account for the first Len(s) rows of r's listing.        *)
Covers(r, s) ==
  /\ Len(s) <= Len(rows[r])
  /\ \A k \in 1..Len(s) :
       /\ First(r, k) <=> s[k] # "skipped"
       /\ First(r, k) /\ (\E j \in 1..(k - 1) : s[j] = "abandoned") => s[k] = "abandoned"

Calling == {"asks", "spawns", "shows", "waits", "clears", "judges"}

RowsOf(r) ==
  /\ at[r] \notin {"free", "closes"} => Covers(r, did[r])
  /\ at[r] \in Calling /\ call[r] \in {"refresh", "listing"} => did[r] = <<>>
  /\ at[r] \in Calling /\ call[r] = "update" =>
       RowsLeft(r) /\ First(r, Len(did[r]) + 1) /\ ~Abandoned(r)
  /\ at[r] = "succeeds" \/ (at[r] \in Calling /\ call[r] = "relisting") =>
       Len(did[r]) = Len(rows[r])
  /\ at[r] = "closes" /\ state = "done" /\ holds[r].seq = seq =>
       Covers(r, outcomes) /\ Len(outcomes) = Len(rows[r])

RowsInv ==
  /\ rows \in [Runners -> Listings \cup {<<>>}]
  /\ \A r \in Runners : RowsOf(r)

LEMMA RowsLength ==
  ASSUME RowsInv, NEW r \in Runners
  PROVE  Len(rows[r]) \in Nat
<1>1. CASE rows[r] = <<>>
  BY <1>1
<1> QED
  BY <1>1, ListingsAssumption DEF RowsInv

(* What is said of a runner whose own variables a step leaves alone: the   *)
(* record is as it was, or another has taken its place.                    *)
LEMMA RowsAlone ==
  ASSUME RowsInv, HoldsInv, seq \in Nat, NEW r \in Runners, r \in Threads,
         rows'[r] = rows[r], did'[r] = did[r], call'[r] = call[r], at'[r] = at[r],
         holds'[r] = holds[r],
         UNCHANGED recordVars \/ seq' = seq + 1
  PROVE  RowsOf(r)'
<1>1. RowsOf(r)
  BY DEF RowsInv
<1>2. Covers(r, did[r]) => Covers(r, did[r])'
  BY DEF Covers, First
<1>3. CASE UNCHANGED recordVars
  BY <1>1, <1>3 DEF RowsOf, Covers, First, RowsLeft, Abandoned, recordVars
<1>4. CASE seq' = seq + 1
  <2>1. at[r] = "closes" => holds'[r].seq # seq'
    BY <1>4 DEF HoldsInv, Publishing
  <2> QED
    BY <1>1, <1>2, <2>1 DEF RowsOf, Covers, First, RowsLeft, Abandoned
<1> QED
  BY <1>3, <1>4

(* A thread moves, and neither the record, a listing nor an outcome does.  *)
LEMMA RowsMove ==
  ASSUME TypeOK, HoldsInv, RowsInv, NEW t \in Threads, NEW step,
         Goto(t, step), UNCHANGED <<recordVars, holds, rows, did>>,
         \A r \in Runners : r # t => call'[r] = call[r],
         t \in Runners => RowsOf(t)'
  PROVE  RowsInv'
<1>1. \A u \in Threads : at'[u] = IF u = t THEN step ELSE at[u]
  BY DEF Goto, TypeOK
<1>2. ASSUME NEW r \in Runners PROVE RowsOf(r)'
  BY <1>1, RowsAlone DEF Threads, TypeOK
<1> QED
  BY <1>2 DEF RowsInv

(* A run at its child goes on with it, or gives up.                        *)
LEMMA RowsCall ==
  ASSUME TypeOK, HoldsInv, RowsInv, NEW r \in Runners, at[r] \in Calling,
         NEW step \in Calling \cup {"fails"}, Goto(r, step),
         UNCHANGED <<recordVars, holds, rows, did>>,
         \A s \in Runners : s # r => call'[s] = call[s],
         step # "fails" => call'[r] = call[r]
  PROVE  RowsInv'
<1>1. at'[r] = step
  BY DEF Goto, TypeOK, Threads
<1>2. RowsOf(r)
  BY DEF RowsInv
<1>3. RowsOf(r)'
  BY <1>1, <1>2 DEF RowsOf, Covers, First, RowsLeft, Abandoned, Calling
<1> QED
  BY <1>3, RowsMove DEF Threads

(* A request moves, or the record is renewed by one.                       *)
LEMMA RowsPoster ==
  ASSUME TypeOK, HoldsInv, RowsInv, NEW p \in Posters, NEW step, Goto(p, step),
         UNCHANGED <<callVars, listVars>>,
         \A r \in Runners : holds'[r] = holds[r],
         UNCHANGED recordVars \/ seq' = seq + 1
  PROVE  RowsInv'
<1>1. ASSUME NEW r \in Runners PROVE RowsOf(r)'
  <2>1. r # p /\ at'[r] = at[r]
    BY DEF Goto, TypeOK, Threads
  <2> QED
    BY <2>1, RowsAlone DEF Threads, TypeOK, callVars, listVars
<1> QED
  BY <1>1 DEF RowsInv, listVars

(* One more outcome.                                                       *)
LEMMA RowsReport ==
  ASSUME TypeOK, HoldsInv, RowsInv, NEW r \in Runners, NEW result \in Results,
         at[r] \notin {"free", "closes"}, RowsLeft(r), Reports(r, result),
         First(r, Len(did[r]) + 1) <=> result # "skipped",
         First(r, Len(did[r]) + 1) /\ Abandoned(r) => result = "abandoned"
  PROVE  RowsInv'
<1>1. /\ \A t \in Threads : at'[t] = IF t = r THEN "tells" ELSE at[t]
      /\ \A s \in Runners : s # r => did'[s] = did[s] /\ call'[s] = call[s] /\ holds'[s] = holds[s]
      /\ did'[r] = Append(did[r], result)
      /\ UNCHANGED rows /\ seq' = seq + 1
  BY DEF Reports, Changed, Goto, TypeOK, Threads
<1>2. did[r] \in Seq(Results)
  BY DEF TypeOK
<1>3. Covers(r, did[r])
  BY DEF RowsInv, RowsOf
<1>4. Covers(r, did[r])'
  <2> DEFINE n == Len(did[r])
             s == Append(did[r], result)
  <2>1. /\ n \in Nat /\ Len(s) = n + 1 /\ s[n + 1] = result
        /\ \A k \in 1..n : s[k] = did[r][k]
    BY <1>2
  <2>2. n + 1 <= Len(rows[r])
    BY <2>1, RowsLength DEF RowsLeft
  <2>3. ASSUME NEW k \in 1..n
        PROVE  /\ First(r, k) <=> s[k] # "skipped"
               /\ First(r, k) /\ (\E j \in 1..(k - 1) : s[j] = "abandoned") => s[k] = "abandoned"
    BY <1>3, <2>1 DEF Covers
  <2>4. /\ First(r, n + 1) <=> s[n + 1] # "skipped"
        /\ First(r, n + 1) /\ (\E j \in 1..n : s[j] = "abandoned") => s[n + 1] = "abandoned"
    BY <2>1 DEF Abandoned
  <2>5. \A k \in 1..(n + 1) : k \in 1..n \/ k = n + 1
    BY <2>1
  <2>6. Covers(r, s)
    <3> HIDE DEF n, s
    <3>1. ASSUME NEW k \in 1..(n + 1)
          PROVE  /\ First(r, k) <=> s[k] # "skipped"
                 /\ First(r, k) /\ (\E j \in 1..(k - 1) : s[j] = "abandoned") => s[k] = "abandoned"
      <4>1. CASE k \in 1..n
        BY <2>3, <4>1
      <4>2. CASE k = n + 1
        BY <2>1, <2>4, <4>2
      <4> QED
        BY <2>5, <4>1, <4>2
    <3> QED
      BY <2>1, <2>2, <3>1 DEF Covers
  <2>7. did'[r] = s /\ rows' = rows
    BY <1>1
  <2> QED
    <3> HIDE DEF s
    <3> QED
      BY <2>6, <2>7 DEF Covers, First
<1>5. RowsOf(r)'
  BY <1>1, <1>4 DEF RowsOf, Calling, Threads
<1>6. ASSUME NEW s \in Runners, s # r PROVE RowsOf(s)'
  BY <1>1, <1>6, RowsAlone DEF TypeOK, Threads
<1> QED
  BY <1>1, <1>5, <1>6 DEF RowsInv

LEMMA RowsStep ==
  ASSUME TypeOK, OwnerInv, HeardInv, HoldsInv, RowsInv, [Next]_vars
  PROVE  RowsInv'
<1> USE DEF recordVars, callVars, listVars, machineVars
<1>1. ASSUME NEW p \in Posters, Post(p) PROVE RowsInv'
  <2>1. \A r \in Runners : holds'[r] = holds[r]
    BY <1>1 DEF Post, Changed, TypeOK, Threads
  <2> QED
    BY <1>1, <2>1, RowsPoster DEF Post, Changed
<1>2. ASSUME NEW p \in Posters, ThreadStarts(p) PROVE RowsInv'
  <2>1. PICK r \in Runners :
          /\ at[r] = "free"
          /\ at' = [at EXCEPT ![p] = "idle", ![r] = "asks"]
          /\ call' = [call EXCEPT ![r] = "refresh"]
    BY <1>2 DEF ThreadStarts
  <2>2. UNCHANGED <<recordVars, holds, rows, did>>
    BY <1>2 DEF ThreadStarts
  <2>3. \A t \in Runners : at'[t] = IF t = r THEN "asks" ELSE at[t]
    BY <2>1 DEF TypeOK, Threads
  <2>4. \A t \in Runners : call'[t] = IF t = r THEN "refresh" ELSE call[t]
    BY <2>1 DEF TypeOK
  <2>5. RowsOf(r)'
    <3>1. did'[r] = <<>> /\ Len(did'[r]) = 0
      BY <2>1, <2>2 DEF HeardInv
    <3>2. Len(rows'[r]) \in Nat
      BY <2>2, RowsLength
    <3> QED
      BY <2>3, <2>4, <3>1, <3>2 DEF RowsOf, Covers
  <2>6. ASSUME NEW s \in Runners, s # r PROVE RowsOf(s)'
    BY <2>2, <2>3, <2>4, <2>6, RowsAlone DEF TypeOK, Threads
  <2> QED
    BY <2>2, <2>5, <2>6 DEF RowsInv
<1>3. ASSUME NEW p \in Posters, ThreadCannotStart(p) PROVE RowsInv'
  BY <1>3, RowsPoster DEF ThreadCannotStart
<1>4. ASSUME NEW p \in Posters, StartFails(p) PROVE RowsInv'
  <2>1. \A r \in Runners : holds'[r] = holds[r]
    BY <1>4 DEF StartFails, Changed, TypeOK, Threads
  <2> QED
    BY <1>4, <2>1, RowsPoster DEF StartFails, Changed
<1>5. ASSUME NEW r \in Runners, Asks(r) PROVE RowsInv'
  BY <1>5, RowsCall DEF Asks, Calling
<1>6. ASSUME NEW r \in Runners, Spawns(r) PROVE RowsInv'
  BY <1>6, RowsCall DEF Spawns, Calling
<1>7. ASSUME NEW r \in Runners, Shows(r) PROVE RowsInv'
  BY <1>7, RowsCall DEF Shows, Calling
<1>8. ASSUME NEW r \in Runners, Waits(r) PROVE RowsInv'
  BY <1>8, RowsCall DEF Waits, Calling
<1>9. ASSUME NEW r \in Runners, Clears(r) PROVE RowsInv'
  BY <1>9, RowsCall DEF Clears, Calling
<1>10. ASSUME NEW r \in Runners, RunFails(r), at[r] = "judges" PROVE RowsInv'
  <2>1. \A s \in Runners : s # r => call'[s] = call[s]
    BY <1>10 DEF RunFails, TypeOK
  <2> QED
    BY <1>10, <2>1, RowsCall DEF RunFails, Calling
<1>11. ASSUME NEW r \in Runners, NEW what \in Calls, NextCall(r, what), UNCHANGED listVars,
              RowsOf(r)'
       PROVE  RowsInv'
  <2>1. \A s \in Runners : s # r => call'[s] = call[s]
    BY <1>11 DEF NextCall, TypeOK
  <2> QED
    BY <1>11, <2>1, RowsMove DEF NextCall, Threads
<1>12. ASSUME NEW r \in Runners, NEW what \in Calls, NextCall(r, what), UNCHANGED listVars
       PROVE  at'[r] = "asks" /\ call'[r] = what
  BY <1>12 DEF NextCall, Goto, TypeOK, Threads
<1>13. ASSUME NEW r \in Runners, Refreshed(r) PROVE RowsInv'
  <2>1. CASE NextCall(r, "listing") /\ UNCHANGED listVars
    <3>1. RowsOf(r) /\ at[r] = "judges" /\ call[r] = "refresh"
      BY <1>13 DEF Refreshed, RowsInv
    <3>2. at'[r] = "asks" /\ call'[r] = "listing"
      BY <1>12, <2>1 DEF Calls
    <3>3. RowsOf(r)'
      BY <2>1, <3>1, <3>2 DEF RowsOf, Covers, First, Calling
    <3> QED
      BY <1>11, <2>1, <3>3 DEF Calls
  <2> QED
    BY <1>10, <1>13, <2>1 DEF Refreshed
<1>14. ASSUME NEW r \in Runners, Listed(r) PROVE RowsInv'
  <2>1. ASSUME NEW listing \in Listings,
               rows' = [rows EXCEPT ![r] = listing],
               Goto(r, "rows"),
               call' = [call EXCEPT ![r] = "none"],
               UNCHANGED <<recordVars, holds, did>>
        PROVE  RowsInv'
    <3>1. /\ \A s \in Runners : at'[s] = IF s = r THEN "rows" ELSE at[s]
          /\ \A s \in Runners : rows'[s] = IF s = r THEN listing ELSE rows[s]
          /\ \A s \in Runners : s # r => call'[s] = call[s]
      BY <2>1 DEF Goto, TypeOK, Threads, RowsInv
    <3>2. rows' \in [Runners -> Listings \cup {<<>>}]
      BY <2>1 DEF RowsInv
    <3>3. did'[r] = <<>>
      BY <1>14, <2>1 DEF Listed, RowsInv, RowsOf, Calling
    <3>4. Len(did'[r]) = 0 /\ Len(rows'[r]) \in Nat
      BY <3>1, <3>3, ListingsAssumption
    <3>5. RowsOf(r)'
      BY <3>1, <3>4 DEF RowsOf, Covers, Calling
    <3>6. ASSUME NEW s \in Runners, s # r PROVE RowsOf(s)'
      BY <2>1, <3>1, <3>6, RowsAlone DEF TypeOK, Threads
    <3> QED
      BY <3>2, <3>5, <3>6 DEF RowsInv
  <2> QED
    BY <1>10, <1>14, <2>1 DEF Listed
<1>15. ASSUME NEW r \in Runners
       PROVE  Repeated(r) <=>
                \E j \in 1..((Len(did[r]) + 1) - 1) :
                  rows[r][j].plugin = Row(r).plugin /\ rows[r][j].scope = "user"
  <2>1. Len(did[r]) \in Nat
    BY DEF TypeOK
  <2> QED
    BY <2>1 DEF Repeated
<1>16. ASSUME NEW r \in Runners
       PROVE  First(r, Len(did[r]) + 1) <=> Row(r).scope = "user" /\ ~Repeated(r)
  BY <1>15, <1>16 DEF First, Row
<1>17. ASSUME NEW r \in Runners, RowLeftAlone(r) PROVE RowsInv'
  BY <1>16, <1>17, RowsReport DEF RowLeftAlone, Results
<1>18. ASSUME NEW r \in Runners, RowTaken(r) PROVE RowsInv'
  <2>1. RowsOf(r) /\ at[r] = "rows" /\ RowsLeft(r) /\ ~Abandoned(r)
        /\ First(r, Len(did[r]) + 1)
    BY <1>16, <1>18 DEF RowTaken, RowsInv
  <2>2. at'[r] = "asks" /\ call'[r] = "update" /\ UNCHANGED listVars
    BY <1>12, <1>18 DEF RowTaken, Calls
  <2>3. RowsOf(r)'
    BY <2>1, <2>2 DEF RowsOf, Covers, First, Calling, RowsLeft, Abandoned
  <2> QED
    BY <1>11, <1>18, <2>3 DEF RowTaken, Calls
<1>19. ASSUME NEW r \in Runners, Updated(r) PROVE RowsInv'
  <2>1. CASE RunFails(r)
    BY <1>10, <1>19, <2>1 DEF Updated
  <2>2. CASE ~ RunFails(r)
    <3>1. at[r] = "judges" /\ RowsLeft(r) /\ First(r, Len(did[r]) + 1) /\ ~Abandoned(r)
      BY <1>19 DEF Updated, RowsInv, RowsOf, Calling
    <3>2. PICK result \in {"updated", "failed", "abandoned"} : Reports(r, result)
      BY <1>19, <2>2 DEF Updated
    <3> QED
      BY <3>1, <3>2, RowsReport DEF Results
  <2> QED
    BY <2>1, <2>2
<1>20. ASSUME NEW r \in Runners, RowsDone(r) PROVE RowsInv'
  <2>1. RowsOf(r) /\ at[r] = "rows" /\ ~RowsLeft(r)
    BY <1>20 DEF RowsDone, RowsInv
  <2>2. Len(did[r]) = Len(rows[r])
    <3>1. Len(did[r]) <= Len(rows[r]) /\ ~(Len(did[r]) < Len(rows[r]))
      BY <2>1 DEF RowsOf, Covers, RowsLeft
    <3>2. Len(did[r]) \in Nat /\ Len(rows[r]) \in Nat
      BY RowsLength DEF TypeOK
    <3> QED
      BY <3>1, <3>2
  <2>3. CASE NextCall(r, "relisting")
    <3>1. at'[r] = "asks" /\ call'[r] = "relisting" /\ UNCHANGED listVars
      BY <1>12, <1>20, <2>3 DEF RowsDone, Calls
    <3>2. RowsOf(r)'
      BY <2>1, <2>2, <3>1 DEF RowsOf, Covers, First, Calling
    <3> QED
      BY <1>11, <2>3, <3>1, <3>2 DEF Calls
  <2>4. CASE Goto(r, "succeeds") /\ UNCHANGED <<recordVars, holds, callVars, listVars>>
    <3>1. at'[r] = "succeeds"
      BY <2>4 DEF Goto, TypeOK, Threads
    <3>2. RowsOf(r)'
      BY <2>1, <2>2, <2>4, <3>1 DEF RowsOf, Covers, First, Calling
    <3> QED
      BY <2>4, <3>2, RowsMove DEF Threads
  <2> QED
    BY <1>20, <2>3, <2>4 DEF RowsDone
<1>21. ASSUME NEW r \in Runners, Classified(r) PROVE RowsInv'
  <2>1. PICK final \in Classifications(r) : did' = [did EXCEPT ![r] = final]
    BY <1>21 DEF Classified
  <2>2. PICK still \in SUBSET {k \in 1..Len(did[r]) : got[r] = "ok" /\ did[r][k] = "updated"} :
          final = [k \in 1..Len(did[r]) |-> IF k \in still THEN "current" ELSE did[r][k]]
    BY DEF Classifications
  <2>3. \A k \in 1..Len(did[r]) : /\ final[k] = "skipped" <=> did[r][k] = "skipped"
                                  /\ final[k] = "abandoned" <=> did[r][k] = "abandoned"
    BY <2>2
  <2>4. RowsOf(r) /\ at[r] = "judges" /\ call[r] = "relisting"
    BY <1>21 DEF Classified, RowsInv
  <2>5. Len(final) = Len(did[r]) /\ Len(did[r]) \in Nat
    BY FinalIsAsLong DEF TypeOK
  <2>6. Covers(r, final)
    <3>1. Covers(r, did[r])
      BY <2>4 DEF RowsOf
    <3> QED
      BY <2>3, <2>5, <3>1 DEF Covers
  <2>7. /\ UNCHANGED <<recordVars, holds, rows>>
        /\ \A s \in Runners : at'[s] = IF s = r THEN "succeeds" ELSE at[s]
        /\ \A s \in Runners : did'[s] = IF s = r THEN final ELSE did[s]
        /\ \A s \in Runners : s # r => call'[s] = call[s]
    BY <1>21, <2>1 DEF Classified, Goto, TypeOK, Threads
  <2>8. RowsOf(r)'
    <3>1. Covers(r, did[r])'
      BY <2>6, <2>7 DEF Covers, First
    <3>2. Len(did'[r]) = Len(rows'[r])
      BY <2>4, <2>5, <2>7 DEF RowsOf, Calling
    <3> QED
      BY <2>7, <3>1, <3>2 DEF RowsOf, Calling
  <2>9. ASSUME NEW s \in Runners, s # r PROVE RowsOf(s)'
    BY <2>7, <2>9, RowsAlone DEF TypeOK, Threads
  <2> QED
    BY <2>7, <2>8, <2>9 DEF RowsInv
<1>22. ASSUME NEW r \in Runners, Breaks(r) PROVE RowsInv'
  BY <1>10, <1>22 DEF Breaks
<1>23. ASSUME NEW r \in Runners, Finishes(r) PROVE RowsInv'
  <2>1. /\ UNCHANGED <<rows, did, call>> /\ seq' = seq + 1
        /\ \A s \in Runners : at'[s] = IF s = r THEN "closes" ELSE at[s]
        /\ \A s \in Runners : s # r => holds'[s] = holds[s]
    BY <1>23 DEF Finishes, Changed, Goto, TypeOK, Threads
  <2>2. RowsOf(r)'
    <3>1. state' = "done" => at[r] = "succeeds" /\ outcomes' = did[r]
      BY <1>23 DEF Finishes
    <3>2. at[r] = "succeeds" => Covers(r, did[r]) /\ Len(did[r]) = Len(rows[r])
      BY DEF RowsInv, RowsOf
    <3>3. state' = "done" => Covers(r, outcomes)' /\ Len(outcomes') = Len(rows'[r])
      <4>1. ASSUME state' = "done"
            PROVE  Covers(r, outcomes') /\ Len(outcomes') = Len(rows[r])
        BY <3>1, <3>2, <4>1
      <4> QED
        BY <2>1, <4>1 DEF Covers, First
    <3> QED
      BY <2>1, <3>3 DEF RowsOf, Calling
  <2>3. ASSUME NEW s \in Runners, s # r PROVE RowsOf(s)'
    BY <2>1, <2>3, RowsAlone DEF TypeOK, Threads
  <2> QED
    BY <2>1, <2>2, <2>3 DEF RowsInv
<1>24. ASSUME NEW t \in Threads, Publish(t) PROVE RowsInv'
  <2>1. /\ UNCHANGED <<recordVars, call>>
        /\ \A u \in Threads : u # t => at'[u] = at[u] /\ holds'[u] = holds[u]
        /\ at'[t] = AfterPublish(t)
    BY <1>24 DEF Publish, Goto, TypeOK
  <2>2. /\ \A s \in Runners : s # t => rows'[s] = rows[s] /\ did'[s] = did[s]
        /\ rows' \in [Runners -> Listings \cup {<<>>}]
        /\ at[t] # "closes" => UNCHANGED <<rows, did>>
    BY <1>24 DEF Publish, RowsInv, TypeOK
  <2>3. ASSUME t \in Runners PROVE RowsOf(t)'
    <3>1. CASE at[t] = "closes"
      BY <2>1, <3>1 DEF AfterPublish, RowsOf, Calling
    <3>2. CASE at[t] = "tells"
      <4>1. at'[t] = "rows" /\ UNCHANGED <<rows, did>>
        BY <2>1, <2>2, <3>2 DEF AfterPublish
      <4> QED
        BY <2>3, <3>2, <4>1 DEF RowsInv, RowsOf, Covers, First, Calling
    <3> QED
      BY <1>24, <2>3, <3>1, <3>2 DEF Publish, Publishing, TypeOK, RunnerSteps
  <2>4. ASSUME NEW s \in Runners, s # t PROVE RowsOf(s)'
    BY <2>1, <2>2, <2>4, RowsAlone DEF TypeOK, Threads
  <2> QED
    BY <2>2, <2>3, <2>4 DEF RowsInv
<1>25. CASE UNCHANGED <<recordVars, at, holds, call, rows, did>>
  <2>1. ASSUME NEW r \in Runners PROVE RowsOf(r)'
    BY <1>25, RowsAlone DEF TypeOK, Threads
  <2> QED
    BY <1>25, <2>1 DEF RowsInv
<1>26. CASE KillTakes \/ KillSignals \/ Exits \/ \E n \in Pids : ChildEnds(n) \/ StrangerTakes(n)
  BY <1>25, <1>26 DEF KillTakes, KillSignals, Exits, ChildEnds, StrangerTakes
<1>27. CASE UNCHANGED vars
  BY <1>25, <1>27 DEF vars
<1> QED
  BY <1>1, <1>2, <1>3, <1>4, <1>5, <1>6, <1>7, <1>8, <1>9, <1>13, <1>14, <1>17, <1>18, <1>19, <1>20,
     <1>21, <1>22, <1>23, <1>24, <1>26, <1>27
     DEF Next, PosterStep, RunnerStep, Threads

-----------------------------------------------------------------------------
(* The invariant.                                                          *)

LEMMA InitIInv ==
  ASSUME Init
  PROVE  IInv
<1>1. TypeOK
  <2>1. /\ at \in [Threads -> PosterSteps \cup RunnerSteps]
        /\ \A p \in Posters : at[p] \in PosterSteps
        /\ \A r \in Runners : at[r] \in RunnerSteps
    BY DEF Init, Threads, PosterSteps, RunnerSteps
  <2>2. <<>> \in Seq(Results)
    OBVIOUS
  <2>3. holds \in [Threads -> TheRecord!Record]
    BY DEF Init, NoRecord, TheRecord!Record, TheRecord!States
  <2>4. /\ outcomes \in Seq(Results) /\ did \in [Runners -> Seq(Results)]
        /\ call \in [Runners -> Calls] /\ got \in [Runners -> Gots]
    BY <2>2 DEF Init, Calls, Gots
  <2> QED
    BY <2>1, <2>3, <2>4 DEF Init, TypeOK
<1>2. OwnerInv /\ HeardInv /\ HoldsInv
  BY DEF Init, OwnerInv, Owners, HeardInv, HoldsInv, Threads, Publishing
<1> QED
  BY <1>1, <1>2 DEF IInv

LEMMA StepIInv ==
  ASSUME IInv, [Next]_vars
  PROVE  IInv'
  BY TypeStep, OwnerStep, HeardStep, NoTwoAlike DEF IInv

LEMMA AlwaysIInv == Spec => []IInv
  BY InitIInv, StepIInv, PTL DEF Spec

(* The types of every variable: of the record, the threads, the children   *)
(* and the numbers they go by.                                             *)
THEOREM TypeCorrect == Spec => []TypeOK
<1>1. IInv => TypeOK
  BY DEF IInv
<1> QED
  BY <1>1, AlwaysIInv, PTL

(* The in-flight marker of `PluginRuns` has one owner while it is set, and *)
(* none while it is not, whatever fails on the way.                        *)
THEOREM OneOwner == Spec => []RunningHasOneOwner
<1>1. IInv => RunningHasOneOwner
  <2> SUFFICES ASSUME IInv PROVE RunningHasOneOwner
    OBVIOUS
  <2>1. CASE state = "running"
    <3>1. PICK t \in Threads : t \in Owners
      BY <2>1 DEF IInv, OwnerInv
    <3>2. Owners = {t}
      BY <3>1 DEF IInv, OwnerInv
    <3> QED
      BY <2>1, <3>2, FS_Singleton DEF RunningHasOneOwner
  <2>2. CASE state # "running"
    BY <2>2 DEF IInv, OwnerInv, RunningHasOneOwner
  <2> QED
    BY <2>1, <2>2
<1> QED
  BY <1>1, AlwaysIInv, PTL

(* The kill of the teardown reaches nobody else's process, as long as a    *)
(* number reaped is not given away before it is cleared.                   *)
THEOREM KillsSafe ==
  ASSUME NumberGoesAtOnce = FALSE
  PROVE  Spec => []KillsOnlyItsOwn
<1>1. Latched
  BY DEF Latched
<1>2. Init => IInv /\ LatchInv /\ KillInv
  BY InitIInv DEF Init, LatchInv, KillInv, Threads
<1>3. IInv /\ LatchInv /\ KillInv /\ [Next]_vars => (IInv /\ LatchInv /\ KillInv)'
  BY <1>1, StepIInv, LatchStep, KillStep DEF IInv
<1>4. KillInv => KillsOnlyItsOwn
  BY DEF KillInv, KillsOnlyItsOwn
<1> QED
  BY <1>2, <1>3, <1>4, PTL DEF Spec

(* Nothing the process started is left running once it has ended, as long  *)
(* as it does not end between a Popen and its `_set`.                      *)
THEOREM ChildrenEnd ==
  ASSUME ExitsMidSpawn = FALSE
  PROVE  Spec => []NoChildOutlivesTheServer
<1>1. Init => IInv /\ AliveInv
  <2> SUFFICES ASSUME Init PROVE AliveInv
    BY InitIInv
  <2>1. \A r \in Runners : at[r] \notin {"shows", "waits"}
    BY DEF Init, Threads
  <2> QED
    BY <2>1 DEF Init, AliveInv
<1>2. IInv /\ AliveInv /\ [Next]_vars => (IInv /\ AliveInv)'
  BY StepIInv, AliveStep DEF IInv
<1>3. AliveInv => NoChildOutlivesTheServer
  BY DEF AliveInv, NoChildOutlivesTheServer
<1> QED
  BY <1>1, <1>2, <1>3, PTL DEF Spec

(* A run that is done accounts for every row of its listing once, and for  *)
(* each in the way `update_plugins` promises (#300, #370, #401).           *)
THEOREM DoneCovers == Spec => []DoneCoversTheListing
<1>1. Init => IInv /\ RowsInv
  <2> SUFFICES ASSUME Init PROVE RowsInv
    BY InitIInv
  <2>1. rows \in [Runners -> Listings \cup {<<>>}]
    BY DEF Init
  <2>2. ASSUME NEW r \in Runners PROVE at[r] = "free"
    BY DEF Init, Threads
  <2>3. ASSUME NEW r \in Runners PROVE RowsOf(r)
    BY <2>2 DEF RowsOf, Calling
  <2> QED
    BY <2>1, <2>3 DEF RowsInv
<1>2. IInv /\ RowsInv /\ [Next]_vars => (IInv /\ RowsInv)'
  BY StepIInv, RowsStep DEF IInv
<1>3. RowsInv => DoneCoversTheListing
  <2> SUFFICES ASSUME RowsInv, NEW r \in Runners,
                      at[r] = "closes", state = "done", holds[r].seq = seq
               PROVE  /\ Len(outcomes) = Len(rows[r])
                      /\ \A k \in 1..Len(rows[r]) :
                           /\ First(r, k) <=> outcomes[k] # "skipped"
                           /\ First(r, k) /\ (\E j \in 1..(k - 1) : outcomes[j] = "abandoned")
                                => outcomes[k] = "abandoned"
    BY DEF DoneCoversTheListing, First
  <2>1. Covers(r, outcomes) /\ Len(outcomes) = Len(rows[r])
    BY DEF RowsInv, RowsOf
  <2> QED
    BY <2>1 DEF Covers
<1> QED
  BY <1>1, <1>2, <1>3, PTL DEF Spec

(* The threads, the children and the failures of an update keep the record *)
(* that the page watches as RunRecord describes it.                        *)
THEOREM RecordKept == Spec => ImplementsRunRecord
<1>1. Init => TheRecord!RecordInit
  <2> SUFFICES ASSUME Init PROVE TheRecord!RecordInit
    OBVIOUS
  <2>1. seq = 0 /\ state = "idle" /\ Len(outcomes) = 0
    BY DEF Init
  <2>2. ASSUME NEW t \in Threads PROVE at[t] \notin Publishing
    <3>1. at[t] = "idle" \/ at[t] = "free"
      BY DEF Init, Threads
    <3> QED
      BY <3>1 DEF Publishing
  <2>3. {u \in Threads : at[u] \in Publishing} = {}
    BY <2>2
  <2>4. {holds[t] : t \in {u \in Threads : at[u] \in Publishing}} = {}
    BY <2>3
  <2> QED
    BY <2>1, <2>4 DEF TheRecord!RecordInit, TheRecord!Idle
<1>2. IInv /\ [Next]_vars => [TheRecord!RecordNext]_(TheRecord!recordVars)
  BY StepsOfTheRecord DEF IInv
<1> QED
  BY <1>1, <1>2, AlwaysIInv, PTL DEF Spec, ImplementsRunRecord, TheRecord!RecordSpec

=============================================================================
