--------------------------- MODULE AttentionProofs ---------------------------
(***************************************************************************)
(* What Attention promises of a claim, for every set of projects and of    *)
(* threads and every bound: it does not come back over a clear, and it is  *)
(* not lost to a clear of another name.                                    *)
(***************************************************************************)
EXTENDS Attention, TLAPS

USE NamesAssumption, ProcsAssumption, SettingsAssumption

-----------------------------------------------------------------------------
(* Types.                                                                  *)

\* Every process is where a `Leave` puts it, with its types.
LEMMA LeaveTypes ==
  ASSUME TypeOK, NEW p \in Reporters \cup Hands, Leave(p)
  PROVE  /\ pc' \in [Procs -> PCs]
         /\ subject' \in [Procs -> Names \cup {NoName}]
         /\ found' \in [Procs -> BOOLEAN] /\ seen' \in [Procs -> Nat]
         /\ \A q \in Procs : subject'[q] = NoName <=> pc'[q] = "idle" \/ q = Scanner
BY DEF Leave, Goto, TypeOK, Procs, PCs

LEMMA GoesTypes ==
  ASSUME TypeOK, NEW n \in Names, Goes(n)
  PROVE  row' \in [Names -> Rows] /\ asking' \in [Names -> BOOLEAN]
         /\ asked' \subseteq Names
<1>1. row' \in [Names -> Rows]
  BY DEF Goes, TypeOK, Rows
<1>2. asking' \in [Names -> BOOLEAN]
  <2>1. asking' = [asking EXCEPT ![n] = asking[n] /\ row'[n] = "stale"]
    BY DEF Goes
  <2>2. (asking[n] /\ row'[n] = "stale") \in BOOLEAN
    OBVIOUS
  <2> QED
    BY <2>1, <2>2 DEF TypeOK
<1> QED
  BY <1>1, <1>2 DEF Goes, TypeOK

LEMMA WorldTypes == TypeOK /\ World => TypeOK'
<1> SUFFICES ASSUME TypeOK, World PROVE TypeOK'
  OBVIOUS
<1> USE DEF machineVars, memoryVars, scanVars, historyVars, localVars
<1>1. ASSUME NEW n \in Names, ScreenChanges(n) PROVE TypeOK'
  <2>1. asking' \in [Names -> BOOLEAN]
    BY <1>1 DEF ScreenChanges, TypeOK
  <2>2. changes' \in Nat
    BY <1>1 DEF ScreenChanges, Change, TypeOK
  <2> QED
    BY <1>1, <2>1, <2>2 DEF ScreenChanges, TypeOK
<1>2. ASSUME NEW n \in Names, LinkChanges(n) PROVE TypeOK'
  <2>1. row' \in [Names -> Rows]
    BY <1>2 DEF LinkChanges, TypeOK, Rows, Running
  <2>2. changes' \in Nat
    BY <1>2 DEF LinkChanges, Change, TypeOK
  <2> QED
    BY <1>2, <2>1, <2>2 DEF LinkChanges, TypeOK
<1>3. ASSUME NEW n \in Names, GrowsUp(n) PROVE TypeOK'
  <2>1. row' \in [Names -> Rows]
    BY <1>3 DEF GrowsUp, TypeOK, Rows, Running
  <2> QED
    BY <1>3, <2>1 DEF GrowsUp, TypeOK
<1>4. ASSUME NEW n \in Names, AgentGoes(n) PROVE TypeOK'
  <2>1. changes' \in Nat
    BY <1>4 DEF AgentGoes, Change, TypeOK
  <2> QED
    BY <1>4, <2>1, GoesTypes DEF AgentGoes, TypeOK
<1>5. ASSUME NEW n \in Names, TimeToLive(n) PROVE TypeOK'
  <2>1. stuck' \in [Names -> {"none", "fresh", "old"}]
    BY <1>5 DEF TimeToLive, TypeOK
  <2> QED
    BY <1>5, <2>1 DEF TimeToLive, TypeOK
<1>6. CASE Connects
  <2>1. page' \in [Names -> BOOLEAN]
    BY <1>6 DEF Connects, Shown
  <2>2. changes' \in Nat
    BY <1>6 DEF Connects, Change, TypeOK
  <2> QED
    BY <1>6, <2>1, <2>2 DEF Connects, TypeOK
<1>7. CASE Disconnects
  <2>1. changes' \in Nat
    BY <1>7 DEF Disconnects, Change, TypeOK
  <2> QED
    BY <1>7, <2>1 DEF Disconnects, TypeOK
<1> QED
  BY <1>1, <1>2, <1>3, <1>4, <1>5, <1>6, <1>7 DEF World

LEMMA RecordedTypes ==
  ASSUME TypeOK
  PROVE  Recorded \in [Names -> {"none", "fresh", "old"}]
BY DEF Recorded, Pruned, TypeOK

LEMMA ScanTypes == TypeOK /\ Scan => TypeOK'
<1> SUFFICES ASSUME TypeOK, Scan PROVE TypeOK'
  OBVIOUS
<1> USE DEF machineVars, memoryVars, scanVars, historyVars, localVars
<1>a. Scanner \in Procs
  BY DEF Procs
<1>b. ASSUME NEW to \in PCs, Goto(Scanner, to)
      PROVE  /\ pc' \in [Procs -> PCs]
             /\ \A p \in Procs : p # Scanner => pc'[p] = pc[p]
  BY <1>a, <1>b DEF Goto, TypeOK
<1>1. CASE ScanLooks
  <2>1. WorthALook \subseteq Names
    BY DEF WorthALook, Candidates
  <2>2. "epoch" \in PCs
    BY DEF PCs
  <2> QED
    BY <1>1, <1>b, <2>1, <2>2 DEF ScanLooks, TypeOK
<1>2. CASE ScanReadsEpoch
  <2>1. seen' \in [Procs -> Nat]
    BY <1>2 DEF ScanReadsEpoch, TypeOK
  <2>2. "capture" \in PCs
    BY DEF PCs
  <2> QED
    BY <1>2, <1>b, <2>1, <2>2 DEF ScanReadsEpoch, TypeOK
<1>3. ASSUME NEW n \in Names, NEW answer, ScanReads(n, answer)
      PROVE TypeOK'
  <2>1. outdated' \subseteq Procs \X Names
    BY <1>3 DEF ScanReads, Captured, TypeOK
  <2> QED
    BY <1>3, <2>1 DEF ScanReads, TypeOK
<1>4. CASE ScanRunsOut
  BY <1>4 DEF ScanRunsOut, TypeOK
<1>5. CASE ScanWrites
  <2>1. outdated' \subseteq Procs \X Names
    BY <1>5 DEF ScanWrites, Forgotten, TypeOK
  <2>2. /\ waiting' \subseteq Names /\ undone' \subseteq Names
        /\ tell' \subseteq Names
    BY <1>5 DEF ScanWrites, Kept, Changed, TypeOK
  <2>3. stuck' \in [Names -> {"none", "fresh", "old"}]
    BY <1>5, RecordedTypes DEF ScanWrites
  <2>4. "announce" \in PCs
    BY DEF PCs
  <2> QED
    BY <1>5, <1>b, <2>1, <2>2, <2>3, <2>4 DEF ScanWrites, TypeOK
<1>6. ASSUME NEW n \in Names, ScanAnnounces(n) PROVE TypeOK'
  <2>1. page' \in [Names -> BOOLEAN]
    BY <1>6 DEF ScanAnnounces, Published, TypeOK
  <2> QED
    BY <1>6, <2>1 DEF ScanAnnounces, TypeOK
<1>7. CASE ScanEnds
  <2>1. "idle" \in PCs
    BY DEF PCs
  <2> QED
    BY <1>7, <1>b, <2>1 DEF ScanEnds, TypeOK
<1> QED
  BY <1>1, <1>2, <1>3, <1>4, <1>5, <1>6, <1>7
     DEF Scan, ScanCaptures, ScanCannotCapture

\* A step of a process that is busy, and stays so about the same row.
LEMMA BusyTypes ==
  ASSUME TypeOK, NEW p \in Reporters \cup Hands, NEW to \in PCs \ {"idle"},
         pc[p] # "idle", Goto(p, to), subject' = subject
  PROVE  /\ pc' \in [Procs -> PCs]
         /\ \A q \in Procs : subject'[q] = NoName <=> pc'[q] = "idle" \/ q = Scanner
         /\ subject[p] \in Names
BY DEF Goto, TypeOK, Procs

\* A step of a process that was idle, and takes up a row.
LEMMA TakesUpTypes ==
  ASSUME TypeOK, NEW p \in Reporters \cup Hands, NEW to \in PCs \ {"idle"},
         NEW n \in Names, Goto(p, to), subject' = [subject EXCEPT ![p] = n]
  PROVE  /\ pc' \in [Procs -> PCs]
         /\ subject' \in [Procs -> Names \cup {NoName}]
         /\ \A q \in Procs : subject'[q] = NoName <=> pc'[q] = "idle" \/ q = Scanner
BY DEF Goto, TypeOK, Procs

LEMMA TellTypes ==
  ASSUME TypeOK, NEW p \in Reporters \cup Hands,
         Gets(p) \/ CannotGet(p) \/ Publishes(p)
  PROVE  TypeOK'
<1> USE DEF machineVars, memoryVars, scanVars, historyVars, localVars
<1>0. p \in Procs
  BY DEF Procs
<1>1. CASE Gets(p)
  <2>1. "publish" \in PCs \ {"idle"}
    BY DEF PCs
  <2>2. found' \in [Procs -> BOOLEAN]
    <3>1. Shown(subject[p]) \in BOOLEAN
      BY DEF Shown
    <3> QED
      BY <1>0, <1>1, <3>1 DEF Gets, TypeOK
  <2>3. pc[p] # "idle" /\ Goto(p, "publish") /\ subject' = subject
    BY <1>1 DEF Gets
  <2> QED
    BY <1>1, <2>1, <2>2, <2>3, BusyTypes DEF Gets, TypeOK
<1>2. CASE CannotGet(p)
  <2>1. subject[p] \in Names
    BY <1>0, <1>2 DEF CannotGet, TypeOK
  <2> QED
    BY <1>2, <2>1, LeaveTypes DEF CannotGet, TypeOK
<1>3. CASE Publishes(p)
  <2>1. subject[p] \in Names
    BY <1>0, <1>3 DEF Publishes, TypeOK
  <2>2. page' \in [Names -> BOOLEAN]
    BY <1>0, <1>3, <2>1 DEF Publishes, Published, TypeOK
  <2> QED
    BY <1>3, <2>1, <2>2, LeaveTypes DEF Publishes, TypeOK
<1> QED
  BY <1>1, <1>2, <1>3

LEMMA ReportTypes == ASSUME TypeOK, NEW r \in Reporters, Report(r) PROVE TypeOK'
<1> USE DEF machineVars, memoryVars, scanVars, historyVars, localVars
<1>0. r \in Procs /\ r \in Reporters \cup Hands
  BY DEF Procs
<1>1. CASE ReportReadsEpoch(r)
  <2>1. "capture" \in PCs \ {"idle"}
    BY DEF PCs
  <2>2. seen' \in [Procs -> Nat]
    BY <1>1 DEF ReportReadsEpoch, TypeOK
  <2>3. pc[r] # "idle" /\ Goto(r, "capture") /\ subject' = subject
    BY <1>1 DEF ReportReadsEpoch
  <2> QED
    BY <1>0, <1>1, <2>1, <2>2, <2>3, BusyTypes DEF ReportReadsEpoch, TypeOK
<1>2. CASE ReportCaptures(r)
  <2>1. PICK to \in {"get", "flag", "second"} : Goto(r, to)
    BY <1>2 DEF ReportCaptures
  <2>2. to \in PCs \ {"idle"} /\ pc[r] # "idle" /\ subject' = subject
    BY <1>2 DEF ReportCaptures, PCs
  <2>3. outdated' \subseteq Procs \X Names
    BY <1>2 DEF ReportCaptures, Captured, TypeOK
  <2> QED
    BY <1>0, <1>2, <2>1, <2>2, <2>3, BusyTypes DEF ReportCaptures, TypeOK
<1>3. CASE SecondLookEnds(r)
  <2>1. "get" \in PCs \ {"idle"} /\ pc[r] # "idle" /\ Goto(r, "get")
          /\ subject' = subject
    BY <1>3 DEF SecondLookEnds, PCs
  <2>2. outdated' \subseteq Procs \X Names
    BY <1>3 DEF SecondLookEnds, Forgotten, TypeOK
  <2>3. subject[r] \in Names
    BY <1>0, <2>1, BusyTypes
  <2>4. /\ row' \in [Names -> Rows] /\ asking' \in [Names -> BOOLEAN]
        /\ asked' \subseteq Names
    BY <1>3, <2>3, GoesTypes DEF SecondLookEnds
  <2> QED
    BY <1>0, <1>3, <2>1, <2>2, <2>4, BusyTypes DEF SecondLookEnds, TypeOK
<1>4. CASE SecondLookDoesNot(r)
  <2>1. PICK to \in {"get", "flag"} : Goto(r, to)
    BY <1>4 DEF SecondLookDoesNot
  <2>2. to \in PCs \ {"idle"} /\ pc[r] # "idle" /\ subject' = subject
    BY <1>4 DEF SecondLookDoesNot, PCs
  <2> QED
    BY <1>0, <1>4, <2>1, <2>2, BusyTypes DEF SecondLookDoesNot, TypeOK
<1>5. CASE ReportFlags(r)
  <2>1. subject[r] \in Names
    BY <1>0, <1>5 DEF ReportFlags, TypeOK
  <2>2. outdated' \subseteq Procs \X Names
    BY <1>5 DEF ReportFlags, Forgotten, TypeOK
  <2>3. awaiting' \subseteq Names /\ undone' \subseteq Names
    BY <1>5, <2>1 DEF ReportFlags, TypeOK
  <2>4. "get" \in PCs \ {"idle"} /\ pc[r] # "idle" /\ Goto(r, "get")
          /\ subject' = subject
    BY <1>5 DEF ReportFlags, PCs
  <2> QED
    BY <1>0, <1>5, <2>2, <2>3, <2>4, BusyTypes DEF ReportFlags, TypeOK
<1>6. CASE Gets(r) \/ CannotGet(r) \/ Publishes(r)
  BY <1>0, <1>6, TellTypes
<1>7. CASE SecondLookOutlived(r)
  <2>1. "flag" \in PCs \ {"idle"} /\ pc[r] # "idle" /\ Goto(r, "flag")
          /\ subject' = subject
    BY <1>7 DEF SecondLookOutlived, PCs
  <2>2. subject[r] \in Names
    BY <1>0, <2>1, BusyTypes
  <2>3. page' \in [Names -> BOOLEAN]
    <3>1. Shown(subject[r]) \in BOOLEAN
      BY DEF Shown
    <3> QED
      BY <1>7, <2>2, <3>1 DEF SecondLookOutlived, Published, TypeOK
  <2> QED
    BY <1>0, <1>7, <2>1, <2>3, BusyTypes DEF SecondLookOutlived, TypeOK
<1> QED
  BY <1>1, <1>2, <1>3, <1>4, <1>5, <1>6, <1>7 DEF Report

LEMMA ExpireTypes == TypeOK /\ Expire => TypeOK'
<1> SUFFICES ASSUME TypeOK, Expire PROVE TypeOK'
  OBVIOUS
<1> USE DEF machineVars, memoryVars, scanVars, historyVars, localVars
<1>1. ASSUME NEW S \in SUBSET asked, StopsExpire(S) PROVE TypeOK'
  BY <1>1 DEF StopsExpire, TypeOK
<1>2. ASSUME NEW n \in Names, ExpiryTakesUp(n) PROVE TypeOK'
  <2>1. Expiry \in Reporters \cup Hands /\ Goto(Expiry, "epoch")
          /\ subject' = [subject EXCEPT ![Expiry] = n]
    BY <1>2 DEF ExpiryTakesUp, About
  <2>2. "epoch" \in PCs \ {"idle"}
    BY DEF PCs
  <2>3. due' \subseteq Names
    BY <1>2 DEF ExpiryTakesUp, TypeOK
  <2> QED
    BY <1>2, <2>1, <2>2, <2>3, TakesUpTypes DEF ExpiryTakesUp, TypeOK
<1> QED
  BY <1>1, <1>2 DEF Expire

LEMMA WrapUpTypes ==
  ASSUME TypeOK, NEW n \in Names, WrapUpMovesOn(n) PROVE TypeOK'
<1> USE DEF machineVars, memoryVars, scanVars, historyVars, localVars
<1>1. Wrapper \in Reporters \cup Hands
        /\ subject' = [subject EXCEPT ![Wrapper] = n]
  BY DEF WrapUpMovesOn, About
<1>2. PICK to \in {"get", "epoch"} : Goto(Wrapper, to)
  BY DEF WrapUpMovesOn
<1>3. to \in PCs \ {"idle"}
  BY DEF PCs
<1>4. asked' \subseteq Names
  BY DEF WrapUpMovesOn, TypeOK
<1> QED
  BY <1>1, <1>2, <1>3, <1>4, TakesUpTypes DEF WrapUpMovesOn, TypeOK

LEMMA ForgetAttentionTypes ==
  ASSUME TypeOK, NEW n \in Names, ForgetAttention(n)
  PROVE  /\ awaiting' \subseteq Names /\ epoch' \in Nat
         /\ stuck' \in [Names -> {"none", "fresh", "old"}]
         /\ cleared' \in [Names -> Nat]
<1>1. epoch' \in Nat /\ awaiting' \subseteq Names
  BY DEF ForgetAttention, TypeOK
<1>2. stuck' \in [Names -> {"none", "fresh", "old"}]
  BY DEF ForgetAttention, TypeOK
<1>3. cleared' \in [Names -> Nat]
  BY <1>1 DEF ForgetAttention, TypeOK
<1> QED
  BY <1>1, <1>2, <1>3

LEMMA ForgetsTypes ==
  ASSUME TypeOK, NEW h \in Hands, Forgets(h) PROVE TypeOK'
<1> USE DEF machineVars, memoryVars, scanVars, historyVars, localVars
<1>0. h \in Procs /\ h \in Reporters \cup Hands
  BY DEF Procs
<1>1. PICK to \in {"claim", "spawn"} : Goto(h, to)
  BY DEF Forgets
<1>2. to \in PCs \ {"idle"} /\ pc[h] # "idle" /\ subject' = subject
  BY DEF Forgets, PCs
<1>3. subject[h] \in Names
  BY <1>0, <1>1, <1>2, BusyTypes
<1>4. /\ awaiting' \subseteq Names /\ epoch' \in Nat
      /\ stuck' \in [Names -> {"none", "fresh", "old"}]
      /\ cleared' \in [Names -> Nat]
  BY <1>3, ForgetAttentionTypes DEF Forgets
<1>5. Holding(subject[h]) \subseteq Procs /\ Reading(subject[h]) \subseteq Reporters
  BY DEF Holding, Reading, Procs
<1>6. /\ outdated' \subseteq Procs \X Names /\ crossed' \subseteq Reporters
      /\ undone' \subseteq Names
  BY <1>3, <1>5 DEF Forgets, TypeOK
<1> QED
  BY <1>0, <1>1, <1>2, <1>4, <1>6, BusyTypes DEF Forgets, TypeOK

LEMMA HandTypes == ASSUME TypeOK, NEW h \in Hands, Hand(h) PROVE TypeOK'
<1> USE DEF machineVars, memoryVars, scanVars, historyVars, localVars
<1>0. h \in Procs /\ h \in Reporters \cup Hands
  BY DEF Procs
<1>1. CASE Forgets(h)
  BY <1>1, ForgetsTypes
<1>2. CASE StopClaims(h)
  <2>1. "typing" \in PCs \ {"idle"} /\ pc[h] # "idle" /\ Goto(h, "typing")
          /\ subject' = subject
    BY <1>2 DEF StopClaims, PCs
  <2>2. subject[h] \in Names
    BY <1>0, <2>1, BusyTypes
  <2>3. found' \in [Procs -> BOOLEAN]
    <3>1. (subject[h] \in asked) \in BOOLEAN
      OBVIOUS
    <3> QED
      BY <1>0, <1>2, <3>1 DEF StopClaims, TypeOK
  <2> QED
    BY <1>0, <1>2, <2>1, <2>2, <2>3, BusyTypes DEF StopClaims, TypeOK
<1>3. CASE StopAsksNobody(h)
  BY <1>0, <1>3, LeaveTypes DEF StopAsksNobody, TypeOK
<1>4. CASE StopTypes(h)
  <2>1. "get" \in PCs \ {"idle"} /\ pc[h] # "idle" /\ Goto(h, "get")
          /\ subject' = subject
    BY <1>4 DEF StopTypes, PCs
  <2> QED
    BY <1>0, <1>4, <2>1, BusyTypes DEF StopTypes, TypeOK
<1>5. CASE StopRefused(h)
  BY <1>0, <1>5, LeaveTypes DEF StopRefused, TypeOK
<1>6. CASE StartSpawns(h)
  <2>1. "get" \in PCs \ {"idle"} /\ pc[h] # "idle" /\ Goto(h, "get")
          /\ subject' = subject
    BY <1>6 DEF StartSpawns, PCs
  <2>2. row' \in [Names -> Rows]
    BY <1>6 DEF StartSpawns, TypeOK, Rows, Running
  <2>3. asking' \in [Names -> BOOLEAN]
    BY <1>6 DEF StartSpawns, TypeOK
  <2> QED
    BY <1>0, <1>6, <2>1, <2>2, <2>3, BusyTypes DEF StartSpawns, TypeOK
<1>7. CASE StartFails(h)
  <2>1. pc[h] # "idle" /\ subject[h] \in Names
    BY <1>0, <1>7 DEF StartFails, TypeOK
  <2>2. /\ row' \in [Names -> Rows] /\ asking' \in [Names -> BOOLEAN]
        /\ asked' \subseteq Names
    <3>1. CASE Goes(subject[h])
      BY <2>1, <3>1, GoesTypes
    <3>2. CASE UNCHANGED <<row, asking, asked>>
      BY <3>2 DEF TypeOK
    <3> QED
      BY <1>7, <3>1, <3>2 DEF StartFails
  <2> QED
    BY <1>0, <1>7, <2>2, LeaveTypes DEF StartFails, TypeOK
<1>8. CASE Gets(h) \/ CannotGet(h) \/ Publishes(h)
  BY <1>0, <1>8, TellTypes
<1> QED
  BY <1>1, <1>2, <1>3, <1>4, <1>5, <1>6, <1>7, <1>8 DEF Hand

LEMMA PressTypes ==
  ASSUME TypeOK, NEW h \in Hands, NEW n \in Names, Stop(h, n) \/ Start(h, n)
  PROVE  TypeOK'
<1> USE DEF machineVars, memoryVars, scanVars, historyVars, localVars
<1>1. PICK to \in {"forgetStop", "forgetStart"} : Goto(h, to)
  BY DEF Stop, Start
<1>2. to \in PCs \ {"idle"}
  BY DEF PCs
<1>3. Press(h, n)
  BY DEF Stop, Start
<1>4. subject' = [subject EXCEPT ![h] = n] /\ h \in Reporters \cup Hands
  BY <1>3 DEF Press
<1>5. presses' \in Nat
  BY <1>3 DEF Press, TypeOK
<1> QED
  BY <1>1, <1>2, <1>3, <1>4, <1>5, TakesUpTypes DEF Press, TypeOK

LEMMA TypeInit == Init => TypeOK
<1> SUFFICES ASSUME Init PROVE TypeOK
  OBVIOUS
<1>1. row \in [Names -> Rows]
  <2>1. FoundRows \subseteq Rows
    BY DEF Rows, Running
  <2> QED
    BY <2>1 DEF Init
<1>2. /\ stuck \in [Names -> {"none", "fresh", "old"}]
      /\ cleared \in [Names -> Nat] /\ page \in [Names -> BOOLEAN]
  BY DEF Init
<1>3. /\ pc \in [Procs -> PCs] /\ subject \in [Procs -> Names \cup {NoName}]
      /\ found \in [Procs -> BOOLEAN] /\ seen \in [Procs -> Nat]
      /\ \A p \in Procs : subject[p] = NoName <=> pc[p] = "idle" \/ p = Scanner
  BY DEF Init, PCs
<1>4. /\ asked \subseteq Names /\ awaiting \subseteq Names /\ epoch \in Nat
      /\ todo \subseteq Names /\ waiting \subseteq Names /\ clear \subseteq Names
      /\ tell \subseteq Names /\ due \subseteq Names
      /\ presses \in Nat /\ changes \in Nat
      /\ outdated \subseteq Procs \X Names /\ crossed \subseteq Reporters
      /\ undone \subseteq Names /\ mistold \subseteq Names
  BY DEF Init
<1> QED
  BY <1>1, <1>2, <1>3, <1>4 DEF Init, TypeOK

LEMMA TypeStep == TypeOK /\ [Next]_vars => TypeOK'
<1> SUFFICES ASSUME TypeOK, [Next]_vars PROVE TypeOK'
  OBVIOUS
<1>1. CASE World
  BY <1>1, WorldTypes
<1>2. CASE Scan
  BY <1>2, ScanTypes
<1>3. CASE Expire
  BY <1>3, ExpireTypes
<1>4. ASSUME NEW n \in Names, WrapUpMovesOn(n) PROVE TypeOK'
  BY <1>4, WrapUpTypes
<1>5. ASSUME NEW r \in Reporters, Report(r) PROVE TypeOK'
  BY <1>5, ReportTypes
<1>6. ASSUME NEW h \in Hands, Hand(h) PROVE TypeOK'
  BY <1>6, HandTypes
<1>7. ASSUME NEW h \in Hands, NEW n \in Names, Stop(h, n) \/ Start(h, n)
      PROVE TypeOK'
  BY <1>7, PressTypes
<1>8. CASE UNCHANGED vars
  BY <1>8 DEF vars, machineVars, memoryVars, scanVars, historyVars, localVars,
              TypeOK
<1> QED
  BY <1>1, <1>2, <1>3, <1>4, <1>5, <1>6, <1>7, <1>8 DEF Next

\* Every variable keeps its type, and a process is about a row exactly while
\* it is busy: what lets the later proofs name the row of a report.
THEOREM TypeCorrect == Spec => []TypeOK
BY TypeInit, TypeStep, PTL DEF Spec

-----------------------------------------------------------------------------
(* Claims and clears.                                                      *)

\* Epochs only grow, and nobody holds one that is yet to come.
MemoryInv ==
  /\ \A n \in Names : cleared[n] <= epoch
  /\ \A p \in Procs : seen[p] <= epoch

\* A scan that holds a screen older than a clear of its row will see that the
\* epoch has moved.
ScanInv ==
  /\ pc[Scanner] = "epoch" => waiting = {}
  /\ pc[Scanner] = "capture" =>
       \A n \in waiting : <<Scanner, n>> \in outdated => seen[Scanner] < epoch

\* A report whose row was cleared is told so by the epoch of the clear, and
\* only such a report is.
ReportInv ==
  \A r \in Reporters :
    /\ pc[r] \in {"capture", "second", "flag"} /\ r \notin crossed
         => cleared[subject[r]] <= seen[r]
    /\ pc[r] \in {"second", "flag"} /\ <<r, subject[r]>> \in outdated
         => seen[r] < cleared[subject[r]]

Inv == TypeOK /\ MemoryInv /\ ScanInv /\ ReportInv /\ NoClaimOutlivesItsClear

\* What a process that holds no screen does is of no consequence to the rest.
LEMMA QuietStep ==
  ASSUME Inv, TypeOK', NEW p \in Reporters \cup Hands,
         UNCHANGED <<epoch, cleared, crossed, undone, waiting>>,
         outdated' \subseteq outdated,
         \A q \in Procs \ {p} :
           pc'[q] = pc[q] /\ seen'[q] = seen[q] /\ subject'[q] = subject[q],
         seen'[p] <= epoch,
         p \in Hands \/ pc'[p] \notin {"capture", "second", "flag"}
  PROVE  Inv'
<1>0. Scanner \in Procs /\ Scanner # p /\ Reporters \subseteq Procs
  BY DEF Procs
<1>1. MemoryInv'
  BY DEF Inv, MemoryInv
<1>2. ScanInv'
  BY <1>0 DEF Inv, ScanInv
<1>3. ReportInv'
  BY <1>0 DEF Inv, ReportInv
<1> QED
  BY <1>1, <1>2, <1>3 DEF Inv, NoClaimOutlivesItsClear

\* A step that moves no process and clears nothing.
LEMMA StillStep ==
  ASSUME Inv, TypeOK',
         UNCHANGED <<epoch, cleared, crossed, undone, waiting, outdated, pc,
                     seen, subject>>
  PROVE  Inv'
BY DEF Inv, MemoryInv, ScanInv, ReportInv, NoClaimOutlivesItsClear

LEMMA LeaveQuietly ==
  ASSUME Inv, TypeOK', NEW p \in Reporters \cup Hands, Leave(p),
         UNCHANGED <<epoch, cleared, crossed, undone, waiting>>,
         outdated' \subseteq outdated
  PROVE  Inv'
<1>1. /\ \A q \in Procs \ {p} :
           pc'[q] = pc[q] /\ seen'[q] = seen[q] /\ subject'[q] = subject[q]
      /\ seen'[p] = 0 /\ pc'[p] = "idle"
  BY DEF Leave, Goto, Inv, TypeOK, Procs
<1>2. 0 <= epoch
  BY DEF Inv, TypeOK
<1> QED
  BY <1>1, <1>2, QuietStep

\* A step from one place to another, of a process that holds no screen then.
LEMMA GoesOnQuietly ==
  ASSUME Inv, TypeOK', NEW p \in Reporters \cup Hands, NEW to, Goto(p, to),
         p \in Hands \/ to \notin {"capture", "second", "flag"},
         \A q \in Procs \ {p} : subject'[q] = subject[q],
         UNCHANGED <<epoch, cleared, crossed, undone, waiting, seen>>,
         outdated' \subseteq outdated
  PROVE  Inv'
<1>1. /\ \A q \in Procs \ {p} : pc'[q] = pc[q]
      /\ pc'[p] = to
  BY DEF Goto, Inv, TypeOK, Procs
<1>2. seen'[p] <= epoch
  BY DEF Inv, MemoryInv, Procs
<1> QED
  BY <1>1, <1>2, QuietStep

LEMMA WorldKeepsInv == ASSUME Inv, TypeOK', World PROVE Inv'
<1>1. UNCHANGED <<epoch, cleared, crossed, undone, waiting, outdated, pc, seen,
                  subject>>
  BY DEF World, ScreenChanges, LinkChanges, GrowsUp, AgentGoes, TimeToLive,
         Connects, Disconnects, memoryVars, localVars, scanVars, historyVars
<1> QED
  BY <1>1, StillStep

\* A scan never writes a claim over a clear of the same row.
LEMMA ScanWritesNothingUndone ==
  ASSUME Inv, ScanWrites PROVE undone' = {}
<1>1. \A n \in Kept : <<Scanner, n>> \notin outdated
  <2> SUFFICES ASSUME NEW n \in Kept, <<Scanner, n>> \in outdated PROVE FALSE
    OBVIOUS
  <2>1. epoch = seen[Scanner] /\ n \in waiting
    BY DEF Kept, Discarded
  <2>2. seen[Scanner] < epoch
    BY <2>1 DEF Inv, ScanInv, ScanWrites
  <2> QED
    BY <2>1, <2>2 DEF Inv, TypeOK
<1> QED
  BY <1>1 DEF ScanWrites, Inv, NoClaimOutlivesItsClear

LEMMA ScanKeepsInv == ASSUME Inv, TypeOK', Scan PROVE Inv'
<1> USE DEF memoryVars, localVars, historyVars
<1>0. /\ Scanner \in Procs /\ Scanner \notin Reporters /\ Reporters \subseteq Procs
      /\ pc \in [Procs -> PCs] /\ seen \in [Procs -> Nat]
  BY DEF Procs, Inv, TypeOK
<1>a. ASSUME UNCHANGED <<epoch, cleared, crossed, undone, subject>>,
             \A r \in Reporters : pc'[r] = pc[r] /\ seen'[r] = seen[r],
             \A r \in Reporters, n \in Names :
               <<r, n>> \in outdated' => <<r, n>> \in outdated
      PROVE  ReportInv'
  <2>1. \A r \in Reporters : pc[r] \in {"second", "flag"} => subject[r] \in Names
    BY <1>0 DEF Inv, TypeOK
  <2> QED
    BY <1>a, <2>1 DEF Inv, ReportInv
<1>1. CASE ScanLooks
  <2>1. pc'[Scanner] = "epoch" /\ \A r \in Reporters : pc'[r] = pc[r]
    BY <1>0, <1>1 DEF ScanLooks, Goto
  <2>2. MemoryInv' /\ ScanInv' /\ NoClaimOutlivesItsClear'
    BY <1>1, <2>1 DEF ScanLooks, Inv, MemoryInv, ScanInv, NoClaimOutlivesItsClear
  <2>3. ReportInv'
    BY <1>1, <1>a, <2>1 DEF ScanLooks
  <2> QED
    BY <2>2, <2>3 DEF Inv
<1>2. CASE ScanReadsEpoch
  <2>1. pc'[Scanner] = "capture" /\ \A r \in Reporters : pc'[r] = pc[r]
    BY <1>0, <1>2 DEF ScanReadsEpoch, Goto
  <2>2. seen'[Scanner] = epoch /\ \A q \in Procs \ {Scanner} : seen'[q] = seen[q]
    BY <1>0, <1>2 DEF ScanReadsEpoch
  <2>3. waiting' = {}
    BY <1>2 DEF ScanReadsEpoch, scanVars, Inv, ScanInv
  <2>4. MemoryInv'
    BY <1>2, <2>2 DEF ScanReadsEpoch, Inv, MemoryInv, TypeOK
  <2>5. ScanInv' /\ NoClaimOutlivesItsClear'
    BY <1>2, <2>1, <2>3 DEF ScanReadsEpoch, Inv, ScanInv, NoClaimOutlivesItsClear
  <2>6. ReportInv'
    BY <1>0, <1>2, <1>a, <2>1, <2>2 DEF ScanReadsEpoch
  <2> QED
    BY <2>4, <2>5, <2>6 DEF Inv
<1>3. ASSUME NEW n \in Names, NEW answer, ScanReads(n, answer)
      PROVE Inv'
  <2>1. outdated' = outdated \ {<<Scanner, n>>} /\ waiting' \subseteq waiting \cup {n}
    BY <1>3 DEF ScanReads, Captured
  <2>2. ScanInv'
    BY <1>3, <2>1 DEF ScanReads, Inv, ScanInv
  <2>3. MemoryInv' /\ NoClaimOutlivesItsClear'
    BY <1>3 DEF ScanReads, Inv, MemoryInv, NoClaimOutlivesItsClear
  <2>4. ReportInv'
    BY <1>3, <1>a, <2>1 DEF ScanReads
  <2> QED
    BY <2>2, <2>3, <2>4 DEF Inv
<1>4. CASE ScanRunsOut
  BY <1>4, StillStep DEF ScanRunsOut
<1>5. CASE ScanWrites
  <2>1. pc'[Scanner] = "announce" /\ \A r \in Reporters : pc'[r] = pc[r]
    BY <1>0, <1>5 DEF ScanWrites, Goto
  <2>2. MemoryInv' /\ ScanInv'
    BY <1>5, <2>1 DEF ScanWrites, Inv, MemoryInv, ScanInv
  <2>3. NoClaimOutlivesItsClear'
    BY <1>5, ScanWritesNothingUndone DEF NoClaimOutlivesItsClear
  <2>4. ReportInv'
    <3>1. undone' = undone
      BY <1>5, ScanWritesNothingUndone DEF Inv, NoClaimOutlivesItsClear
    <3> QED
      BY <1>5, <1>a, <2>1, <3>1 DEF ScanWrites, Forgotten
  <2> QED
    BY <2>2, <2>3, <2>4 DEF Inv
<1>6. ASSUME NEW n \in Names, ScanAnnounces(n) PROVE Inv'
  BY <1>6, StillStep DEF ScanAnnounces
<1>7. CASE ScanEnds
  <2>1. pc'[Scanner] = "idle" /\ \A r \in Reporters : pc'[r] = pc[r]
    BY <1>0, <1>7 DEF ScanEnds, Goto
  <2>2. MemoryInv' /\ ScanInv' /\ NoClaimOutlivesItsClear'
    BY <1>7, <2>1 DEF ScanEnds, Inv, MemoryInv, ScanInv, NoClaimOutlivesItsClear
  <2>3. ReportInv'
    BY <1>7, <1>a, <2>1 DEF ScanEnds
  <2> QED
    BY <2>2, <2>3 DEF Inv
<1> QED
  BY <1>1, <1>2, <1>3, <1>4, <1>5, <1>6, <1>7
     DEF Scan, ScanCaptures, ScanCannotCapture

LEMMA ReadsEpochKeepsInv ==
  ASSUME Inv, TypeOK', NEW r \in Reporters, ReportReadsEpoch(r) PROVE Inv'
<1> USE DEF memoryVars, scanVars, historyVars
<1>0. /\ r \in Procs /\ r # Scanner /\ Scanner \in Procs
      /\ Reporters \subseteq Procs /\ subject[r] \in Names
  BY DEF Procs, ReportReadsEpoch, Inv, TypeOK
<1>1. /\ pc'[r] = "capture" /\ \A q \in Procs \ {r} : pc'[q] = pc[q]
      /\ seen'[r] = epoch /\ \A q \in Procs \ {r} : seen'[q] = seen[q]
  BY <1>0 DEF ReportReadsEpoch, Goto, Inv, TypeOK
<1>2. MemoryInv'
  BY <1>1 DEF ReportReadsEpoch, Inv, MemoryInv, TypeOK
<1>3. ScanInv' /\ NoClaimOutlivesItsClear'
  BY <1>0, <1>1 DEF ReportReadsEpoch, Inv, ScanInv, NoClaimOutlivesItsClear
<1>4. cleared[subject[r]] <= epoch
  BY <1>0 DEF Inv, MemoryInv
<1>5. ReportInv'
  BY <1>0, <1>1, <1>4 DEF ReportReadsEpoch, Inv, ReportInv
<1> QED
  BY <1>2, <1>3, <1>5 DEF Inv

LEMMA CapturesKeepsInv ==
  ASSUME Inv, TypeOK', NEW r \in Reporters, ReportCaptures(r) PROVE Inv'
<1> USE DEF memoryVars, scanVars, localVars
<1>0. r \in Procs /\ r # Scanner /\ Scanner \in Procs /\ Reporters \subseteq Procs
  BY DEF Procs
<1>1. \A q \in Procs \ {r} : pc'[q] = pc[q]
  BY <1>0 DEF ReportCaptures, Goto, Inv, TypeOK
<1>2. outdated' = outdated \ {<<r, subject[r]>>}
  BY DEF ReportCaptures, Captured
<1>3. MemoryInv' /\ NoClaimOutlivesItsClear'
  BY DEF ReportCaptures, Inv, MemoryInv, NoClaimOutlivesItsClear
<1>4. ScanInv'
  BY <1>0, <1>1, <1>2 DEF ReportCaptures, Inv, ScanInv
<1>5. ReportInv'
  BY <1>0, <1>1, <1>2 DEF ReportCaptures, Inv, ReportInv
<1> QED
  BY <1>3, <1>4, <1>5 DEF Inv

\* Nor does a report.
LEMMA ReportFlagsNothingUndone ==
  ASSUME Inv, NEW r \in Reporters, ReportFlags(r) PROVE undone' = {}
<1>1. ~(StillHolds(r) /\ <<r, subject[r]>> \in outdated)
  <2> SUFFICES ASSUME StillHolds(r), <<r, subject[r]>> \in outdated PROVE FALSE
    OBVIOUS
  <2>1. seen[r] < cleared[subject[r]]
    BY DEF Inv, ReportInv, ReportFlags
  <2>2. subject[r] \in Names /\ r \in Procs
    BY DEF ReportFlags, Inv, TypeOK, Procs
  <2>3. seen[r] \in Nat /\ cleared[subject[r]] \in Nat
    BY <2>2 DEF Inv, TypeOK
  <2> QED
    BY <2>1, <2>3 DEF StillHolds
<1> QED
  BY <1>1 DEF ReportFlags, Inv, NoClaimOutlivesItsClear

LEMMA ReportKeepsInv ==
  ASSUME Inv, TypeOK', NEW r \in Reporters, Report(r) PROVE Inv'
<1> USE DEF memoryVars, scanVars, historyVars, localVars
<1>1. CASE ReportReadsEpoch(r)
  BY <1>1, ReadsEpochKeepsInv
<1>2. CASE ReportCaptures(r)
  BY <1>2, CapturesKeepsInv
<1>3. CASE SecondLookEnds(r)
  BY <1>3, GoesOnQuietly DEF SecondLookEnds, Forgotten
<1>4. CASE SecondLookDoesNot(r) \/ SecondLookOutlived(r)
  <2>1. PICK to \in {"get", "flag"} : Goto(r, to)
    BY <1>4 DEF SecondLookDoesNot, SecondLookOutlived
  <2>2. \A q \in Procs \ {r} : pc'[q] = pc[q]
    BY <2>1 DEF Goto, Inv, TypeOK
  <2>3. pc[r] = "second" /\ Scanner # r /\ Scanner \in Procs
          /\ Reporters \subseteq Procs
    BY <1>4 DEF SecondLookDoesNot, SecondLookOutlived, Procs
  <2>4. MemoryInv' /\ NoClaimOutlivesItsClear' /\ ScanInv'
    BY <1>4, <2>2, <2>3 DEF SecondLookDoesNot, SecondLookOutlived, Inv, MemoryInv,
                            ScanInv, NoClaimOutlivesItsClear
  <2>5. ReportInv'
    BY <1>4, <2>2, <2>3 DEF SecondLookDoesNot, SecondLookOutlived, Inv, ReportInv
  <2> QED
    BY <2>4, <2>5 DEF Inv
<1>5. CASE ReportFlags(r)
  <2>1. undone' = undone
    BY <1>5, ReportFlagsNothingUndone DEF Inv, NoClaimOutlivesItsClear
  <2> QED
    BY <1>5, <2>1, GoesOnQuietly DEF ReportFlags, Forgotten
<1>6. CASE Gets(r)
  BY <1>6, GoesOnQuietly DEF Gets
<1>7. CASE CannotGet(r)
  BY <1>7, LeaveQuietly DEF CannotGet
<1>8. CASE Publishes(r)
  BY <1>8, LeaveQuietly DEF Publishes
<1> QED
  BY <1>1, <1>2, <1>3, <1>4, <1>5, <1>6, <1>7, <1>8 DEF Report

LEMMA TakingUpKeepsInv ==
  ASSUME Inv, TypeOK', NEW n \in Names, ExpiryTakesUp(n) \/ WrapUpMovesOn(n)
  PROVE  Inv'
<1> USE DEF memoryVars, scanVars, historyVars, localVars
<1>1. CASE ExpiryTakesUp(n)
  <2>1. \A q \in Procs \ {Expiry} : subject'[q] = subject[q]
    BY <1>1 DEF ExpiryTakesUp, About, Inv, TypeOK
  <2> QED
    BY <1>1, <2>1, GoesOnQuietly DEF ExpiryTakesUp
<1>2. CASE WrapUpMovesOn(n)
  <2>1. \A q \in Procs \ {Wrapper} : subject'[q] = subject[q]
    BY <1>2 DEF WrapUpMovesOn, About, Inv, TypeOK
  <2>2. PICK to \in {"get", "epoch"} : Goto(Wrapper, to)
    BY <1>2 DEF WrapUpMovesOn
  <2> QED
    BY <1>2, <2>1, <2>2, GoesOnQuietly DEF WrapUpMovesOn
<1> QED
  BY <1>1, <1>2

\* The step the invariant is about: whoever holds a screen of the row is
\* behind the epoch of the clear, and whoever read the epoch is crossed.
LEMMA ForgetsKeepsInv ==
  ASSUME Inv, TypeOK', NEW h \in Hands, Forgets(h) PROVE Inv'
<1> USE DEF scanVars, localVars
<1> DEFINE n == subject[h]
<1>0. /\ h \in Procs /\ Scanner \in Procs /\ h # Scanner /\ h \notin Reporters
      /\ Reporters \subseteq Procs /\ pc[h] # "idle"
  BY DEF Procs, Forgets
<1>1. n \in Names
  BY <1>0 DEF Inv, TypeOK
<1>2. \A q \in Procs \ {h} : pc'[q] = pc[q]
  BY DEF Forgets, Goto, Inv, TypeOK
<1>3. /\ epoch' = epoch + 1 /\ cleared'[n] = epoch + 1
      /\ \A m \in Names \ {n} : cleared'[m] = cleared[m]
      /\ epoch \in Nat /\ seen \in [Procs -> Nat] /\ cleared \in [Names -> Nat]
  BY <1>1 DEF Forgets, ForgetAttention, Inv, TypeOK
<1>4. /\ seen' = seen /\ subject' = subject /\ waiting' = waiting
      /\ outdated' = outdated \cup (Holding(n) \X {n})
      /\ crossed' = crossed \cup Reading(n)
  BY DEF Forgets
<1>5. \A p \in Procs : seen[p] < epoch'
  BY <1>3 DEF Inv, MemoryInv
<1>6. MemoryInv'
  BY <1>3, <1>4, <1>5 DEF Inv, MemoryInv
<1>7. ScanInv'
  BY <1>0, <1>2, <1>4, <1>5 DEF Inv, ScanInv
<1>8. ReportInv'
  <2> SUFFICES ASSUME NEW r \in Reporters
               PROVE  /\ pc'[r] \in {"capture", "second", "flag"} /\ r \notin crossed'
                           => cleared'[subject'[r]] <= seen'[r]
                      /\ pc'[r] \in {"second", "flag"}
                           /\ <<r, subject'[r]>> \in outdated'
                           => seen'[r] < cleared'[subject'[r]]
    BY DEF ReportInv
  <2>1. pc'[r] = pc[r] /\ r \in Procs /\ seen[r] < epoch + 1
    BY <1>0, <1>2, <1>3, <1>5
  <2>2. CASE pc[r] \in {"capture", "second", "flag"}
    <3>1. subject[r] \in Names
      BY <2>1, <2>2, <1>0 DEF Inv, TypeOK
    <3>2. CASE subject[r] = n
      BY <1>3, <1>4, <2>1, <2>2, <3>2 DEF Reading
    <3>3. CASE subject[r] # n
      <4>1. <<r, subject[r]>> \in outdated' => <<r, subject[r]>> \in outdated
        BY <1>4, <3>3
      <4> QED
        BY <1>3, <1>4, <2>1, <2>2, <3>1, <3>3, <4>1 DEF Inv, ReportInv
    <3> QED
      BY <3>2, <3>3
  <2> QED
    BY <2>1, <2>2
<1>9. NoClaimOutlivesItsClear'
  BY DEF Forgets, Inv, NoClaimOutlivesItsClear
<1> QED
  BY <1>6, <1>7, <1>8, <1>9 DEF Inv

LEMMA HandKeepsInv == ASSUME Inv, TypeOK', NEW h \in Hands, Hand(h) PROVE Inv'
<1> USE DEF memoryVars, scanVars, historyVars, localVars
<1>1. CASE Forgets(h)
  BY <1>1, ForgetsKeepsInv
<1>2. CASE StopClaims(h)
  BY <1>2, GoesOnQuietly DEF StopClaims
<1>3. CASE StopAsksNobody(h)
  BY <1>3, LeaveQuietly DEF StopAsksNobody
<1>4. CASE StopTypes(h)
  BY <1>4, GoesOnQuietly DEF StopTypes
<1>5. CASE StopRefused(h)
  BY <1>5, LeaveQuietly DEF StopRefused
<1>6. CASE StartSpawns(h)
  BY <1>6, GoesOnQuietly DEF StartSpawns
<1>7. CASE StartFails(h)
  BY <1>7, LeaveQuietly DEF StartFails
<1>8. CASE Gets(h)
  BY <1>8, GoesOnQuietly DEF Gets
<1>9. CASE CannotGet(h)
  BY <1>9, LeaveQuietly DEF CannotGet
<1>10. CASE Publishes(h)
  BY <1>10, LeaveQuietly DEF Publishes
<1> QED
  BY <1>1, <1>2, <1>3, <1>4, <1>5, <1>6, <1>7, <1>8, <1>9, <1>10 DEF Hand

LEMMA PressKeepsInv ==
  ASSUME Inv, TypeOK', NEW h \in Hands, NEW n \in Names, Stop(h, n) \/ Start(h, n)
  PROVE  Inv'
<1>1. PICK to \in {"forgetStop", "forgetStart"} : Goto(h, to)
  BY DEF Stop, Start
<1>2. Press(h, n)
  BY DEF Stop, Start
<1>3. \A q \in Procs \ {h} : subject'[q] = subject[q]
  BY <1>2 DEF Press, Inv, TypeOK
<1> QED
  BY <1>1, <1>2, <1>3, GoesOnQuietly DEF Press, memoryVars, scanVars, historyVars

LEMMA InvInit == Init => Inv
<1> SUFFICES ASSUME Init PROVE Inv
  OBVIOUS
<1>1. TypeOK
  BY TypeInit
<1>2. MemoryInv
  BY DEF Init, MemoryInv
<1>3. ScanInv /\ ReportInv
  BY DEF Init, ScanInv, ReportInv, Procs
<1> QED
  BY <1>1, <1>2, <1>3 DEF Init, Inv, NoClaimOutlivesItsClear

LEMMA InvStep == Inv /\ [Next]_vars => Inv'
<1> SUFFICES ASSUME Inv, [Next]_vars PROVE Inv'
  OBVIOUS
<1>0. TypeOK'
  BY TypeStep DEF Inv
<1>1. CASE World
  BY <1>0, <1>1, WorldKeepsInv
<1>2. CASE Scan
  BY <1>0, <1>2, ScanKeepsInv
<1>3. CASE Expire
  <2>1. CASE \E S \in SUBSET asked : StopsExpire(S)
    BY <1>0, <2>1, StillStep DEF StopsExpire, memoryVars, localVars, scanVars,
                                 historyVars
  <2>2. CASE \E n \in Names : ExpiryTakesUp(n)
    BY <1>0, <2>2, TakingUpKeepsInv
  <2> QED
    BY <1>3, <2>1, <2>2 DEF Expire
<1>4. CASE \E n \in Names : WrapUpMovesOn(n)
  BY <1>0, <1>4, TakingUpKeepsInv
<1>5. CASE \E r \in Reporters : Report(r)
  BY <1>0, <1>5, ReportKeepsInv
<1>6. CASE \E h \in Hands : Hand(h)
  BY <1>0, <1>6, HandKeepsInv
<1>7. CASE \E h \in Hands, n \in Names : Stop(h, n) \/ Start(h, n)
  BY <1>0, <1>7, PressKeepsInv
<1>8. CASE UNCHANGED vars
  BY <1>0, <1>8, StillStep DEF vars, memoryVars, localVars, scanVars, historyVars
<1> QED
  BY <1>1, <1>2, <1>3, <1>4, <1>5, <1>6, <1>7, <1>8 DEF Next

\* Stop and Start clear a claim for good: what was captured before cannot
\* bring it back, whoever captured it and whenever it writes.
THEOREM ClaimsStayCleared == Spec => []NoClaimOutlivesItsClear
<1>1. Inv => NoClaimOutlivesItsClear
  BY DEF Inv
<1> QED
  BY <1>1, InvInit, InvStep, PTL DEF Spec

\* A report leaves its flag only by raising it or by `_flag_waiting` refusing.
LEMMA FlagIsLeftByFlagging ==
  ASSUME TypeOK, NEW r \in Reporters, pc[r] = "flag", pc'[r] # "flag", Next
  PROVE  ReportFlags(r)
<1>0. /\ r \in Procs /\ r # Scanner /\ r \notin Hands /\ Scanner \in Procs
      /\ Reporters \subseteq Procs /\ Hands \subseteq Procs
  BY DEF Procs
<1>1. ASSUME NEW p \in Procs \ {r}, NEW to, Goto(p, to) PROVE FALSE
  BY <1>0, <1>1 DEF Goto, TypeOK
<1>2. ASSUME NEW p \in Procs \ {r}, Leave(p) PROVE FALSE
  BY <1>1, <1>2 DEF Leave
<1>3. ~World
  BY DEF World, ScreenChanges, LinkChanges, GrowsUp, AgentGoes, TimeToLive,
         Connects, Disconnects
<1>4. ~Scan
  BY <1>0, <1>1 DEF Scan, ScanLooks, ScanReadsEpoch, ScanCaptures,
     ScanCannotCapture, ScanReads, ScanRunsOut, ScanWrites, ScanAnnounces, ScanEnds
<1>5. ~Expire
  BY <1>0, <1>1 DEF Expire, StopsExpire, ExpiryTakesUp
<1>6. \A n \in Names : ~WrapUpMovesOn(n)
  BY <1>0, <1>1 DEF WrapUpMovesOn
<1>7. \A h \in Hands : ~Hand(h)
  BY <1>0, <1>1, <1>2 DEF Hand, Forgets, StopClaims, StopAsksNobody, StopTypes,
     StopRefused, StartSpawns, StartFails, Gets, CannotGet, Publishes
<1>8. \A h \in Hands, n \in Names : ~(Stop(h, n) \/ Start(h, n))
  BY <1>0, <1>1 DEF Stop, Start
<1>9. \A q \in Reporters \ {r} : ~Report(q)
  BY <1>0, <1>1, <1>2 DEF Report, ReportReadsEpoch, ReportCaptures,
     SecondLookEnds, SecondLookOutlived, SecondLookDoesNot, ReportFlags, Gets, CannotGet, Publishes
<1>10. Report(r)
  BY <1>3, <1>4, <1>5, <1>6, <1>7, <1>8, <1>9 DEF Next
<1> QED
  BY <1>10 DEF Report, ReportReadsEpoch, ReportCaptures, SecondLookEnds, Goto,
     SecondLookOutlived, SecondLookDoesNot, Gets, CannotGet, Publishes

\* A report that nobody pressed a button against sets its flag: a press on
\* another project, however many there are, does not cost it.
THEOREM ReportsAreKept == Spec => ReportOutlivesOthersPresses
<1>1. ASSUME Inv, [Next]_vars, NEW r \in Reporters,
             pc[r] = "flag", pc'[r] # "flag", r \notin crossed
      PROVE  subject[r] \in awaiting'
  <2>1. Next
    BY <1>1 DEF vars
  <2>2. ReportFlags(r)
    BY <1>1, <2>1, FlagIsLeftByFlagging DEF Inv
  <2>3. StillHolds(r)
    BY <1>1 DEF Inv, ReportInv, StillHolds
  <2> QED
    BY <2>2, <2>3 DEF ReportFlags
<1>2. Inv /\ [Next]_vars =>
        [\A r \in Reporters :
           pc[r] = "flag" /\ pc'[r] # "flag" /\ r \notin crossed
             => subject[r] \in awaiting']_vars
  BY <1>1
<1> QED
  BY <1>2, InvInit, InvStep, PTL DEF Spec, ReportOutlivesOthersPresses
=============================================================================
