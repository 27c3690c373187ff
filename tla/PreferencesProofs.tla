------------------------- MODULE PreferencesProofs -------------------------
(***************************************************************************)
(* What Preferences promises for any number of requests, labels and        *)
(* values: what is in force is what is on disk, and what a request was     *)
(* answered stays chosen.                                                  *)
(*                                                                         *)
(* The guard is what carries it: the request that holds it merged over a   *)
(* choice nobody has changed since (MergedInv), so what it puts in force   *)
(* differs from what was in force in what it asked for and in nothing      *)
(* else.  DiskInv says when the file agrees, KeptInv what is still owed.   *)
(***************************************************************************)
EXTENDS Preferences, TLAPS

USE PreferencesAssumption

GuardInv ==
  /\ \A t \in Threads :
       at[t] \in {"writes", "renames", "applies", "fails"} <=> guard = t
  /\ ~up => \A t \in Threads : at[t] = "idle"

MergedInv ==
  /\ \A t \in Threads :
       at[t] \in {"asks", "writes", "renames", "applies"} => Accepted(patch[t])
  /\ \A t \in Threads :
       at[t] \in {"writes", "renames", "applies"} => merged[t] = Over(chosen, patch[t])

DiskInv ==
  /\ up /\ untouched /\ (\A t \in Threads : at[t] # "applies") =>
       Recorded(chosen) = Recorded(Loaded)
  /\ \A t \in Threads :
       at[t] = "applies" /\ untouched => Recorded(merged[t]) = Recorded(Loaded)

Kept(f) ==
  /\ f \in Labels => f \in config.configured
  /\ up => ValueOf(chosen, f) = owed[f]
  /\ ValueOf(Loaded, f) = owed[f]

KeptInv ==
  /\ \A f \in Fields : owed[f] # "any" => Kept(f)
  /\ \A t \in Threads : at[t] = "applies" =>
       \A f \in Fields : Changes(patch[t], f) => owed[f] = "any"
  /\ \A t \in Threads : at[t] = "renames" /\ shared => \A f \in Fields : owed[f] = "any"

IInv == TypeOK /\ GuardInv /\ MergedInv /\ DiskInv /\ KeptInv

-----------------------------------------------------------------------------
(* Choices and files.                                                      *)

LEMMA OverTyped ==
  ASSUME config \in Operators, NEW c \in Choices, NEW p, Accepted(p)
  PROVE  Over(c, p) \in Choices
<1>1. p.hide \subseteq Labels
  BY DEF Accepted
<1>2. p.timeout \in Timeouts \cup {None} /\ p.policy \in Policies \cup {None}
  BY DEF Accepted
<1> QED
  BY <1>1, <1>2 DEF Over, Choice, Choices

LEMMA OverSame ==
  ASSUME NEW c, NEW p, NEW f \in Fields, ~Changes(p, f)
  PROVE  ValueOf(Over(c, p), f) = ValueOf(c, f)
<1>1. CASE f = "timeout"
  BY <1>1 DEF Changes, ValueOf, Over, Choice
<1>2. CASE f = "policy"
  BY <1>2 DEF Changes, ValueOf, Over, Choice
<1>3. CASE f \notin {"timeout", "policy"}
  BY <1>3 DEF Changes, ValueOf, Over, Choice
<1> QED
  BY <1>1, <1>2, <1>3

LEMMA LoadedTyped ==
  ASSUME TypeOK
  PROVE  Loaded \in Choices
  BY DEF TypeOK, Loaded, Files, Choices, Choice, NoChoice, Valid

LEMMA LoadedSame ==
  ASSUME UNCHANGED <<disk, shared>>
  PROVE  UNCHANGED Loaded
  BY DEF Loaded

LEMMA RecordedTwice ==
  ASSUME NEW c \in Choices
  PROVE  Recorded(Recorded(c)) = Recorded(c)
  BY DEF Recorded, Choices

LEMMA RecordedLoaded ==
  ASSUME NEW c \in Choices, disk' = File("toml", Recorded(c)), ~shared'
  PROVE  Loaded' = Recorded(c)
<1>1. /\ disk'.is = "toml" /\ disk'.hidden = Recorded(c).hidden
      /\ disk'.timeout = Recorded(c).timeout /\ disk'.policy = Recorded(c).policy
  BY DEF File
<1>2. Recorded(c) = Choice(c.hidden \cap config.configured, c.timeout, c.policy)
  BY DEF Recorded, Choices, Choice
<1>3. Loaded' = Choice(disk'.hidden, Valid(disk'.timeout, Timeouts), Valid(disk'.policy, Policies))
  BY <1>1 DEF Loaded
<1>4. Valid(c.timeout, Timeouts) = c.timeout /\ Valid(c.policy, Policies) = c.policy
  BY DEF Valid, Choices
<1>5. /\ Recorded(c).hidden = c.hidden \cap config.configured
      /\ Recorded(c).timeout = c.timeout /\ Recorded(c).policy = c.policy
  BY <1>2 DEF Choice
<1> QED
  BY <1>1, <1>2, <1>3, <1>4, <1>5

LEMMA RecordedValue ==
  ASSUME NEW a \in Choices, NEW b \in Choices, Recorded(a) = Recorded(b),
         NEW f \in Fields, f \in Labels => f \in config.configured
  PROVE  ValueOf(a, f) = ValueOf(b, f)
<1>1. /\ a.hidden \cap config.configured = b.hidden \cap config.configured
      /\ a.timeout = b.timeout /\ a.policy = b.policy
  BY DEF Recorded, Choices
<1>2. CASE f \in {"timeout", "policy"}
  BY <1>1, <1>2 DEF ValueOf
<1>3. CASE f \notin {"timeout", "policy"}
  BY <1>1, <1>3 DEF ValueOf, Fields
<1> QED
  BY <1>2, <1>3

LEMMA AskedAreConfigured ==
  ASSUME NEW p, Accepted(p), NEW f \in Fields, Changes(p, f)
  PROVE  f \in Labels => f \in config.configured
  BY DEF Accepted, Changes

-----------------------------------------------------------------------------
(* Types.                                                                  *)

LEMMA TypeStep ==
  ASSUME TypeOK, MergedInv, [Next]_vars
  PROVE  TypeOK'
<1> USE DEF fileVars, prefVars, requestVars, historyVars, bounds
<1>1. ASSUME NEW t \in Threads, Request(t) PROVE TypeOK'
  BY <1>1 DEF Request, Goto, TypeOK
<1>2. ASSUME NEW t \in Threads, Merge(t) PROVE TypeOK'
  <2>1. Over(chosen, patch[t]) \in Choices
    BY <1>2, OverTyped DEF Merge, MergedInv, TypeOK
  <2> QED
    BY <1>2, <2>1 DEF Merge, Goto, TypeOK
<1>3. ASSUME NEW t \in Threads, Writes(t) PROVE TypeOK'
  BY <1>3 DEF Writes, Goto, TypeOK
<1>4. ASSUME NEW t \in Threads, Renames(t) PROVE TypeOK'
  <2>1. merged[t] \in Choices
    BY DEF TypeOK
  <2>2. File("toml", Recorded(merged[t])) \in Files
    BY <2>1 DEF File, Recorded, Choices, Files
  <2> QED
    BY <1>4, <2>2 DEF Renames, Goto, TypeOK
<1>5. ASSUME NEW t \in Threads, Applies(t) PROVE TypeOK'
  BY <1>5 DEF Applies, Goto, TypeOK
<1> NoChoice \in Choices
  BY DEF NoChoice, Choice, Choices
<1>6. ASSUME NEW t \in Threads, Fails(t) PROVE TypeOK'
  BY <1>6 DEF Fails, Done, Goto, TypeOK
<1>7. ASSUME NEW t \in Threads, Looks(t) PROVE TypeOK'
  BY <1>7 DEF Looks, Done, Goto, TypeOK
<1>8. ASSUME NEW t \in Threads, Reads(t) PROVE TypeOK'
  BY <1>8 DEF Reads, Done, Goto, TypeOK
<1>9. CASE Starts
  BY <1>9, LoadedTyped DEF Starts, TypeOK
<1>10. CASE Dies
  BY <1>10 DEF Dies, TypeOK
<1>11. CASE OperatorEdits
  BY <1>11 DEF OperatorEdits, TypeOK
<1>12. CASE FileEdited
  BY <1>12 DEF FileEdited, Touched, TypeOK, Files
<1>13. CASE DirectoryShared
  BY <1>13 DEF DirectoryShared, Touched, TypeOK
<1>14. CASE UNCHANGED vars
  BY <1>14 DEF vars, TypeOK
<1> QED
  BY <1>1, <1>2, <1>3, <1>4, <1>5, <1>6, <1>7, <1>8, <1>9, <1>10, <1>11, <1>12, <1>13, <1>14
     DEF Next, RequestStep

-----------------------------------------------------------------------------
(* A request that moves on without touching a file, a choice or a debt.    *)

LEMMA Moved ==
  ASSUME TypeOK, NEW t \in Threads, NEW step, Goto(t, step)
  PROVE  \A u \in Threads : at'[u] = IF u = t THEN step ELSE at[u]
  BY DEF Goto, TypeOK

LEMMA Aside ==
  ASSUME TypeOK, DiskInv, KeptInv, NEW t \in Threads, NEW step, Goto(t, step),
         at[t] # "applies", step # "applies", step = "renames" => ~shared,
         UNCHANGED <<disk, shared, up, config, chosen, owed, untouched>>,
         \A u \in Threads : u # t => patch'[u] = patch[u] /\ merged'[u] = merged[u]
  PROVE  DiskInv' /\ KeptInv'
<1>1. UNCHANGED Loaded
  BY LoadedSame
<1>2. DiskInv'
  BY <1>1, Moved DEF DiskInv, Recorded
<1>3. KeptInv'
  BY <1>1, Moved DEF KeptInv, Kept
<1> QED
  BY <1>2, <1>3

LEMMA DoneMoves ==
  ASSUME TypeOK, NEW t \in Threads, Done(t)
  PROVE  /\ Goto(t, "idle")
         /\ \A u \in Threads : u # t => patch'[u] = patch[u] /\ merged'[u] = merged[u]
<1>1. Goto(t, "idle") /\ merged' = [merged EXCEPT ![t] = NoChoice]
      /\ patch' = [patch EXCEPT ![t] = NoPatch]
  BY DEF Done
<1>2. merged \in [Threads -> Choices]
  BY DEF TypeOK
<1> QED
  BY <1>1, <1>2

LEMMA HolderIsOne ==
  ASSUME GuardInv, NEW t \in Threads, at[t] \in {"writes", "renames", "applies", "fails"}
  PROVE  /\ guard = t /\ up
         /\ \A u \in Threads : at[u] \in {"writes", "renames", "applies", "fails"} => u = t
  BY DEF GuardInv

-----------------------------------------------------------------------------
(* One lemma per action.                                                   *)

Inv == GuardInv /\ MergedInv /\ DiskInv /\ KeptInv

LEMMA RequestKeeps ==
  ASSUME IInv, NEW t \in Threads, Request(t)
  PROVE  Inv'
<1> USE DEF IInv
<1>1. UNCHANGED <<disk, shared, up, config, chosen, guard, owed, untouched, merged>>
  BY DEF Request, fileVars, prefVars, historyVars
<1>2. PICK p \in Patches :
        IF Accepted(p)
          THEN Goto(t, "asks") /\ patch' = [patch EXCEPT ![t] = p]
          ELSE UNCHANGED <<at, patch>>
  BY DEF Request
<1>3. CASE ~ Accepted(p)
  BY <1>1, <1>2, <1>3, LoadedSame DEF Inv, GuardInv, MergedInv, DiskInv, KeptInv, Kept, Recorded, Accepted
<1>4. CASE Accepted(p)
  <2>1. at[t] = "idle" /\ up
    BY DEF Request
  <2>2. \A u \in Threads : at'[u] = IF u = t THEN "asks" ELSE at[u]
    BY <1>2, <1>4, Moved
  <2>3. \A u \in Threads : patch'[u] = IF u = t THEN p ELSE patch[u]
    BY <1>2, <1>4 DEF TypeOK
  <2>4. GuardInv'
    BY <1>1, <2>1, <2>2 DEF GuardInv
  <2>5. MergedInv'
    BY <1>1, <1>4, <2>2, <2>3 DEF MergedInv, Accepted
  <2> QED
    BY <1>1, <1>2, <1>4, <2>1, <2>3, <2>4, <2>5, Aside DEF Inv
<1> QED
  BY <1>3, <1>4

LEMMA MergeKeeps ==
  ASSUME IInv, NEW t \in Threads, Merge(t)
  PROVE  Inv'
<1> USE DEF IInv
<1> DEFINE new == Over(chosen, patch[t])
<1>1. UNCHANGED <<disk, shared, up, config, chosen, patch, untouched>>
  BY DEF Merge, fileVars
<1>2. at[t] = "asks" /\ guard = NoThread /\ up
  BY DEF Merge, GuardInv
<1>3. \A u \in Threads : at[u] \notin {"writes", "renames", "applies", "fails"}
  BY <1>2 DEF GuardInv
<1>4. Accepted(patch[t])
  BY <1>2 DEF MergedInv
<1>5. UNCHANGED Loaded
  BY <1>1, LoadedSame
<1>6. CASE new = chosen
  <2>1. /\ UNCHANGED <<guard, merged>> /\ owed' = Owed(patch[t], chosen)
        /\ \A u \in Threads : at'[u] = IF u = t THEN "answers" ELSE at[u]
    BY <1>6, Moved DEF Merge
  <2>2. GuardInv'
    BY <1>1, <1>2, <2>1 DEF GuardInv
  <2>3. MergedInv'
    BY <1>1, <2>1 DEF MergedInv, Accepted
  <2>4. DiskInv'
    BY <1>1, <1>3, <1>5, <2>1 DEF DiskInv, Recorded
  <2>5. ASSUME NEW f \in Fields, owed'[f] # "any" PROVE Kept(f)'
    <3>1. owed'[f] = IF untouched /\ Changes(patch[t], f) THEN ValueOf(chosen, f) ELSE owed[f]
      BY <2>1 DEF Owed
    <3>2. CASE untouched /\ Changes(patch[t], f)
      <4>1. f \in Labels => f \in config.configured
        BY <1>4, <3>2, AskedAreConfigured
      <4>2. Recorded(chosen) = Recorded(Loaded)
        BY <1>2, <1>3, <3>2 DEF DiskInv
      <4>3. ValueOf(chosen, f) = ValueOf(Loaded, f)
        BY <4>1, <4>2, RecordedValue, LoadedTyped DEF TypeOK
      <4> QED
        BY <1>1, <1>5, <3>1, <3>2, <4>1, <4>3 DEF Kept
    <3>3. CASE ~ (untouched /\ Changes(patch[t], f))
      BY <1>1, <1>5, <2>5, <3>1, <3>3 DEF Kept, KeptInv
    <3> QED
      BY <3>2, <3>3
  <2> QED
    BY <1>3, <2>1, <2>2, <2>3, <2>4, <2>5 DEF Inv, KeptInv
<1>7. CASE new # chosen
  <2>1. /\ guard' = t /\ UNCHANGED owed
        /\ \A u \in Threads : at'[u] = IF u = t THEN "writes" ELSE at[u]
        /\ \A u \in Threads : merged'[u] = IF u = t THEN new ELSE merged[u]
    <3> HIDE DEF new
    <3> QED
      BY <1>7, Moved DEF Merge, TypeOK, new
  <2>2. GuardInv'
    BY <1>1, <1>2, <1>3, <2>1 DEF GuardInv
  <2>3. MergedInv'
    BY <1>1, <1>3, <1>4, <2>1 DEF MergedInv, Accepted
  <2>4. DiskInv'
    BY <1>1, <1>3, <1>5, <2>1 DEF DiskInv, Recorded
  <2>5. KeptInv'
    BY <1>1, <1>3, <1>5, <2>1 DEF KeptInv, Kept
  <2> QED
    BY <2>2, <2>3, <2>4, <2>5 DEF Inv
<1> QED
  BY <1>6, <1>7

LEMMA WritesKeeps ==
  ASSUME IInv, NEW t \in Threads, Writes(t)
  PROVE  Inv'
<1> USE DEF IInv
<1>1. /\ UNCHANGED <<disk, shared, up, config, chosen, guard, owed, untouched, patch, merged>>
      /\ at[t] = "writes"
  BY DEF Writes, fileVars, prefVars, historyVars
<1>2. PICK step \in {"renames", "fails"} : Goto(t, step) /\ (step = "renames" => ~shared)
  BY DEF Writes
<1>3. \A u \in Threads : at'[u] = IF u = t THEN step ELSE at[u]
  BY <1>2, Moved
<1>4. GuardInv'
  BY <1>1, <1>2, <1>3 DEF GuardInv
<1>5. MergedInv'
  BY <1>1, <1>2, <1>3 DEF MergedInv, Accepted
<1> QED
  BY <1>1, <1>2, <1>4, <1>5, Aside DEF Inv

LEMMA RenamesKeeps ==
  ASSUME IInv, NEW t \in Threads, Renames(t)
  PROVE  Inv'
<1> USE DEF IInv
<1>1. UNCHANGED <<shared, up, config, chosen, guard, patch, merged>> /\ at[t] = "renames"
  BY DEF Renames, prefVars
<1>2. /\ guard = t /\ up
      /\ \A u \in Threads : at[u] \in {"writes", "renames", "applies", "fails"} => u = t
  BY <1>1, HolderIsOne
<1>3. CASE Goto(t, "fails") /\ UNCHANGED <<disk, owed, untouched>>
  <2>1. \A u \in Threads : at'[u] = IF u = t THEN "fails" ELSE at[u]
    BY <1>3, Moved
  <2>2. GuardInv'
    BY <1>1, <2>1 DEF GuardInv
  <2>3. MergedInv'
    BY <1>1, <2>1 DEF MergedInv, Accepted
  <2> QED
    BY <1>1, <1>3, <2>2, <2>3, Aside DEF Inv
<1>4. CASE /\ disk' = File("toml", Recorded(merged[t]))
           /\ owed' = [f \in Fields |-> IF Changes(patch[t], f) THEN "any" ELSE owed[f]]
           /\ untouched' = ~shared
           /\ Goto(t, "applies")
  <2>1. \A u \in Threads : at'[u] = IF u = t THEN "applies" ELSE at[u]
    BY <1>4, Moved
  <2>2. GuardInv'
    BY <1>1, <2>1 DEF GuardInv
  <2>3. MergedInv'
    BY <1>1, <2>1 DEF MergedInv, Accepted
  <2>4. /\ merged[t] \in Choices /\ merged[t] = Over(chosen, patch[t])
        /\ Recorded(merged[t]) \in Choices
    BY <1>1 DEF TypeOK, MergedInv, Recorded, Choices
  <2>5. ~shared => Loaded' = Recorded(merged[t])
    BY <1>1, <1>4, <2>4, RecordedLoaded
  <2>6. DiskInv'
    <3>1. untouched' => Recorded(merged[t]) = Recorded(Loaded')
      BY <1>4, <2>4, <2>5, RecordedTwice
    <3> QED
      BY <1>1, <1>2, <2>1, <3>1 DEF DiskInv, Recorded
  <2>7. ASSUME NEW f \in Fields, owed'[f] # "any" PROVE Kept(f)'
    <3>1. ~ Changes(patch[t], f) /\ owed'[f] = owed[f]
      BY <1>4, <2>7
    <3>2. ~ shared /\ Kept(f)
      BY <1>1, <2>7, <3>1 DEF KeptInv
    <3>3. ValueOf(merged[t], f) = ValueOf(chosen, f)
      BY <2>4, <3>1, OverSame
    <3>4. ValueOf(Recorded(merged[t]), f) = ValueOf(merged[t], f)
      BY <2>4, <3>2, RecordedValue, RecordedTwice DEF Kept
    <3> QED
      BY <1>1, <1>2, <2>5, <3>1, <3>2, <3>3, <3>4 DEF Kept
  <2>8. KeptInv'
    BY <1>1, <1>2, <1>4, <2>1, <2>7 DEF KeptInv
  <2> QED
    BY <2>2, <2>3, <2>6, <2>8 DEF Inv
<1> QED
  BY <1>3, <1>4 DEF Renames

LEMMA AppliesKeeps ==
  ASSUME IInv, NEW t \in Threads, Applies(t)
  PROVE  Inv'
<1> USE DEF IInv
<1>1. /\ UNCHANGED <<disk, shared, up, config, patch, merged, untouched>>
      /\ at[t] = "applies" /\ chosen' = merged[t] /\ guard' = NoThread
      /\ owed' = Owed(patch[t], merged[t])
  BY DEF Applies, fileVars
<1>2. \A u \in Threads : at'[u] = IF u = t THEN "answers" ELSE at[u]
  BY Moved DEF Applies
<1>3. up /\ \A u \in Threads : at[u] \in {"writes", "renames", "applies", "fails"} => u = t
  BY <1>1, HolderIsOne
<1>4. UNCHANGED Loaded
  BY <1>1, LoadedSame
<1>5. GuardInv'
  BY <1>1, <1>2, <1>3 DEF GuardInv
<1>6. MergedInv'
  BY <1>1, <1>2, <1>3 DEF MergedInv, Accepted
<1>7. DiskInv'
  BY <1>1, <1>2, <1>3, <1>4 DEF DiskInv, Recorded
<1>8. ASSUME NEW f \in Fields, owed'[f] # "any" PROVE Kept(f)'
  <2>1. owed'[f] = IF untouched /\ Changes(patch[t], f) THEN ValueOf(merged[t], f) ELSE owed[f]
    BY <1>1 DEF Owed
  <2>2. merged[t] \in Choices /\ merged[t] = Over(chosen, patch[t]) /\ Accepted(patch[t])
    BY <1>1 DEF TypeOK, MergedInv
  <2>3. CASE untouched /\ Changes(patch[t], f)
    <3>1. f \in Labels => f \in config.configured
      BY <2>2, <2>3, AskedAreConfigured
    <3>2. Recorded(merged[t]) = Recorded(Loaded)
      BY <1>1, <2>3 DEF DiskInv
    <3>3. ValueOf(merged[t], f) = ValueOf(Loaded, f)
      BY <2>2, <3>1, <3>2, RecordedValue, LoadedTyped
    <3> QED
      BY <1>1, <1>4, <2>1, <2>3, <3>1, <3>3 DEF Kept
  <2>4. CASE ~ (untouched /\ Changes(patch[t], f))
    <3>1. owed[f] # "any" /\ ~ Changes(patch[t], f)
      BY <1>1, <1>8, <2>1, <2>4 DEF KeptInv
    <3>2. ValueOf(merged[t], f) = ValueOf(chosen, f)
      BY <2>2, <3>1, OverSame
    <3> QED
      BY <1>1, <1>3, <1>4, <2>1, <2>4, <3>1, <3>2 DEF Kept, KeptInv
  <2> QED
    BY <2>3, <2>4
<1>9. KeptInv'
  BY <1>2, <1>3, <1>8 DEF KeptInv
<1> QED
  BY <1>5, <1>6, <1>7, <1>9 DEF Inv

LEMMA FailsKeeps ==
  ASSUME IInv, NEW t \in Threads, Fails(t)
  PROVE  Inv'
<1> USE DEF IInv
<1>1. /\ UNCHANGED <<disk, shared, up, config, chosen, owed, untouched>>
      /\ at[t] = "fails" /\ guard' = NoThread /\ Done(t)
  BY DEF Fails, fileVars, historyVars
<1>2. \A u \in Threads : at'[u] = IF u = t THEN "idle" ELSE at[u]
  BY <1>1, DoneMoves, Moved
<1>3. \A u \in Threads : at[u] \in {"writes", "renames", "applies", "fails"} => u = t
  BY <1>1, HolderIsOne
<1>4. GuardInv'
  BY <1>1, <1>2, <1>3 DEF GuardInv
<1>5. MergedInv'
  BY <1>1, <1>2, DoneMoves DEF MergedInv, Accepted
<1> QED
  BY <1>1, <1>4, <1>5, DoneMoves, Aside DEF Inv

LEMMA AnswerKeeps ==
  ASSUME IInv, NEW t \in Threads, Looks(t) \/ Reads(t)
  PROVE  Inv'
<1> USE DEF IInv
<1>1. /\ UNCHANGED <<disk, shared, up, config, chosen, guard, owed, untouched>>
      /\ at[t] \in {"answers", "reads"}
  BY DEF Looks, Reads, fileVars, prefVars, historyVars
<1>2. PICK step \in {"reads", "idle"} : Goto(t, step)
  BY DEF Looks, Reads, Done
<1>3. \A u \in Threads : u # t => patch'[u] = patch[u] /\ merged'[u] = merged[u]
  BY DoneMoves DEF Looks, Reads
<1>4. \A u \in Threads : at'[u] = IF u = t THEN step ELSE at[u]
  BY <1>2, Moved
<1>5. GuardInv'
  BY <1>1, <1>2, <1>4 DEF GuardInv
<1>6. MergedInv'
  BY <1>1, <1>2, <1>3, <1>4 DEF MergedInv, Accepted
<1> QED
  BY <1>1, <1>2, <1>3, <1>5, <1>6, Aside DEF Inv

LEMMA StartsKeeps ==
  ASSUME IInv, Starts
  PROVE  Inv'
<1> USE DEF IInv
<1>1. /\ UNCHANGED <<disk, shared, guard, at, patch, merged>>
      /\ ~up /\ chosen' = Loaded /\ config' = operator
  BY DEF Starts, fileVars, requestVars
<1>2. \A t \in Threads : at[t] = "idle"
  BY <1>1 DEF GuardInv
<1>3. UNCHANGED Loaded
  BY <1>1, LoadedSame
<1>4. GuardInv' /\ MergedInv' /\ DiskInv'
  BY <1>1, <1>2, <1>3 DEF GuardInv, MergedInv, DiskInv
<1>5. ASSUME NEW f \in Fields, owed'[f] # "any" PROVE Kept(f)'
  <2>1. owed[f] = owed'[f] /\ (f \in Labels => f \in config'.configured)
    BY <1>1, <1>5 DEF Starts
  <2>2. ValueOf(Loaded, f) = owed[f]
    BY <1>5, <2>1 DEF KeptInv, Kept
  <2> QED
    BY <1>1, <1>3, <2>1, <2>2 DEF Kept
<1> QED
  BY <1>1, <1>2, <1>4, <1>5 DEF Inv, KeptInv

LEMMA DiesKeeps ==
  ASSUME IInv, Dies
  PROVE  Inv'
<1> USE DEF IInv
<1>1. /\ UNCHANGED <<disk, shared, config, owed, untouched>> /\ ~up'
      /\ guard' = NoThread /\ \A t \in Threads : at'[t] = "idle"
  BY DEF Dies, fileVars, historyVars
<1>2. UNCHANGED Loaded
  BY <1>1, LoadedSame
<1> QED
  BY <1>1, <1>2 DEF Inv, GuardInv, MergedInv, DiskInv, KeptInv, Kept

LEMMA EditsKeep ==
  ASSUME IInv, OperatorEdits \/ FileEdited \/ DirectoryShared \/ UNCHANGED vars
  PROVE  Inv'
<1> USE DEF IInv
<1>1. UNCHANGED <<up, config, chosen, guard, at, patch, merged>>
  BY DEF OperatorEdits, FileEdited, DirectoryShared, Touched, vars, prefVars, requestVars
<1>2. GuardInv' /\ MergedInv'
  BY <1>1 DEF GuardInv, MergedInv, Accepted
<1>3. CASE UNCHANGED <<disk, shared, owed, untouched>>
  <2>1. UNCHANGED Loaded
    BY <1>3, LoadedSame
  <2> QED
    BY <1>1, <1>2, <1>3, <2>1 DEF Inv, DiskInv, KeptInv, Kept, Recorded
<1>4. CASE ~untouched' /\ owed' = NothingOwed
  BY <1>1, <1>2, <1>4 DEF Inv, DiskInv, KeptInv, NothingOwed
<1> QED
  BY <1>3, <1>4 DEF OperatorEdits, FileEdited, DirectoryShared, Touched, vars, fileVars, historyVars

-----------------------------------------------------------------------------
(* The invariant.                                                          *)

LEMMA InitIInv ==
  ASSUME Init
  PROVE  IInv
<1>1. NoChoice \in Choices /\ disk \in Files
  BY DEF Init, NoChoice, Choice, Choices, File, Files
<1>2. TypeOK
  BY <1>1 DEF Init, TypeOK
<1>3. Loaded = NoChoice
  BY DEF Init, Loaded, File
<1> QED
  BY <1>2, <1>3 DEF Init, IInv, GuardInv, MergedInv, DiskInv, KeptInv, NothingOwed

LEMMA StepIInv ==
  ASSUME IInv, [Next]_vars
  PROVE  IInv'
<1>1. TypeOK'
  BY TypeStep DEF IInv
<1>2. Inv'
  BY RequestKeeps, MergeKeeps, WritesKeeps, RenamesKeeps, AppliesKeeps, FailsKeeps,
     AnswerKeeps, StartsKeeps, DiesKeeps, EditsKeep
     DEF Next, RequestStep
<1> QED
  BY <1>1, <1>2 DEF IInv, Inv

LEMMA AlwaysIInv == Spec => []IInv
  BY InitIInv, StepIInv, PTL DEF Spec

(* The types of every variable; in particular a choice in force is always  *)
(* one the validators let through, whatever is in the file (#265).         *)
THEOREM TypeCorrect == Spec => []TypeOK
<1>1. IInv => TypeOK
  BY DEF IInv
<1> QED
  BY <1>1, AlwaysIInv, PTL

(* `Preferences.update` puts nothing in force that is not on disk, and     *)
(* loses nothing that is, whatever fails and wherever the process dies.    *)
THEOREM ForceIsDisk == Spec => []InForceIsOnDisk
<1>1. IInv => InForceIsOnDisk
  <2> SUFFICES ASSUME IInv, up, untouched, guard = NoThread
               PROVE  Recorded(chosen) = Recorded(Loaded)
    BY DEF InForceIsOnDisk
  <2>1. \A t \in Threads : at[t] # "applies"
    BY DEF IInv, GuardInv
  <2> QED
    BY <2>1 DEF IInv, DiskInv
<1> QED
  BY <1>1, AlwaysIInv, PTL

(* What a request was answered is chosen until a request, or somebody at   *)
(* the files, changes that very thing: over races, failures and restarts.  *)
THEOREM AnswerKept == Spec => []AnsweredIsKept
<1>1. IInv => AnsweredIsKept
  BY DEF IInv, KeptInv, Kept, AnsweredIsKept
<1> QED
  BY <1>1, AlwaysIInv, PTL

=============================================================================
