---------------------------- MODULE Preferences ----------------------------
(***************************************************************************)
(* What the interface has chosen, in force and on disk: `Preferences`,     *)
(* `load_state` and `write_state` of statefile.py, the rule both files are *)
(* read by (settings.py), and `PATCH /api/config` (routes_settings.py).    *)
(*                                                                         *)
(* Requests on several threads; the process, which may die between any two *)
(* steps and reads both files again when it starts; and the operator, who  *)
(* edits either file, and changes who may write where they are.            *)
(***************************************************************************)
EXTENDS FiniteSets, Naturals

CONSTANTS
  Threads, NoThread,
  Labels,                \* labels of roots
  Timeouts, Policies,    \* the values the validators let through
  None,                  \* no choice
  Invalid,               \* a value they refuse
  Patches,               \* bodies: [show, hide, timeout, policy]
  Operators,             \* what the operator's file and flags may say:
                         \* [file, configured, enabled, pinned]
  MaxPatches, MaxEdits, MaxStarts    \* bounds

ASSUME PreferencesAssumption ==
  /\ NoThread \notin Threads
  /\ None \notin Timeouts \cup Policies \cup {Invalid}
  /\ Invalid \notin Timeouts \cup Policies
  /\ "timeout" \notin Labels /\ "policy" \notin Labels
  /\ \A o \in Operators : o.enabled \subseteq o.configured /\ o.configured \subseteq Labels

VARIABLES
  operator,      \* the operator's file and flags, as they are now
  config,        \* as this process read them
  disk,          \* `state.toml`: what it is, and what it says
  shared,        \* others may write to the directory holding it
  up, chosen,    \* the process; `_state`
  guard,         \* who holds `_guard`
  at, patch, merged,     \* each request: its step, its body, its `state`
  owed,          \* history: what the requests so far may count on
  untouched,     \* history: nobody touched `state.toml` or its directory
                 \* since it was read or written
  patches, edits, starts   \* bounds

fileVars == <<operator, disk, shared>>
prefVars == <<up, config, chosen, guard>>
requestVars == <<at, patch, merged>>
historyVars == <<owed, untouched>>
bounds == <<patches, edits, starts>>
vars == <<fileVars, prefVars, requestVars, historyVars, bounds>>

Choice(hidden, timeout, policy) == [hidden |-> hidden, timeout |-> timeout, policy |-> policy]
NoChoice == Choice({}, None, None)
Choices == [hidden : SUBSET Labels, timeout : Timeouts \cup {None}, policy : Policies \cup {None}]
Files == [is : {"missing", "refused", "toml"}, hidden : SUBSET Labels,
          timeout : Timeouts \cup {None, Invalid}, policy : Policies \cup {None, Invalid}]
File(is, choice) ==
  [is |-> is, hidden |-> choice.hidden, timeout |-> choice.timeout, policy |-> choice.policy]

NoPatch == [show |-> {}, hide |-> {}, timeout |-> None, policy |-> None]

(* For each thing a request can choose, what the last request to change it *)
(* left in force, or "any" where one was on its way to the disk and died.  *)
Fields == Labels \cup {"timeout", "policy"}
NothingOwed == [f \in Fields |-> "any"]

Init ==
  /\ operator \in Operators /\ config = operator
  /\ disk = File("missing", NoChoice) /\ shared = FALSE
  /\ up = TRUE /\ chosen = NoChoice /\ guard = NoThread
  /\ at = [t \in Threads |-> "idle"]
  /\ patch = [t \in Threads |-> NoPatch]
  /\ merged = [t \in Threads |-> NoChoice]
  /\ owed = NothingOwed /\ untouched = TRUE
  /\ patches = 0 /\ edits = 0 /\ starts = 0

-----------------------------------------------------------------------------
(* Reading                                                                 *)

(* `load_state`: each field on its own, and a value the validators refuse  *)
(* chooses nothing; a file that is missing, or refused for what it is or   *)
(* for where it is, chooses nothing at all.                                *)
Valid(value, values) == IF value \in values THEN value ELSE None

Loaded ==
  IF disk.is = "toml" /\ ~shared
    THEN Choice(disk.hidden, Valid(disk.timeout, Timeouts), Valid(disk.policy, Policies))
    ELSE NoChoice

(* A start.  The operator's file is under the same rule, and refused it    *)
(* starts nothing; the state file refused it starts with no choice.        *)
Starts ==
  /\ ~up /\ starts < MaxStarts
  /\ shared => ~operator.file
  /\ starts' = starts + 1
  /\ up' = TRUE
  /\ config' = operator
  /\ chosen' = Loaded
  /\ owed' = [f \in Fields |->
               IF f \in Labels /\ f \notin operator.configured THEN "any" ELSE owed[f]]
  /\ untouched' = TRUE
  /\ UNCHANGED <<fileVars, guard, requestVars, patches, edits>>

-----------------------------------------------------------------------------
(* `PATCH /api/config`                                                     *)

(* Everything is checked before anything is written: labels the operator   *)
(* configured, none shown that the operator disabled, nothing pinned, no   *)
(* value the validators refuse.                                            *)
Accepted(p) ==
  /\ p.show \cup p.hide \subseteq config.configured
  /\ p.show \subseteq config.enabled
  /\ p.timeout # None => "timeout" \notin config.pinned /\ p.timeout \in Timeouts
  /\ p.policy # None => "policy" \notin config.pinned /\ p.policy \in Policies

Goto(t, step) == at' = [at EXCEPT ![t] = step]

Request(t) ==
  /\ up /\ at[t] = "idle" /\ patches < MaxPatches
  /\ patches' = patches + 1
  /\ \E p \in Patches :
       IF Accepted(p)
         THEN Goto(t, "asks") /\ patch' = [patch EXCEPT ![t] = p]
         ELSE UNCHANGED <<at, patch>>
  /\ UNCHANGED <<fileVars, prefVars, merged, historyVars, edits, starts>>

(* A mutant: the choice is made anew from what the request says.           *)
Over_Anew(choice, p) == Choice((choice.hidden \cup p.hide) \ p.show, p.timeout, p.policy)

Over(choice, p) ==
  Choice((choice.hidden \cup p.hide) \ p.show,
         IF p.timeout = None THEN choice.timeout ELSE p.timeout,
         IF p.policy = None THEN choice.policy ELSE p.policy)

Changes(p, f) ==
  CASE f = "timeout" -> p.timeout # None
    [] f = "policy" -> p.policy # None
    [] OTHER -> f \in p.show \cup p.hide

ValueOf(choice, f) ==
  CASE f = "timeout" -> choice.timeout
    [] f = "policy" -> choice.policy
    [] OTHER -> IF f \in choice.hidden THEN "hidden" ELSE "shown"

Owed(p, choice) ==
  [f \in Fields |-> IF untouched /\ Changes(p, f) THEN ValueOf(choice, f) ELSE owed[f]]

(* A mutant: two edits may race.                                           *)
Merge_Unguarded(t) ==
  /\ at[t] = "asks"
  /\ LET state == Over(chosen, patch[t]) IN
       \/ /\ state = chosen
          /\ owed' = Owed(patch[t], state)
          /\ Goto(t, "answers")
          /\ UNCHANGED <<guard, merged>>
       \/ /\ state # chosen
          /\ merged' = [merged EXCEPT ![t] = state]
          /\ guard' = t
          /\ Goto(t, "writes")
          /\ UNCHANGED owed
  /\ UNCHANGED <<fileVars, up, config, chosen, patch, untouched, bounds>>

(* Under the guard: the choice with the change.  With nothing to say,      *)
(* nothing is written.                                                     *)
Merge(t) ==
  /\ at[t] = "asks" /\ guard = NoThread
  /\ LET state == Over(chosen, patch[t]) IN
       \/ /\ state = chosen
          /\ owed' = Owed(patch[t], state)
          /\ Goto(t, "answers")
          /\ UNCHANGED <<guard, merged>>
       \/ /\ state # chosen
          /\ merged' = [merged EXCEPT ![t] = state]
          /\ guard' = t
          /\ Goto(t, "writes")
          /\ UNCHANGED owed
  /\ UNCHANGED <<fileVars, up, config, chosen, patch, untouched, bounds>>

(* The directory's rule, the temporary file and its bytes; any may fail.   *)
Writes(t) ==
  /\ at[t] = "writes"
  /\ \/ ~shared /\ Goto(t, "renames")
     \/ Goto(t, "fails")
  /\ UNCHANGED <<fileVars, prefVars, patch, merged, historyVars, bounds>>

(* What the operator configures is recorded of the labels, no other.       *)
Recorded(choice) == [choice EXCEPT !.hidden = @ \cap config.configured]

(* `Path.replace`: the name now has the new file, or the old one and the   *)
(* temporary file is unlinked.                                             *)
Renames(t) ==
  /\ at[t] = "renames"
  /\ \/ /\ disk' = File("toml", Recorded(merged[t]))
        /\ owed' = [f \in Fields |-> IF Changes(patch[t], f) THEN "any" ELSE owed[f]]
        /\ untouched' = ~shared
        /\ Goto(t, "applies")
     \/ Goto(t, "fails") /\ UNCHANGED <<disk, owed, untouched>>
  /\ UNCHANGED <<operator, shared, prefVars, patch, merged, bounds>>

(* `_state`, and the end of the critical section.                          *)
Applies(t) ==
  /\ at[t] = "applies"
  /\ chosen' = merged[t]
  /\ owed' = Owed(patch[t], merged[t])
  /\ guard' = NoThread
  /\ Goto(t, "answers")
  /\ UNCHANGED <<fileVars, up, config, patch, merged, untouched, bounds>>

Done(t) ==
  /\ Goto(t, "idle")
  /\ patch' = [patch EXCEPT ![t] = NoPatch]
  /\ merged' = [merged EXCEPT ![t] = NoChoice]

(* A mutant: a failure leaves with the guard.                              *)
Fails_KeepsGuard(t) ==
  /\ at[t] = "fails"
  /\ Done(t)
  /\ UNCHANGED <<fileVars, up, config, chosen, guard, historyVars, bounds>>

(* `StateUnwritable`: the guard is released as the exception passes.       *)
Fails(t) ==
  /\ at[t] = "fails"
  /\ guard' = NoThread
  /\ Done(t)
  /\ UNCHANGED <<fileVars, up, config, chosen, historyVars, bounds>>

(* The view is put together with no guard held.  The wait is asked about   *)
(* and then read, two reads of `_state`; without one the config's is shown.*)
Looks(t) ==
  /\ at[t] = "answers"
  /\ IF "timeout" \notin config.pinned /\ chosen.timeout # None
       THEN Goto(t, "reads") /\ UNCHANGED <<patch, merged>>
       ELSE Done(t)
  /\ UNCHANGED <<fileVars, prefVars, historyVars, bounds>>

Reads(t) ==
  /\ at[t] = "reads"
  /\ Done(t)
  /\ UNCHANGED <<fileVars, prefVars, historyVars, bounds>>

-----------------------------------------------------------------------------
(* What happens to the process and to the files                            *)

(* The process ends, between any two steps of its requests.                *)
Dies ==
  /\ up
  /\ up' = FALSE
  /\ chosen' = NoChoice /\ guard' = NoThread
  /\ at' = [t \in Threads |-> "idle"]
  /\ patch' = [t \in Threads |-> NoPatch]
  /\ merged' = [t \in Threads |-> NoChoice]
  /\ UNCHANGED <<fileVars, config, historyVars, bounds>>

OperatorEdits ==
  /\ edits < MaxEdits
  /\ edits' = edits + 1
  /\ operator' \in Operators \ {operator}
  /\ UNCHANGED <<disk, shared, prefVars, requestVars, historyVars, patches, starts>>

(* The state file edited, removed, or made writable by others; or its      *)
(* directory opened to others, or closed again.  Nothing is owed after.    *)
Touched ==
  /\ edits < MaxEdits
  /\ edits' = edits + 1
  /\ untouched' = FALSE /\ owed' = NothingOwed
  /\ UNCHANGED <<operator, prefVars, requestVars, patches, starts>>

FileEdited ==
  /\ Touched
  /\ disk' \in {[disk EXCEPT !.is = "missing"], [disk EXCEPT !.is = "refused"],
                [disk EXCEPT !.is = "toml", !.timeout = Invalid, !.policy = Invalid]}
  /\ UNCHANGED shared

DirectoryShared ==
  /\ Touched
  /\ shared' = ~shared
  /\ UNCHANGED disk

RequestStep(t) ==
  \/ Merge(t) \/ Writes(t) \/ Renames(t) \/ Applies(t) \/ Fails(t) \/ Looks(t) \/ Reads(t)

Next ==
  \/ \E t \in Threads : Request(t) \/ RequestStep(t)
  \/ Starts \/ Dies
  \/ OperatorEdits \/ FileEdited \/ DirectoryShared

(* A request that has begun goes on.                                       *)
Fairness == \A t \in Threads : WF_vars(RequestStep(t))

Spec == Init /\ [][Next]_vars
FairSpec == Spec /\ Fairness

-----------------------------------------------------------------------------
TypeOK ==
  /\ operator \in Operators /\ config \in Operators
  /\ disk \in Files
  /\ chosen \in Choices
  /\ shared \in BOOLEAN /\ up \in BOOLEAN /\ untouched \in BOOLEAN
  /\ guard \in Threads \cup {NoThread}
  /\ at \in [Threads -> {"idle", "asks", "writes", "renames", "applies", "fails",
                         "answers", "reads"}]
  /\ patch \in [Threads -> Patches \cup {NoPatch}]
  /\ merged \in [Threads -> Choices]

(* What is in force is what a restart would find, whenever no request is   *)
(* between its rename and the end of its critical section: a choice that   *)
(* did not reach the disk never took effect, one that did is not lost, and *)
(* a file that was refused chooses nothing on either side.                 *)
InForceIsOnDisk ==
  up /\ untouched /\ guard = NoThread => Recorded(chosen) = Recorded(Loaded)

(* A choice a request made stays made, over other requests, failed ones    *)
(* and restarts, until a request changes that very choice, the operator    *)
(* drops its root, or somebody edits the file.                             *)
AnsweredIsKept ==
  up => \A f \in Fields : owed[f] # "any" => ValueOf(chosen, f) = owed[f]

(* No failure keeps the guard: every request comes to its answer.          *)
EveryPatchEnds == \A t \in Threads : (at[t] = "asks") ~> (at[t] = "idle")
=============================================================================
