------------------------------ MODULE RunRecord ------------------------------
(***************************************************************************)
(* What `PluginRuns` promises to whoever watches it (plugin_runs.py): one  *)
(* record, changed only under its lock, each change numbered by the next   *)
(* `seq`, and each changed record announced at some later time, by the     *)
(* thread that made it.  Nothing here says how an update is performed:     *)
(* PluginUpdate implements this, and PluginPage builds a page upon it.     *)
(***************************************************************************)
EXTENDS Naturals

VARIABLES
  run,      \* the record: its seq, its state, how many outcomes it holds
  unsent    \* records made under the lock and not yet published

recordVars == <<run, unsent>>

States == {"idle", "running", "done", "failed"}

Record == [seq : Nat, state : States, heard : Nat]

Idle == [seq |-> 0, state |-> "idle", heard |-> 0]

RecordInit == run = Idle /\ unsent = {}

(* `_changed`: the record after a change, with the next seq.  Whoever made *)
(* it publishes it after the lock is released.                             *)
Changes(state, heard) ==
  /\ run' = [seq |-> run.seq + 1, state |-> state, heard |-> heard]
  /\ unsent' = unsent \cup {run'}

Begins ==
  /\ run.state # "running"
  /\ Changes("running", 0)

Hears ==
  /\ run.state = "running"
  /\ Changes("running", run.heard + 1)

Ends ==
  /\ run.state = "running"
  /\ \E state \in {"done", "failed"} : Changes(state, run.heard)

Publishes(record) ==
  /\ record \in unsent
  /\ unsent' = unsent \ {record}
  /\ UNCHANGED run

RecordNext ==
  \/ Begins
  \/ Hears
  \/ Ends
  \/ \E record \in unsent : Publishes(record)

RecordSpec == RecordInit /\ [][RecordNext]_recordVars
=============================================================================
