----------------------------- MODULE PluginPage -----------------------------
(***************************************************************************)
(* The settings page's view of the plugin update: the record `PluginRuns`  *)
(* keeps (RunRecord), its events through the bus (EventBus), the GET and   *)
(* the POST of routes_live.py, and `onPluginRecord` of web/plugins.js.     *)
(*                                                                         *)
(* Events and answers cross on the wire; the page suspends a finished      *)
(* record on a fetch of its own (`countRunning`) and takes it up later;    *)
(* the server restarts, with its seq at nought, or the machine reboots.    *)
(***************************************************************************)
EXTENDS EventBus, RunRecord, FiniteSets

CONSTANTS
  MaxInFlight,    \* bound: requests of the page in flight at once
  MaxSeq,         \* bound: changes of a record in one process
  MaxReads,       \* bound: requests of the page
  MaxRestarts,    \* bound: restarts of the server
  MaxTogether,    \* bound: requests, restarts and reboots together
  MaxBoots        \* bound: boots of the machine

ASSUME PageAssumption ==
  /\ MaxInFlight \in Nat \ {0}
  /\ MaxSeq \in Nat /\ MaxReads \in Nat /\ MaxRestarts \in Nat /\ MaxBoots \in Nat
  /\ MaxTogether \in Nat

VARIABLES
  process,    \* the serving process: its epoch, boot and since_boot_us
  asked,      \* what each request of the page is at
  answer,     \* the record an answer carries
  awaiting,   \* records suspended in `countRunning`, with their arrivals
  shown,      \* what is on screen, and when it arrived
  arrivals,   \* `arrivals`
  missed,     \* history: something was lost since the page last asked
  reads, restarts  \* bounds

Requests == 1..MaxInFlight

serverVars == <<run, unsent, process>>
pageVars == <<asked, answer, awaiting, shown, arrivals, missed>>
bounds == <<reads, restarts>>
vars == <<serverVars, busVars, pageVars, bounds>>

(* An epoch is random in the code: here it is the number of the process,   *)
(* which the page compares for equality only.                              *)
Stamped(record, by) == [rec |-> record, by |-> by]
Nothing == [rec |-> Idle, by |-> [epoch |-> 0, boot |-> 0, since |-> 0], arrival |-> 0]
NoAnswer == Stamped(Idle, Nothing.by)

Init ==
  /\ RecordInit /\ BusInit
  /\ process = [epoch |-> 1, boot |-> 1, since |-> 1]
  /\ asked = [q \in Requests |-> "none"]
  /\ answer = [q \in Requests |-> NoAnswer]
  /\ awaiting = {} /\ shown = Nothing /\ arrivals = 0 /\ missed = FALSE
  /\ reads = 0 /\ restarts = 0

-----------------------------------------------------------------------------
(* The server                                                              *)

(* A run, its rows and its end, as RunRecord has them.                     *)
RunMoves ==
  /\ run.seq < MaxSeq
  /\ (run.heard = 0 /\ Hears) \/ Ends
  /\ UNCHANGED <<process, busVars, pageVars, bounds>>

Publish(record) ==
  /\ Publishes(record)
  /\ Published(Stamped(record, process))
  /\ UNCHANGED <<process, pageVars, bounds>>

(* What is lost when a delivery finds the queue full.                      *)
Deliver ==
  /\ Delivers
  /\ missed' = (missed \/ ~Fits)
  /\ UNCHANGED <<serverVars, asked, answer, awaiting, shown, arrivals, bounds>>

(* `start_plugin_update`: the claim, or a 409.                             *)
AnswersPost(q) ==
  /\ asked[q] = "post" /\ run.seq < MaxSeq
  /\ \/ Begins /\ asked' = [asked EXCEPT ![q] = "begun"]
     \/ run.state = "running" /\ asked' = [asked EXCEPT ![q] = "refused"] /\ UNCHANGED recordVars
  /\ UNCHANGED <<process, busVars, answer, awaiting, shown, arrivals, missed, bounds>>

(* The snapshot: of a GET, or after the claim of a POST.                   *)
AnswersGet(q) ==
  /\ asked[q] \in {"get", "begun"}
  /\ asked' = [asked EXCEPT ![q] = "answered"]
  /\ answer' = [answer EXCEPT ![q] = Stamped(run, process)]
  /\ UNCHANGED <<serverVars, busVars, awaiting, shown, arrivals, missed, bounds>>

(* The process ends: its streams close, its threads are gone, requests it  *)
(* had not answered fail.  What it had answered may still be on the way.   *)
Gone(q, closed) ==
  asked[q] \in {"get", "post", "begun", "refused"} \/ (closed /\ asked[q] = "answered")

NewProcess(closed) ==
  /\ run' = Idle /\ unsent' = {}
  /\ Unsubscribes
  /\ asked' = [q \in Requests |-> IF Gone(q, closed) THEN "none" ELSE asked[q]]
  /\ answer' = [q \in Requests |-> IF Gone(q, closed) THEN NoAnswer ELSE answer[q]]
  /\ missed' = TRUE
  /\ UNCHANGED <<awaiting, shown, arrivals, reads>>

(* Not in the code: the bound.                                             *)
Room == reads + restarts + (process.boot - 1) < MaxTogether

Restart ==
  /\ Room
  /\ restarts < MaxRestarts
  /\ restarts' = restarts + 1
  /\ NewProcess(FALSE)
  /\ process' = [process EXCEPT !.epoch = @ + 1, !.since = @ + 1]

(* A reboot closes every connection; the boot's clock starts again, and    *)
(* this boot's server may start earlier in it, or later, than the last's.  *)
Reboot ==
  /\ Room
  /\ process.boot < MaxBoots
  /\ UNCHANGED restarts
  /\ NewProcess(TRUE)
  /\ \E since \in 1..2 :
       process' = [epoch |-> process.epoch + 1, boot |-> process.boot + 1, since |-> since]

-----------------------------------------------------------------------------
(* The page                                                                *)

(* Asking anew makes good what was missed, if the answer comes.            *)
Asks(q, what) ==
  /\ asked[q] = "none" /\ \A p \in 1..(q - 1) : asked[p] # "none"
  /\ Room /\ reads < MaxReads
  /\ reads' = reads + 1
  /\ asked' = [asked EXCEPT ![q] = what]
  /\ missed' = IF what = "get" THEN FALSE ELSE missed
  /\ UNCHANGED <<serverVars, answer, awaiting, shown, arrivals, restarts>>

(* `open`, the first and each reconnect's, reads the GET.                  *)
Connects(q) ==
  /\ Subscribes
  /\ Asks(q, "get")

(* The connection goes, and with it what was queued.                       *)
Disconnects ==
  /\ subscribed /\ Room /\ reads < MaxReads
  /\ Unsubscribes
  /\ missed' = TRUE
  /\ UNCHANGED <<serverVars, asked, answer, awaiting, shown, arrivals, bounds>>

(* `visibilitychange` back to visible, and the button.                     *)
ComesBack(q) == Asks(q, "get") /\ UNCHANGED busVars
Presses(q) == Asks(q, "post") /\ UNCHANGED busVars

(* A fetch that fails: a GET has nobody to ask again; a POST asks by GET,  *)
(* as it does when it is refused.                                          *)
Fails(q) ==
  /\ asked[q] \in {"get", "post", "begun", "answered"}
  /\ asked' = [asked EXCEPT ![q] = IF asked[q] = "post" THEN "get" ELSE "none"]
  /\ answer' = [answer EXCEPT ![q] = NoAnswer]
  /\ missed' = (missed \/ asked[q] # "post")
  /\ UNCHANGED <<serverVars, busVars, awaiting, shown, arrivals, bounds>>

AsksInstead(q) ==
  /\ asked[q] = "refused"
  /\ asked' = [asked EXCEPT ![q] = "get"]
  /\ UNCHANGED <<serverVars, busVars, answer, awaiting, shown, arrivals, missed, bounds>>

(* A mutant: a record of another process is never newer (#314).            *)
IsNewer_OneEpoch(record, arrival) ==
  \/ shown = Nothing
  \/ record.by.epoch = shown.by.epoch /\ record.rec.seq >= shown.rec.seq

IsNewer(record, arrival) ==
  \/ shown = Nothing
  \/ record.by.epoch = shown.by.epoch /\ record.rec.seq >= shown.rec.seq
  \/ /\ record.by.epoch # shown.by.epoch
     /\ IF record.by.boot = shown.by.boot
          THEN record.by.since > shown.by.since
          ELSE arrival > shown.arrival

Shows(record, arrival) ==
  shown' = [rec |-> record.rec, by |-> record.by, arrival |-> arrival]

(* The first half of `onPluginRecord`, to its await: the arrival is        *)
(* stamped (a dropped record's number is never compared, so it is given    *)
(* again here), a stale record dropped, and a finished one that updated    *)
(* something waits for the count of sessions.                              *)
Arrives(record) ==
  LET arrival == arrivals + 1 IN
  \/ /\ ~IsNewer(record, arrival)
     /\ UNCHANGED <<arrivals, awaiting, shown>>
  \/ /\ IsNewer(record, arrival)
     /\ Shows(record, arrival)
     /\ arrivals' = arrival
     /\ UNCHANGED awaiting
  \/ /\ IsNewer(record, arrival)
     /\ record.rec.state = "done"
     /\ awaiting' = awaiting \cup {[of |-> record, arrival |-> arrival]}
     /\ arrivals' = arrival
     /\ UNCHANGED shown

(* A mutant: not checked again after the await.                            *)
TakenUp_Unchecked(held) == Shows(held.of, held.arrival)

(* The second half: checked again, since a newer one may have overtaken.   *)
TakenUp(held) ==
  IF IsNewer(held.of, held.arrival) THEN Shows(held.of, held.arrival) ELSE UNCHANGED shown

Resumes(held) ==
  /\ held \in awaiting
  /\ awaiting' = awaiting \ {held}
  /\ TakenUp(held)
  /\ UNCHANGED <<serverVars, busVars, asked, answer, arrivals, missed, bounds>>

EventArrives ==
  /\ Streams
  /\ Arrives(Head(queue))
  /\ UNCHANGED <<serverVars, asked, answer, missed, bounds>>

AnswerArrives(q) ==
  /\ asked[q] = "answered"
  /\ Arrives(answer[q])
  /\ asked' = [asked EXCEPT ![q] = "none"]
  /\ answer' = [answer EXCEPT ![q] = NoAnswer]
  /\ UNCHANGED <<serverVars, busVars, missed, bounds>>

ServerStep ==
  \/ Deliver
  \/ \E record \in unsent : Publish(record)
  \/ \E q \in Requests : AnswersPost(q) \/ AnswersGet(q)

PageStep ==
  \/ EventArrives
  \/ \E q \in Requests : AsksInstead(q) \/ AnswerArrives(q)
  \/ \E held \in awaiting : Resumes(held)

Next ==
  \/ RunMoves
  \/ ServerStep \/ PageStep
  \/ Restart
  \/ Reboot
  \/ Disconnects
  \/ \E q \in Requests : Connects(q) \/ ComesBack(q) \/ Presses(q) \/ Fails(q)

(* The server publishes what it made, delivers and answers, and the page   *)
(* takes what has come: an answer that is not lost arrives, and the count  *)
(* of sessions ends one way or the other.                                  *)
Fairness == WF_vars(ServerStep) /\ WF_vars(PageStep)

Spec == Init /\ [][Next]_vars /\ Fairness

-----------------------------------------------------------------------------
(* The screen never goes back: what replaces a record is of the same       *)
(* process and not older, or of a process that started later - whatever    *)
(* order answers and events arrive in, and however long a record waits in  *)
(* `countRunning`, over restarts and reboots (#314, #348).                 *)
ShownNeverGoesBack ==
  [][shown # Nothing /\ shown' # shown =>
       \/ shown'.by.epoch > shown.by.epoch
       \/ shown'.by = shown.by /\ shown'.rec.seq >= shown.rec.seq]_vars

(* A page whose stream is open, and which lost nothing it has not asked    *)
(* for since, ends up at the server's record, a new process's included: no *)
(* older record locks it out (#313, #314).                                 *)
InStep == shown.rec = run /\ shown.by = process

PageCatchesUp == (subscribed /\ ~missed) ~> (~subscribed \/ missed \/ InStep)
=============================================================================
