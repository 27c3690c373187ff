------------------------------ MODULE ExitKeys ------------------------------
(***************************************************************************)
(* Typing into an agent's terminal: claude_ipc/keys.py and agy_ipc/keys.py *)
(* with the engine's two callers, `_deliver_stop` and `answer`, and the    *)
(* `WrapUpWatch` the sweep observes between the two halves of a stop.      *)
(*                                                                         *)
(* The typist sends keys and looks at frames.  The agent takes the keys at *)
(* its own pace, and the frame shows what it drew last; meanwhile it works,*)
(* asks, and a person at the terminal types.  There is no other channel.   *)
(***************************************************************************)
EXTENDS Screen

CONSTANTS
  Adapters,          \* which agents a row may run
  SETTLE_TRIES,      \* keys.py's _SETTLE_TRIES: 4
  MENU_TRIES,        \* exit_menu.py's: 8
  SETTLE_DONE,       \* screen.py's _SETTLE_DONE_S, in ticks
  AnswersOvertake,   \* a press may follow one the agent has not drawn yet
  SlowCaptures,      \* a tick may pass between a capture and its time stamp
  QueuedLookMisses,  \* the look for a queued message may find no box
  MaxGap, MaxStart,  \* ticks an agent may sit idle before the next message
                     \* of its queue, and before one that found it idle
  MaxQueue, MaxMoves, MaxAnswers     \* bounds

ASSUME ExitKeysAssumption ==
  /\ Adapters \subseteq {"claude", "agy"}
  /\ SETTLE_TRIES \in Nat \ {0} /\ MENU_TRIES \in Nat \ {0}
  /\ {AnswersOvertake, SlowCaptures, QueuedLookMisses} \subseteq BOOLEAN
  /\ {MaxGap, MaxStart, SETTLE_DONE} \subseteq Nat
  /\ MaxGap < SETTLE_DONE /\ MaxStart < 2 * SETTLE_DONE

VARIABLES
  agent,     \* which one runs in the pane
  ui,        \* what it is showing a keyboard
  pty,       \* keys sent, not taken yet: [by, key]
  frame,     \* what a capture reads: the ui last drawn, and whether whole
  stop,      \* the request to stop
  watch,     \* its WrapUpWatch
  answerer,  \* a request to answer: "idle", or about to send
  moved,     \* history: the ui each caller last read has changed since by
             \* another hand than its own
  harm,      \* history: keys that landed where no look had allowed them
  wrapped,   \* history: the wrap up's turn: "no", "waiting", "over"
  due,       \* ticks it may still sit idle with work waiting
  moves, answers         \* bounds

agentVars == <<agent, ui, pty, frame>>
callerVars == <<stop, watch, answerer>>
historyVars == <<moved, harm, wrapped>>
keysVars == <<agentVars, callerVars, historyVars, due, moves, answers>>

Callers == {"stop", "answer"}

(* `spot`, what takes the keys: the box, a question (drawn with the        *)
(* ornament), something strange (drawn without), the exit menu, or nothing *)
(* ("gone").  `hold`: what the box holds.  `turn`: whose turn runs, if one *)
(* does.  `queue`: what waits for the turn.  `panel`: background work,     *)
(* which agents list under the box.  `asked`: an answered question is left *)
(* further up.  `sel`: the entry of the exit menu that is selected.        *)

Busy(u) == u.turn # "idle"
AtRest == [spot |-> "box", hold |-> "nothing", turn |-> "idle", queue |-> <<>>,
           panel |-> FALSE, asked |-> FALSE, sel |-> "exit-and-stop-tasks"]

NotAsked == [job |-> "exit", at |-> "idle", tries |-> 0, out |-> FALSE, done |-> FALSE]
NoWatch == [sent |-> 0, idle |-> -1, read |-> "none"]

KeysInit ==
  /\ agent \in Adapters
  /\ \E t \in {"idle", "turn"}, p \in BOOLEAN : ui = [AtRest EXCEPT !.turn = t, !.panel = p]
  /\ pty = <<>>
  /\ frame = [of |-> ui, torn |-> FALSE]
  /\ stop = NotAsked /\ watch = NoWatch /\ answerer = "idle"
  /\ moved = [c \in Callers |-> FALSE] /\ harm = {} /\ wrapped = "no"
  /\ due = MaxStart /\ moves = 0 /\ answers = 0

-----------------------------------------------------------------------------
(* What an agent draws, as its captures in the tests show it.              *)

Row(says) == [prompt |-> FALSE, nbsp |-> FALSE, dim |-> FALSE, fg |-> "idle", says |-> says]
PromptRow(says) == [Row(says) EXCEPT !.prompt = TRUE]
Rows(n, says) == [i \in 1..n |-> Row(says)]
Rule == Row("rule")

(* What shows as queued: in the gap before a message starts it no longer   *)
(* does, and the box is drawn as an idle one.                              *)
Waiting(u) == IF Busy(u) \/ u.queue = <<>> THEN u.queue ELSE Tail(u.queue)

BoxRow(u) ==
  [prompt |-> TRUE, nbsp |-> TRUE, fg |-> IF Busy(u) THEN "busy" ELSE "idle",
   says |-> IF u.hold # "nothing" THEN u.hold
            ELSE IF Waiting(u) # <<>> THEN "queued"
            ELSE IF ~Busy(u) /\ ~u.asked THEN "a-suggestion" ELSE "nothing",
   dim |-> u.hold = "nothing"]

ClaudeDraws(u, torn) ==
  (IF u.asked THEN <<PromptRow("words")>> ELSE <<>>) \o
  CASE u.spot = "gone" -> <<>>
    [] u.spot = "strange" \/ torn -> Rows(MODAL_TAIL_ROWS + 1, "words")
    [] u.spot = "question" /\ ~torn -> <<Row("words"), PromptRow("words"), Row("words")>>
    [] u.spot = "exit-menu" /\ ~torn ->
         <<Row("background-work-is-running")>> \o
         (IF u.sel = "stay"
          THEN <<Row("exit-and-stop-tasks"), Row("move"), PromptRow("stay")>>
          ELSE <<PromptRow("exit-and-stop-tasks"), Row("move"), Row("stay")>>) \o
         <<Row("enter-to-confirm")>>
    [] OTHER -> <<Rule, BoxRow(u), Rule, Row("words")>> \o
                Rows(IF u.panel THEN MODAL_TAIL_ROWS ELSE 0, "words")

AgyDraws(u, torn) ==
  CASE u.spot = "gone" -> <<>>
    [] u.spot # "gone" /\ (u.spot # "box" \/ torn) -> Rows(2, "words")
    [] OTHER ->
         (IF Waiting(u) # <<>> THEN <<Row("queued-mark")>> ELSE <<>>) \o
         <<Rule, [PromptRow(u.hold) EXCEPT !.nbsp = FALSE], Rule>> \o
         (IF u.panel THEN <<Row("words"), Rule>> ELSE <<>>) \o
         <<Row(IF u.hold # "nothing" THEN "nothing"
               ELSE IF Busy(u) THEN (IF Waiting(u) # <<>> THEN "queued" ELSE "esc-to-cancel")
               ELSE "?-for-shortcuts")>>

Pane(f) ==
  IF f.of.spot = "gone" THEN <<>>
  ELSE IF agent = "claude" THEN ClaudeDraws(f.of, f.torn) ELSE AgyDraws(f.of, f.torn)

(* `capture_pane`: the rows, or nothing at all where tmux answers nonzero. *)
Captures == {Pane(frame), <<>>}
Readable(pane) == \E i \in DOMAIN pane : pane[i].says # "nothing" \/ pane[i].prompt

(* The agent draws; half a turn's frame may be only its output.            *)
Draws ==
  /\ \E torn \in {FALSE, Busy(ui) /\ ui.spot = "box"} :
       /\ frame # [of |-> ui, torn |-> torn]
       /\ frame' = [of |-> ui, torn |-> torn]
  /\ UNCHANGED <<agent, ui, pty, callerVars, historyVars, due, moves, answers>>

(* It has taken every key, and drawn what they did.                        *)
Drawn == pty = <<>> /\ frame.of = ui

-----------------------------------------------------------------------------
(* What the agent does, and a person at its terminal                       *)

Grown(u, v) == Len(v.queue) > Len(u.queue)

(* The ui becomes `u` by another hand than `by`'s.                         *)
Becomes(u, by) ==
  /\ ui' = u
  /\ moved' = [c \in Callers |->
       moved[c] \/ (c # by /\ (u.spot # ui.spot \/ u.hold # ui.hold \/ Grown(ui, u)))]

Gone(u) == [u EXCEPT !.spot = "gone", !.turn = "idle", !.queue = <<>>]
(* A turn, or an exit that waited for one, runs to its end.                *)
Leaves(u) == IF agent = "claude" /\ u.panel
             THEN {[u EXCEPT !.spot = "exit-menu", !.turn = "idle", !.sel = s] :
                     s \in {"exit-and-stop-tasks", "stay"}}
             ELSE {Gone(u)}

TurnEnds ==
  /\ ui.spot = "box" /\ Busy(ui)
  /\ Becomes([ui EXCEPT !.turn = "idle"], "nobody")
  /\ wrapped' = IF ui.turn = "wrap-up" THEN "over" ELSE wrapped
  /\ due' = MaxGap
  /\ UNCHANGED <<agent, pty, frame, callerVars, harm, moves, answers>>

StartsNext ==
  /\ ui.spot = "box" /\ ~Busy(ui) /\ ui.queue # <<>>
  /\ IF Head(ui.queue) = "exit"
     THEN \E u \in Leaves([ui EXCEPT !.queue = Tail(@)]) : Becomes(u, "nobody")
     ELSE Becomes([ui EXCEPT !.turn = Head(ui.queue), !.queue = Tail(@)], "nobody")
  /\ UNCHANGED <<agent, pty, frame, callerVars, harm, wrapped, due, moves, answers>>

(* A person types, queues or answers; the agent asks something, or its     *)
(* background work comes and goes.                                         *)
Moved(u) ==
  \/ /\ u.spot = "box"
     /\ \E v \in {[u EXCEPT !.hold = "draft"],
                  [u EXCEPT !.queue = Append(@, "theirs")],
                  [u EXCEPT !.panel = ~@]} :
          Len(v.queue) <= MaxQueue /\ v # u /\ Becomes(v, "nobody")
  \/ /\ u.spot = "box" /\ Busy(u)
     /\ \E s \in {"question", "strange"} : Becomes([u EXCEPT !.spot = s], "nobody")
  \/ u.spot # "gone" /\ Becomes(Gone(u), "nobody")
  \/ /\ u.spot \in {"question", "strange", "exit-menu"}
     /\ Becomes([u EXCEPT !.spot = "box", !.asked = u.spot = "question" \/ @], "nobody")

SomethingMoves ==
  /\ moves < MaxMoves /\ moves' = moves + 1
  /\ Moved(ui)
  /\ due' = IF ui.queue = <<>> THEN MaxStart ELSE due
  /\ UNCHANGED <<agent, pty, frame, callerVars, harm, wrapped, answers>>

(* A key reaches the agent: what it may make of it, and whether it was     *)
(* typed where no reading allows it.                                       *)
Lands(us) == {[u |-> u, bad |-> {}] : u \in us}
Misses(what, us) == {[u |-> u, bad |-> {what}] : u \in us}
Submits(u, what) == [u EXCEPT !.hold = "nothing", !.queue = Append(@, what)]
Answered(u) ==
  IF u.spot = "exit-menu" THEN {Gone(u), [u EXCEPT !.spot = "box"]}
  ELSE {u, [u EXCEPT !.spot = "box", !.asked = u.spot = "question" \/ @]}

(* `C-u` spares what it cannot clear, and a queued message.                *)
ClearTakes(u) == Lands({u} \cup (IF u.spot = "box" THEN {[u EXCEPT !.hold = "nothing"]} ELSE {}))

(* An interrupted turn may put what was waiting back into the box, and an  *)
(* idle agent may raise something.                                         *)
EscapeTakes(u) ==
  Lands(IF u.spot # "box" THEN {[u EXCEPT !.spot = "box"]}
        ELSE IF Busy(u)
             THEN {[u EXCEPT !.turn = "idle", !.queue = <<>>, !.hold = h] :
                     h \in {"nothing", "draft"}}
             ELSE {u, [u EXCEPT !.spot = "question"]})

(* Claude Code queues an exit behind a turn; agy leaves at once.           *)
ExitTakes(u) ==
  IF u.spot = "box" /\ u.hold = "nothing"
  THEN Lands(IF agent = "claude" /\ (Busy(u) \/ u.queue # <<>>)
             THEN {[u EXCEPT !.queue = Append(@, "exit")]}
             ELSE Leaves(u))
  ELSE Misses("exit", IF u.spot = "box" THEN {Submits(u, "theirs")} ELSE Answered(u))

EnterTakes(u) ==
  CASE u.spot = "box" /\ u.hold = "prompt" ->
         IF Waiting(u) = <<>> THEN Lands({Submits(u, "wrap-up")})
         ELSE Misses("queue", {Submits(u, "wrap-up")})
    [] u.spot = "box" /\ u.hold = "draft" -> Misses("enter", {Submits(u, "theirs")})
    [] u.spot = "box" /\ u.hold = "nothing" -> Lands({u})
    [] u.spot = "exit-menu" /\ u.sel # "stay" -> Lands({Gone(u)})
    [] OTHER -> Misses("enter", Answered(u))

TextTakes(u) ==
  IF u.spot = "box" /\ u.hold = "nothing" THEN Lands({[u EXCEPT !.hold = "prompt"]})
  ELSE Misses("prompt", IF u.spot = "box" THEN {[u EXCEPT !.hold = "draft"]} ELSE {u})

AnswerTakes(u) ==
  IF u.spot \in {"question", "exit-menu"} THEN Lands(Answered(u))
  ELSE Misses("answer", IF u.spot = "box" THEN {[u EXCEPT !.hold = "draft"]} ELSE {u})

Takes(key, u) ==
  CASE key = "clear" -> ClearTakes(u)
    [] key = "escape" -> EscapeTakes(u)
    [] key = "exit" -> ExitTakes(u)
    [] key = "enter" -> EnterTakes(u)
    [] key = "prompt" -> TextTakes(u)
    [] key = "answer" -> AnswerTakes(u)

TakesKey ==
  /\ pty # <<>> /\ ui.spot # "gone"
  /\ LET sent == Head(pty) IN
     \E to \in Takes(sent.key, ui) :
       /\ Becomes(to.u, sent.by)
       /\ harm' = harm \cup (IF moved[sent.by] THEN {} ELSE to.bad)
       /\ wrapped' = IF "wrap-up" \in Range(to.u.queue) \ Range(ui.queue) THEN "waiting"
                     ELSE IF wrapped = "waiting" /\ to.u.turn # "wrap-up"
                               /\ "wrap-up" \notin Range(to.u.queue) THEN "over"
                     ELSE wrapped
  /\ pty' = Tail(pty)
  /\ due' = IF ui.queue = <<>> THEN MaxStart ELSE due
  /\ UNCHANGED <<agent, frame, callerVars, moves, answers>>

(* The session went with the agent, and what was on its way with it.       *)
KeyIsLost ==
  /\ pty # <<>> /\ ui.spot = "gone"
  /\ pty' = <<>>
  /\ UNCHANGED <<agent, ui, frame, callerVars, historyVars, due, moves, answers>>

-----------------------------------------------------------------------------
(* `request_stop` and `request_wrap_up`                                    *)

(* `send_keys` ignores what tmux answers: to a session that is gone, it    *)
(* types nothing.                                                          *)
Types(by, keys) ==
  pty' = IF ui.spot = "gone" THEN pty
         ELSE pty \o [i \in DOMAIN keys |-> [by |-> by, key |-> keys[i]]]

(* A look is as fresh as the frame it reads, and says nothing of the keys  *)
(* sent before it.                                                         *)
OnTheirWay(c) == \E i \in DOMAIN pty : pty[i].by = c
Reads(c) ==
  moved' = [moved EXCEPT ![c] = @ /\ (frame.of # ui \/ OnTheirWay(c))]

StopAt(at) == stop' = [stop EXCEPT !.at = at]
OfStop == UNCHANGED <<agent, ui, frame, answerer, harm, wrapped, due, moves, answers>>

StopAsked ==
  /\ stop.at = "idle"
  /\ \E job \in {"exit", "wrap-up"} : stop' = [NotAsked EXCEPT !.job = job, !.at = "clear"]
  /\ OfStop /\ UNCHANGED <<pty, watch, moved>>

(* tmux could not be run: before the exit is out, the request fails.       *)
Unreachable ==
  /\ stop.at \in {"clear", "look", "escape", "exit", "queued", "prompt", "enter"}
  /\ StopAt("failed")
  /\ OfStop /\ UNCHANGED <<pty, watch, moved>>

Sends(at, keys, next) ==
  /\ stop.at = at
  /\ Types("stop", keys)
  /\ stop' = [stop EXCEPT !.at = next, !.tries = 0, !.out = @ \/ "exit" \in Range(keys)]
  /\ OfStop /\ UNCHANGED <<watch, moved>>

SendsClear == Sends("clear", <<"clear">>, "settle")
SendsEscape == Sends("escape", <<"escape">>, "settle-again")
SendsExit == Sends("exit", <<"exit">>, IF agent = "claude" THEN "menu" ELSE "asked")
SendsPrompt == Sends("prompt", <<"prompt">>, "enter")

(* A mutant: the first look does not wait.                               *)
Settles_AtOnce ==
  /\ stop.at \in {"settle", "settle-again"}
  /\ StopAt(IF stop.at = "settle" THEN "look" ELSE "look-again")
  /\ OfStop /\ UNCHANGED <<pty, watch, moved>>

(* A settle is long enough for the agent to take the keys and draw.        *)
Settles ==
  /\ stop.at \in {"settle", "settle-again"} /\ Drawn
  /\ StopAt(IF stop.at = "settle" THEN "look" ELSE "look-again")
  /\ OfStop /\ UNCHANGED <<pty, watch, moved>>

(* `_require_clear`.  Its three refusals differ in their words alone.      *)
Cleared ==
  IF stop.at = "look-again" \/ (agent = "agy" /\ stop.job = "exit") THEN "exit"
  ELSE IF stop.job = "exit" THEN "escape" ELSE "queued"

RequiresClear ==
  /\ stop.at \in {"look", "look-again"}
  /\ \E pane \in Captures :
       stop' = [stop EXCEPT
         !.tries = @ + 1,
         !.at = IF InputIsClear(agent, pane) = "yes" THEN Cleared
                ELSE IF stop.tries + 1 = SETTLE_TRIES THEN "refused"
                ELSE IF @ = "look" THEN "settle" ELSE "settle-again"]
  /\ Reads("stop")
  /\ OfStop /\ UNCHANGED <<pty, watch>>

(* A capture of its own, and one that shows no box shows no message.       *)
LooksForQueued ==
  /\ stop.at = "queued"
  /\ \E pane \in IF QueuedLookMisses THEN Captures ELSE {Pane([frame EXCEPT !.torn = FALSE])} :
       StopAt(IF QueuedMessage(agent, pane) THEN "refused" ELSE "prompt")
  /\ OfStop /\ UNCHANGED <<pty, watch, moved>>

(* `exit_menu_appeared`: an empty look ends it, one that offers the exit   *)
(* is enough, and a tmux that cannot be run is a miss.                     *)
LooksForMenu ==
  /\ stop.at = "menu"
  /\ \E pane \in Captures :
       stop' = [stop EXCEPT
         !.tries = @ + 1,
         !.at = IF ~Readable(pane) THEN "asked"
                ELSE IF OffersExit(pane) THEN "press"
                ELSE IF stop.tries + 1 = MENU_TRIES THEN "asked" ELSE "menu"]
  /\ Reads("stop")
  /\ OfStop /\ UNCHANGED <<pty, watch>>

Presses == Sends("press", <<"enter">>, "asked")

Unanswered ==
  /\ stop.at \in {"menu", "press"}
  /\ StopAt("asked")
  /\ OfStop /\ UNCHANGED <<pty, watch, moved>>

-----------------------------------------------------------------------------
(* `WrapUpWatch`, and the sweep that asks it                               *)

(* `_deliver_stop` begins the watch once the prompt is out.                *)
SendsEnter ==
  /\ stop.at = "enter"
  /\ Types("stop", <<"enter">>)
  /\ StopAt("watching") /\ watch' = NoWatch
  /\ OfStop /\ UNCHANGED moved

Captured ==
  /\ stop.at = "watching" /\ watch.read = "none"
  /\ \E pane \in Captures : watch' = [watch EXCEPT !.read = WrapUpReading(agent, pane)]
  /\ OfStop /\ UNCHANGED <<pty, stop, moved>>

(* `observe`: the watch after a reading, and whether the wrap up is over.  *)
Observed(w) ==
  CASE w.sent < SETTLE_DONE -> w.idle
    [] w.sent >= SETTLE_DONE /\ w.read # "yes" -> -1
    [] OTHER -> IF w.idle = -1 THEN 0 ELSE w.idle

(* A mutant: one idle look is enough.                                    *)
Finished_OneLook(w) == w.sent >= SETTLE_DONE /\ w.read = "yes"

Finished(w) == w.sent >= SETTLE_DONE /\ w.read = "yes" /\ w.idle >= SETTLE_DONE

(* Finished, or past the ceiling, it goes on to the exit.                  *)
Observes ==
  /\ stop.at = "watching" /\ watch.read # "none"
  /\ \E on \in {Finished(watch), TRUE} :
       stop' = IF on THEN [stop EXCEPT !.job = "exit", !.at = "clear", !.done = Finished(watch)]
               ELSE stop
  /\ watch' = [watch EXCEPT !.read = "none", !.idle = Observed(watch)]
  /\ OfStop /\ UNCHANGED <<pty, moved>>

Later(n) == IF n < SETTLE_DONE THEN n + 1 ELSE n

Tick ==
  /\ stop.at = "watching" /\ Drawn
  /\ SlowCaptures \/ watch.read = "none"
  /\ LET work == ui.spot = "box" /\ ~Busy(ui) /\ ui.queue # <<>> IN
     /\ work => due > 0
     /\ due' = IF work THEN due - 1 ELSE due
  /\ watch' = [watch EXCEPT !.sent = Later(@), !.idle = IF @ = -1 THEN -1 ELSE Later(@)]
  /\ UNCHANGED <<agentVars, stop, answerer, historyVars, moves, answers>>

-----------------------------------------------------------------------------
(* `send_answer`: one key, if the frame shows a question.  agy's is always *)
(* refused.                                                                *)

OfAnswer == UNCHANGED <<agent, ui, frame, stop, watch, harm, wrapped, due, moves>>

(* A mutant: a frame with no ornament is answered too.                   *)
AnswerLooks_UnlessABox ==
  /\ answerer = "idle" /\ agent = "claude"
  /\ answers < MaxAnswers /\ answers' = answers + 1
  /\ \/ AnswersOvertake
     \/ /\ ~OnTheirWay("answer")
        /\ frame.of = ui \/ moved["answer"]
  /\ \E pane \in Captures :
       answerer' = IF AwaitsAnswer(pane) # "no" THEN "send" ELSE "idle"
  /\ Reads("answer")
  /\ OfAnswer /\ UNCHANGED pty

AnswerLooks ==
  /\ answerer = "idle" /\ agent = "claude"
  /\ answers < MaxAnswers /\ answers' = answers + 1
  /\ \/ AnswersOvertake
     \/ /\ ~OnTheirWay("answer")
        /\ frame.of = ui \/ moved["answer"]
  /\ \E pane \in Captures :
       answerer' = IF AwaitsAnswer(pane) = "yes" THEN "send" ELSE "idle"
  /\ Reads("answer")
  /\ OfAnswer /\ UNCHANGED pty

AnswerSends ==
  /\ answerer = "send" /\ answerer' = "idle"
  /\ Types("answer", <<"answer">>)
  /\ OfAnswer /\ UNCHANGED <<moved, answers>>

-----------------------------------------------------------------------------

AgentStep == Draws \/ TurnEnds \/ StartsNext \/ SomethingMoves \/ TakesKey \/ KeyIsLost
StopStep ==
  \/ StopAsked \/ Unreachable
  \/ SendsClear \/ Settles \/ RequiresClear \/ SendsEscape \/ SendsExit
  \/ LooksForMenu \/ Presses \/ Unanswered
  \/ LooksForQueued \/ SendsPrompt \/ SendsEnter \/ Captured \/ Observes
AnswerStep == AnswerLooks \/ AnswerSends

KeysNext == AgentStep \/ StopStep \/ AnswerStep \/ Tick
KeysSpec == KeysInit /\ [][KeysNext]_keysVars

-----------------------------------------------------------------------------
(* Properties                                                              *)

(* `/exit` and its Enter, and the wrap up's text, reach an empty input     *)
(* box: never a draft, a question, or what the Escape raised, unless the   *)
(* pane changed by another hand after the look (#88, #89).                 *)
TypesOnlyIntoAnEmptyBox == {"exit", "prompt"} \cap harm = {}

(* The one Enter after `/exit` answers the exit menu with its first entry  *)
(* selected, or nothing: no other dialog, no other entry (#453).           *)
EnterAnswersOnlyTheExitMenu == "enter" \notin harm

(* A wrap up is never typed behind a message that waits for the turn, on   *)
(* either screen: under a panel of background agents too (#242, #475).     *)
WrapUpJumpsNoQueue == "queue" \notin harm

(* An answer reaches a question, never an agent at work or its input box   *)
(* (#204, #208).                                                           *)
AnswerOnlyToAQuestion == "answer" \notin harm

(* What the sweep takes for the end of a wrap up is one: not the moment    *)
(* before its turn begins, nor the gap after the turn it waited for.       *)
WrapUpIsOver == stop.done => wrapped # "waiting"

(* An agent at rest is read as idle, whatever it lists under its box, and  *)
(* nothing else is: a wrap up that is over is never waited out to the      *)
(* ceiling for the layout it is shown in (#475).                           *)
RestIsReadAsIdle ==
  ~frame.torn =>
    ( WrapUpReading(agent, Pane(frame)) = "yes" <=>
      /\ frame.of.spot = "box" /\ frame.of.hold = "nothing"
      /\ ~Busy(frame.of) /\ Waiting(frame.of) = <<>> )
=============================================================================
