------------------------------- MODULE Screen -------------------------------
(***************************************************************************)
(* What hitchrail reads off a captured pane: claude_ipc/screen.py and      *)
(* exit_menu.py, agy_ipc/screen.py.  Pure: a pane is a sequence of rows,   *)
(* the last one at the bottom.                                             *)
(*                                                                         *)
(* A row keeps what the readings tell apart.  `prompt`: Claude Code's      *)
(* ornament is in it, or agy's begins with `>`.  `nbsp`: the character     *)
(* right after the ornament is U+00A0.  `dim`: what follows it is dim.     *)
(* `fg`: the foreground in effect at the ornament, whatever row set it.    *)
(* `says`: the text without escapes and padding, after the prompt, and     *)
(* "nothing" where there is none.                                          *)
(***************************************************************************)
EXTENDS Integers, FiniteSets, SequencesExt

CONSTANT MODAL_TAIL_ROWS    \* screen.py's _MODAL_TAIL_ROWS: 3

ASSUME ScreenAssumption == MODAL_TAIL_ROWS \in Nat

(* Three answers, and "unknown" is not "no".                               *)
Readings == {"yes", "no", "unknown"}
Whether(b) == IF b THEN "yes" ELSE "no"

IsRule(row) == ~row.prompt /\ row.says = "rule"

-----------------------------------------------------------------------------
(* Claude Code                                                             *)

(* 0 where no row carries the ornament.                                    *)
LastOrnamentRow(pane) == SelectLastInSeq(pane, LAMBDA row : row.prompt)

Below(pane, i) == Cardinality({j \in (i + 1)..Len(pane) : pane[j].says # "nothing"})

(* The last row with the ornament, unless the agent has scrolled past it.  *)
LiveOrnamentRow(pane) ==
  LET i == LastOrnamentRow(pane) IN
  IF i # 0 /\ Below(pane, i) <= MODAL_TAIL_ROWS THEN i ELSE 0

(* A rule directly above the last one and directly below.                  *)
BoxedOrnamentRow(pane) ==
  LET i == LastOrnamentRow(pane) IN
  IF i > 1 /\ i < Len(pane) /\ IsRule(pane[i - 1]) /\ IsRule(pane[i + 1]) THEN i ELSE 0

(* A mutant: the plain layout alone is known (#475).                     *)
InputRow_PlainOnly(pane) == LiveOrnamentRow(pane)

(* In either layout: plain, or boxed over a panel of background agents.    *)
InputRow(pane) ==
  IF LiveOrnamentRow(pane) # 0 THEN LiveOrnamentRow(pane) ELSE BoxedOrnamentRow(pane)

RowIsClear(row) == row.dim \/ row.says = "nothing"

ClaudeInputIsClear(pane) ==
  LET i == LastOrnamentRow(pane) IN
  IF i = 0 THEN "unknown" ELSE Whether(RowIsClear(pane[i]))

ShowsInputBox(pane) ==
  LET i == LiveOrnamentRow(pane) IN
  IF i = 0 THEN "unknown" ELSE Whether(pane[i].nbsp)

AwaitsAnswer(pane) ==
  CASE ShowsInputBox(pane) = "yes" -> "no"
    [] ShowsInputBox(pane) = "no" -> "yes"
    [] OTHER -> "unknown"

(* A mutant: as `InputRow_PlainOnly`, for a queued message (#475).       *)
ClaudeQueuedMessage_PlainOnly(pane) ==
  LET i == LiveOrnamentRow(pane) IN i # 0 /\ pane[i].says = "queued"

ClaudeQueuedMessage(pane) ==
  LET i == InputRow(pane) IN i # 0 /\ pane[i].says = "queued"

ClaudeWrapUpReading(pane) ==
  LET i == InputRow(pane) IN
  CASE i = 0 -> "unknown"
    [] i # 0 /\ ~pane[i].nbsp -> "unknown"
    [] i # 0 /\ pane[i].nbsp /\ (pane[i].says = "queued" \/ pane[i].fg = "busy") -> "no"
    [] i # 0 /\ pane[i].nbsp /\ pane[i].says # "queued" /\ pane[i].fg = "other" -> "unknown"
    [] OTHER -> Whether(RowIsClear(pane[i]))

(* A mutant: whichever entry is selected.                                *)
OffersExit_AnyEntry(pane) ==
  LET i == LiveOrnamentRow(pane) IN
  /\ i # 0
  /\ ~pane[i].nbsp
  /\ \E h \in 1..(i - 1) :
       /\ pane[h].says = "background-work-is-running"
       /\ \A j \in h..(i - 1) : ~pane[j].prompt

(* exit_menu.py: the selected row reads "Exit and stop tasks", under the   *)
(* heading, with no other ornament between.                                *)
OffersExit(pane) ==
  LET i == LiveOrnamentRow(pane) IN
  /\ i # 0
  /\ ~pane[i].nbsp
  /\ pane[i].says = "exit-and-stop-tasks"
  /\ \E h \in 1..(i - 1) :
       /\ pane[h].says = "background-work-is-running"
       /\ \A j \in h..(i - 1) : ~pane[j].prompt

-----------------------------------------------------------------------------
(* agy                                                                     *)

(* The last `>` row between two rules; 0 where there is none.              *)
AgyBox(pane) ==
  LET boxes == {i \in 2..(Len(pane) - 1) :
                  pane[i].prompt /\ IsRule(pane[i - 1]) /\ IsRule(pane[i + 1])} IN
  IF boxes = {} THEN 0 ELSE Max(boxes)

(* The last row with text under the box's lower rule.                      *)
AgyFooter(pane, box) ==
  LET i == SelectLastInSeq(pane, LAMBDA row : row.says # "nothing") IN
  IF i >= box + 2 THEN pane[i].says ELSE "nothing"

AgyInputIsClear(pane) ==
  LET box == AgyBox(pane) IN
  IF box = 0 THEN "unknown" ELSE Whether(pane[box].says = "nothing")

AgyQueuedMessage(pane) ==
  LET box == AgyBox(pane) IN
  /\ box # 0
  /\ \/ AgyFooter(pane, box) = "queued"
     \/ box > 2 /\ pane[box - 2].says = "queued-mark"

AgyWrapUpReading(pane) ==
  LET box == AgyBox(pane) IN
  IF box = 0 THEN "unknown"
  ELSE IF \/ AgyFooter(pane, box) = "esc-to-cancel"
          \/ AgyQueuedMessage(pane)
          \/ AgyInputIsClear(pane) = "no"
       THEN "no"
       ELSE IF AgyFooter(pane, box) = "?-for-shortcuts" THEN "yes" ELSE "unknown"

-----------------------------------------------------------------------------
(* By the adapter of the agent in the pane                                 *)

InputIsClear(agent, pane) ==
  IF agent = "claude" THEN ClaudeInputIsClear(pane) ELSE AgyInputIsClear(pane)
QueuedMessage(agent, pane) ==
  IF agent = "claude" THEN ClaudeQueuedMessage(pane) ELSE AgyQueuedMessage(pane)
WrapUpReading(agent, pane) ==
  IF agent = "claude" THEN ClaudeWrapUpReading(pane) ELSE AgyWrapUpReading(pane)
=============================================================================
