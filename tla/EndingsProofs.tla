---------------------------- MODULE EndingsProofs ----------------------------
(***************************************************************************)
(* How an agent is ended: by the keys typed at it, and by a signal to its  *)
(* number.  Both act on a look that may be old by then.                    *)
(*                                                                         *)
(* ExitKeys: what the screen readings say of every frame the agents draw;  *)
(* from there, what the looks of a stop still tell as long as no other     *)
(* hand has changed the ui; and from that, where its keys land.            *)
(*                                                                         *)
(* EndByPid: for every set of numbers and of threads, a handle that is     *)
(* live at the send is of the process the verification read, and at an     *)
(* expiry of the one both looks saw.                                       *)
(***************************************************************************)
EXTENDS EndByPid, ExitKeys, FiniteSetTheorems, TLAPS

-----------------------------------------------------------------------------
(* What is drawn, row by row.                                              *)

Says == {"nothing", "words", "rule", "background-work-is-running", "exit-and-stop-tasks", "move",
         "stay", "enter-to-confirm", "draft", "prompt", "queued", "a-suggestion",
         "queued-mark", "esc-to-cancel", "?-for-shortcuts"}
PaneRow == [prompt : BOOLEAN, nbsp : BOOLEAN, dim : BOOLEAN, fg : {"idle", "busy"}, says : Says]

Spots == {"box", "question", "strange", "exit-menu", "gone"}
Turns == {"idle", "turn", "theirs", "wrap-up"}
Work == {"theirs", "wrap-up", "exit"}
Uis == [spot : Spots, hold : {"nothing", "draft", "prompt"}, turn : Turns, queue : Seq(Work),
        panel : BOOLEAN, asked : BOOLEAN, sel : {"exit-and-stop-tasks", "stay"}]

\* Rows 1 to k-1 may carry an ornament, row k does, and none below it.
Ornament(rows, k) ==
  /\ rows \in Seq(PaneRow)
  /\ k \in 1..Len(rows) /\ rows[k].prompt
  /\ \A j \in (k + 1)..Len(rows) : ~rows[j].prompt /\ rows[j].says # "nothing"

\* The last row that has something is the one below which no row has.
LEMMA LastOne ==
  ASSUME NEW n \in Nat, NEW I \in SUBSET (1..n), NEW i \in I, \A j \in I : j <= i
  PROVE  (IF I # {} THEN Max(I) ELSE 0) = i
<1>1. \A x \in I : (\A y \in I : x >= y) => x = i
  OBVIOUS
<1>2. \A y \in I : i >= y
  OBVIOUS
<1>3. (CHOOSE x \in I : \A y \in I : x >= y) = i
  BY <1>1, <1>2
<1> QED BY <1>3 DEF Max

\* The last row with an ornament is the one below which there is none.
LEMMA LastOrnament ==
  ASSUME NEW rows, NEW k, Ornament(rows, k)
  PROVE  /\ LastOrnamentRow(rows) = k
         /\ Below(rows, k) = Len(rows) - k
<1>0. rows \in Seq(PaneRow) /\ k \in 1..Len(rows)
  BY Zenon DEF Ornament
<1>1. k \in Nat /\ Len(rows) \in Nat /\ k <= Len(rows)
  BY <1>0
<1>2. LastOrnamentRow(rows) = k
  <2> DEFINE I == {j \in 1..Len(rows) : rows[j].prompt}
  <2>1. k \in I /\ I \in SUBSET (1..Len(rows))
    BY DEF Ornament
  <2>2. \A j \in I : j <= k
    <3> SUFFICES ASSUME NEW j \in 1..Len(rows), rows[j].prompt, ~(j <= k) PROVE FALSE
      OBVIOUS
    <3>1. j \in (k + 1)..Len(rows)
      BY <1>1
    <3> QED BY <3>1, Zenon DEF Ornament
  <2> HIDE DEF I
  <2>3. (IF I # {} THEN Max(I) ELSE 0) = k
    BY <1>1, <2>1, <2>2, LastOne
  <2> QED BY <2>3 DEF LastOrnamentRow, SelectLastInSeq, I
<1>3. {j \in (k + 1)..Len(rows) : rows[j].says # "nothing"} = (k + 1)..Len(rows)
  BY DEF Ornament
<1>4. Cardinality((k + 1)..Len(rows)) = Len(rows) - k
  <2>1. k + 1 \in Int /\ Len(rows) \in Int
    BY <1>1
  <2>2. Cardinality((k + 1)..Len(rows)) = IF k + 1 > Len(rows) THEN 0 ELSE Len(rows) - (k + 1) + 1
    BY <2>1, FS_Interval
  <2> QED BY <1>1, <2>2
<1> QED BY <1>2, <1>3, <1>4 DEF Below

\* Where no row has an ornament there is no last one.
LEMMA NoOrnament ==
  ASSUME NEW rows \in Seq(PaneRow), \A j \in 1..Len(rows) : ~rows[j].prompt
  PROVE  LastOrnamentRow(rows) = 0
<1>1. {j \in 1..Len(rows) : rows[j].prompt} = {}
  OBVIOUS
<1> QED BY <1>1 DEF LastOrnamentRow, SelectLastInSeq

\* What stands before a body of rows leaves them where they were in it.
LEMMA Behind ==
  ASSUME NEW b \in BOOLEAN, NEW row \in PaneRow, NEW body \in Seq(PaneRow)
  PROVE  LET rows == (IF b THEN <<row>> ELSE <<>>) \o body
             k == IF b THEN 1 ELSE 0
         IN  /\ rows \in Seq(PaneRow)
             /\ Len(rows) = k + Len(body)
             /\ \A j \in 1..Len(body) : rows[k + j] = body[j]
             /\ b => rows[1] = row
<1>1. CASE b
  <2>1. <<row>> \in Seq(PaneRow) /\ Len(<<row>>) = 1 /\ <<row>>[1] = row
    OBVIOUS
  <2>2. PICK one \in Seq(PaneRow) : one = <<row>> /\ Len(one) = 1 /\ one[1] = row
    BY <2>1
  <2> QED BY <1>1, <2>2
<1>2. CASE ~b
  <2>1. <<>> \o body = body
    OBVIOUS
  <2> QED BY <1>2, <2>1
<1> QED BY <1>1, <1>2

\* Four rows are a sequence of four.
LEMMA Four ==
  ASSUME NEW S, NEW a \in S, NEW b \in S, NEW c \in S, NEW d \in S
  PROVE  /\ <<a, b, c, d>> \in Seq(S) /\ Len(<<a, b, c, d>>) = 4
         /\ <<a, b, c, d>>[1] = a /\ <<a, b, c, d>>[2] = b
         /\ <<a, b, c, d>>[3] = c /\ <<a, b, c, d>>[4] = d
OBVIOUS

\* And three are of three.
LEMMA Three ==
  ASSUME NEW S, NEW a \in S, NEW b \in S, NEW c \in S
  PROVE  /\ <<a, b, c>> \in Seq(S) /\ Len(<<a, b, c>>) = 3
         /\ <<a, b, c>>[1] = a /\ <<a, b, c>>[2] = b /\ <<a, b, c>>[3] = c
OBVIOUS

\* And two of two.
LEMMA Two ==
  ASSUME NEW S, NEW a \in S, NEW b \in S
  PROVE  /\ <<a, b>> \in Seq(S) /\ Len(<<a, b>>) = 2
         /\ <<a, b>>[1] = a /\ <<a, b>>[2] = b
OBVIOUS

\* And one of one.
LEMMA One ==
  ASSUME NEW S, NEW a \in S
  PROVE  <<a>> \in Seq(S) /\ Len(<<a>>) = 1 /\ <<a>>[1] = a
OBVIOUS

\* One after the other.
LEMMA Joined ==
  ASSUME NEW S, NEW s \in Seq(S), NEW t \in Seq(S)
  PROVE  /\ s \o t \in Seq(S) /\ Len(s \o t) = Len(s) + Len(t)
         /\ \A i \in 1..(Len(s) + Len(t)) : (s \o t)[i] = IF i <= Len(s) THEN s[i] ELSE t[i - Len(s)]
OBVIOUS

\* The rows agents draw are rows.
LEMMA RowsAreRows ==
  /\ \A s \in Says : Row(s) \in PaneRow /\ PromptRow(s) \in PaneRow
  /\ \A s \in Says, n \in Nat : /\ Rows(n, s) \in Seq(PaneRow) /\ Len(Rows(n, s)) = n
                                /\ \A i \in 1..n : Rows(n, s)[i] = Row(s)
  /\ \A u \in Uis : BoxRow(u) \in PaneRow
<1>1. \A s \in Says : Row(s) \in PaneRow /\ PromptRow(s) \in PaneRow
  BY DEF Row, PromptRow, PaneRow
<1>2. ASSUME NEW s \in Says, NEW n \in Nat
      PROVE  /\ Rows(n, s) \in Seq(PaneRow) /\ Len(Rows(n, s)) = n
             /\ \A i \in 1..n : Rows(n, s)[i] = Row(s)
  <2>1. PICK row \in PaneRow : row = Row(s)
    BY <1>1
  <2>2. Rows(n, s) = [i \in 1..n |-> row]
    BY <2>1 DEF Rows
  <2> QED BY <2>1, <2>2
<1>3. ASSUME NEW u \in Uis PROVE BoxRow(u) \in PaneRow
  BY DEF BoxRow, PaneRow, Uis, Says, Busy
<1> QED BY <1>1, <1>2, <1>3

\* A box is drawn between two rules, whatever is above it and below.
LEMMA ClaudeBox ==
  ASSUME NEW u \in Uis, u.spot = "box"
  PROVE  \E k \in Nat :
           LET rows == ClaudeDraws(u, FALSE)
           IN  /\ Ornament(rows, k) /\ rows[k] = BoxRow(u)
               /\ k > 1 /\ k < Len(rows)
               /\ rows[k - 1] = Rule /\ rows[k + 1] = Rule
<1>1. PICK box \in PaneRow : box = BoxRow(u)
  BY RowsAreRows
<1>2. PICK words \in PaneRow : words = Row("words")
  BY RowsAreRows DEF Says
<1>3. PICK rule \in PaneRow : rule = Rule
  BY RowsAreRows DEF Says, Rule
<1>4. PICK n \in Nat : n = IF u.panel THEN MODAL_TAIL_ROWS ELSE 0
  BY ScreenAssumption
<1>5. PICK below \in Seq(PaneRow) :
        /\ below = Rows(n, "words") /\ Len(below) = n
        /\ \A i \in 1..n : below[i] = words
  BY <1>2, RowsAreRows DEF Says
<1>6. PICK body \in Seq(PaneRow) :
        /\ body = <<rule, box, rule, words>> \o below
        /\ Len(body) = 4 + n
        /\ body[1] = rule /\ body[2] = box /\ body[3] = rule
        /\ \A i \in 3..Len(body) : body[i] \in {rule, words}
  <2>1. PICK top \in Seq(PaneRow) : /\ top = <<rule, box, rule, words>> /\ Len(top) = 4
                                    /\ top[1] = rule /\ top[2] = box
                                    /\ top[3] = rule /\ top[4] = words
    <3>1. /\ <<rule, box, rule, words>> \in Seq(PaneRow) /\ Len(<<rule, box, rule, words>>) = 4
          /\ <<rule, box, rule, words>>[1] = rule /\ <<rule, box, rule, words>>[2] = box
          /\ <<rule, box, rule, words>>[3] = rule /\ <<rule, box, rule, words>>[4] = words
      BY Four
    <3> QED BY <3>1
  <2>2. top \o below \in Seq(PaneRow) /\ Len(top \o below) = 4 + n
    BY <2>1, <1>5
  <2>3. \A i \in 1..(4 + n) : (top \o below)[i] = IF i <= 4 THEN top[i] ELSE below[i - 4]
    BY <2>1, <1>5
  <2>4. \A i \in 3..(4 + n) : (top \o below)[i] \in {rule, words}
    <3> SUFFICES ASSUME NEW i \in 3..(4 + n) PROVE (top \o below)[i] \in {rule, words}
      OBVIOUS
    <3>1. CASE i = 3 BY <3>1, <2>1, <2>3
    <3>2. CASE i = 4 BY <3>2, <2>1, <2>3
    <3>3. CASE i > 4
      <4>1. i - 4 \in 1..n /\ i \in 1..(4 + n) /\ ~(i <= 4)
        BY <3>3
      <4>2. (top \o below)[i] = below[i - 4]
        BY <4>1, <2>3
      <4> QED BY <4>1, <4>2, <1>5
    <3>4. i = 3 \/ i = 4 \/ i > 4
      OBVIOUS
    <3> QED BY <3>1, <3>2, <3>3, <3>4
  <2>5. /\ (top \o below)[1] = rule /\ (top \o below)[2] = box /\ (top \o below)[3] = rule
    BY <2>1, <2>3
  <2> QED BY <2>1, <2>2, <2>4, <2>5
<1>7. PICK k \in {0, 1} : k = IF u.asked THEN 1 ELSE 0
  OBVIOUS
<1>8. PICK rows : rows = (IF u.asked THEN <<PromptRow("words")>> ELSE <<>>) \o body
  OBVIOUS
<1>9. /\ rows \in Seq(PaneRow) /\ Len(rows) = k + Len(body)
      /\ \A j \in 1..Len(body) : rows[k + j] = body[j]
  <2>1. PromptRow("words") \in PaneRow /\ u.asked \in BOOLEAN
    BY RowsAreRows DEF Says, Uis
  <2> QED BY <1>7, <1>8, <2>1, Behind
<1>10. rows = ClaudeDraws(u, FALSE)
  BY <1>1, <1>2, <1>3, <1>4, <1>5, <1>6, <1>8 DEF ClaudeDraws
<1>11. box.prompt /\ ~rule.prompt /\ ~words.prompt /\ rule.says # "nothing" /\ words.says # "nothing"
  BY <1>1, <1>2, <1>3 DEF BoxRow, Row, Rule
<1>12. rows[k + 1] = rule /\ rows[k + 2] = box /\ rows[k + 3] = rule
  BY <1>6, <1>9
<1>13. \A j \in (k + 3)..Len(rows) : rows[j] \in {rule, words}
  <2> SUFFICES ASSUME NEW j \in (k + 3)..Len(rows) PROVE rows[j] \in {rule, words}
    OBVIOUS
  <2>1. j - k \in 3..Len(body) /\ j - k \in 1..Len(body) /\ k + (j - k) = j
    BY <1>9, <1>7
  <2> QED BY <2>1, <1>6, <1>9
<1>14. Ornament(rows, k + 2)
  <2>1. k + 2 \in 1..Len(rows) /\ (k + 2) + 1 = k + 3
    BY <1>6, <1>7, <1>9
  <2>2. \A j \in ((k + 2) + 1)..Len(rows) : ~rows[j].prompt /\ rows[j].says # "nothing"
    BY <2>1, <1>11, <1>13
  <2> QED BY <2>1, <2>2, <1>9, <1>11, <1>12 DEF Ornament
<1>15. /\ k + 2 \in Nat /\ k + 2 > 1 /\ k + 2 < Len(rows)
       /\ (k + 2) - 1 = k + 1 /\ (k + 2) + 1 = k + 3
  BY <1>6, <1>7, <1>9
<1> QED BY <1>1, <1>3, <1>10, <1>12, <1>14, <1>15

\* So are the others of a session, where nothing is torn.
LEMMA ClaudeQuestion ==
  ASSUME NEW u \in Uis, u.spot = "question"
  PROVE  \E k \in Nat : LET rows == ClaudeDraws(u, FALSE)
                        IN  Ornament(rows, k) /\ rows[k] = PromptRow("words")
<1>1. PICK words \in PaneRow : words = Row("words")
  BY RowsAreRows DEF Says
<1>2. PICK row \in PaneRow : row = PromptRow("words")
  BY RowsAreRows DEF Says
<1>3. PICK body \in Seq(PaneRow) : /\ body = <<words, row, words>> /\ Len(body) = 3
                                    /\ body[2] = row /\ body[3] = words
  <2>1. /\ <<words, row, words>> \in Seq(PaneRow) /\ Len(<<words, row, words>>) = 3
        /\ <<words, row, words>>[2] = row /\ <<words, row, words>>[3] = words
    BY Three
  <2> QED BY <2>1
<1>4. PICK k \in {0, 1} : k = IF u.asked THEN 1 ELSE 0
  OBVIOUS
<1>5. PICK rows : rows = (IF u.asked THEN <<row>> ELSE <<>>) \o body
  OBVIOUS
<1>6. /\ rows \in Seq(PaneRow) /\ Len(rows) = k + 3
      /\ \A j \in 1..3 : rows[k + j] = body[j]
  <2>1. u.asked \in BOOLEAN
    BY DEF Uis
  <2> QED BY <1>3, <1>4, <1>5, <2>1, Behind
<1>7. rows = ClaudeDraws(u, FALSE)
  BY <1>1, <1>2, <1>3, <1>5 DEF ClaudeDraws
<1>8. row.prompt /\ ~words.prompt /\ words.says # "nothing"
  BY <1>1, <1>2 DEF PromptRow, Row
<1>9. rows[k + 2] = row /\ rows[k + 3] = words
  BY <1>3, <1>6
<1>10. Ornament(rows, k + 2)
  <2>1. k + 2 \in 1..Len(rows) /\ (k + 2) + 1 = k + 3 /\ (k + 3)..Len(rows) = {k + 3}
    BY <1>4, <1>6
  <2> QED BY <2>1, <1>6, <1>8, <1>9 DEF Ornament
<1>11. k + 2 \in Nat
  BY <1>4
<1> QED BY <1>2, <1>7, <1>9, <1>10, <1>11

\* The exit menu is drawn with its ornament at the entry that is selected.
LEMMA ClaudeMenu ==
  ASSUME NEW u \in Uis, u.spot = "exit-menu"
  PROVE  \E k \in Nat :
           LET rows == ClaudeDraws(u, FALSE)
           IN  /\ Ornament(rows, k)
               /\ rows[k] = PromptRow(IF u.sel = "stay" THEN "stay" ELSE "exit-and-stop-tasks")
<1>1. PICK heading \in PaneRow : heading = Row("background-work-is-running")
  BY RowsAreRows DEF Says
<1>2. PICK footing \in PaneRow : footing = Row("enter-to-confirm")
  BY RowsAreRows DEF Says
<1>3. PICK entry \in PaneRow : entry = (IF u.sel = "stay" THEN Row("exit-and-stop-tasks")
                                       ELSE PromptRow("exit-and-stop-tasks"))
  BY RowsAreRows DEF Says
<1>4. PICK moving \in PaneRow : moving = Row("move")
  BY RowsAreRows DEF Says
<1>5. PICK stays \in PaneRow : stays = (IF u.sel = "stay" THEN PromptRow("stay") ELSE Row("stay"))
  BY RowsAreRows DEF Says
<1>6. PICK body \in Seq(PaneRow) :
        /\ body = <<heading>> \o <<entry, moving, stays>> \o <<footing>> /\ Len(body) = 5
        /\ body[2] = entry /\ body[3] = moving /\ body[4] = stays /\ body[5] = footing
  <2>1. PICK menu : menu = <<entry, moving, stays>>
    OBVIOUS
  <2>2. menu \in Seq(PaneRow) /\ Len(menu) = 3 /\ menu[1] = entry /\ menu[2] = moving /\ menu[3] = stays
    BY <2>1, Three
  <2>3. PICK above : above = <<heading>>
    OBVIOUS
  <2>4. above \in Seq(PaneRow) /\ Len(above) = 1 /\ above[1] = heading
    BY <2>3, One
  <2>5. PICK under : under = <<footing>>
    OBVIOUS
  <2>6. under \in Seq(PaneRow) /\ Len(under) = 1 /\ under[1] = footing
    BY <2>5, One
  <2>7. PICK upper : upper = above \o menu
    OBVIOUS
  <2>8. /\ upper \in Seq(PaneRow) /\ Len(upper) = 4
        /\ upper[2] = entry /\ upper[3] = moving /\ upper[4] = stays
    <3>1. /\ above \o menu \in Seq(PaneRow) /\ Len(above \o menu) = Len(above) + Len(menu)
          /\ \A i \in 1..(Len(above) + Len(menu)) :
               (above \o menu)[i] = IF i <= Len(above) THEN above[i] ELSE menu[i - Len(above)]
      BY <2>2, <2>4, Joined
    <3>2. 2 \in 1..4 /\ 3 \in 1..4 /\ 4 \in 1..4
      OBVIOUS
    <3> QED BY <3>1, <3>2, <2>2, <2>4, <2>7
  <2>9. PICK whole : whole = upper \o under
    OBVIOUS
  <2>10. /\ whole \in Seq(PaneRow) /\ Len(whole) = 5
         /\ whole[2] = entry /\ whole[3] = moving /\ whole[4] = stays /\ whole[5] = footing
    <3>1. /\ upper \o under \in Seq(PaneRow) /\ Len(upper \o under) = Len(upper) + Len(under)
          /\ \A i \in 1..(Len(upper) + Len(under)) :
               (upper \o under)[i] = IF i <= Len(upper) THEN upper[i] ELSE under[i - Len(upper)]
      BY <2>6, <2>8, Joined
    <3>2. 2 \in 1..5 /\ 3 \in 1..5 /\ 4 \in 1..5 /\ 5 \in 1..5
      OBVIOUS
    <3> QED BY <3>1, <3>2, <2>6, <2>8, <2>9
  <2> QED BY <2>1, <2>3, <2>5, <2>7, <2>9, <2>10
<1>7. PICK k \in {0, 1} : k = IF u.asked THEN 1 ELSE 0
  OBVIOUS
<1>8. PICK rows : rows = (IF u.asked THEN <<PromptRow("words")>> ELSE <<>>) \o body
  OBVIOUS
<1>9. /\ rows \in Seq(PaneRow) /\ Len(rows) = k + 5
      /\ \A j \in 1..5 : rows[k + j] = body[j]
  <2>1. PromptRow("words") \in PaneRow /\ u.asked \in BOOLEAN
    BY RowsAreRows DEF Says, Uis
  <2> QED BY <1>6, <1>7, <1>8, <2>1, Behind
<1>10. rows = ClaudeDraws(u, FALSE)
  BY <1>1, <1>2, <1>3, <1>4, <1>5, <1>6, <1>8 DEF ClaudeDraws
<1>11. /\ rows[k + 2] = entry /\ rows[k + 3] = moving
       /\ rows[k + 4] = stays /\ rows[k + 5] = footing
  BY <1>6, <1>9
<1>12. ~moving.prompt /\ moving.says # "nothing" /\ ~footing.prompt /\ footing.says # "nothing"
  BY <1>2, <1>4 DEF Row
<1>13. CASE u.sel = "stay"
  <2>1. stays = PromptRow("stay") /\ stays.prompt
    BY <1>5, <1>13 DEF PromptRow, Row
  <2>2. /\ k + 4 \in 1..Len(rows) /\ (k + 4) + 1 = k + 5 /\ (k + 5)..Len(rows) = {k + 5}
        /\ k + 4 \in Nat
    BY <1>7, <1>9
  <2>3. Ornament(rows, k + 4)
    BY <2>1, <2>2, <1>9, <1>11, <1>12 DEF Ornament
  <2> QED BY <2>1, <2>2, <2>3, <1>10, <1>11, <1>13
<1>14. CASE u.sel # "stay"
  <2>1. entry = PromptRow("exit-and-stop-tasks") /\ entry.prompt /\ ~stays.prompt /\ stays.says # "nothing"
    BY <1>3, <1>5, <1>14 DEF PromptRow, Row
  <2>2. /\ k + 2 \in 1..Len(rows) /\ (k + 2) + 1 = k + 3 /\ k + 2 \in Nat
        /\ (k + 3)..Len(rows) = {k + 3, k + 4, k + 5}
    BY <1>7, <1>9
  <2>3. Ornament(rows, k + 2)
    BY <2>1, <2>2, <1>9, <1>11, <1>12 DEF Ornament
  <2> QED BY <2>1, <2>2, <2>3, <1>10, <1>11, <1>14
<1> QED BY <1>13, <1>14

\* Words alone leave at most an old question above, scrolled past.
LEMMA ClaudeWords ==
  ASSUME NEW u \in Uis, NEW torn \in BOOLEAN, u.spot # "gone", u.spot = "strange" \/ torn
  PROVE  LET rows == ClaudeDraws(u, torn)
         IN  /\ rows \in Seq(PaneRow)
             /\ \/ \A j \in 1..Len(rows) : ~rows[j].prompt
                \/ /\ Ornament(rows, 1) /\ rows[1] = PromptRow("words")
                   /\ Len(rows) = MODAL_TAIL_ROWS + 2
<1>1. PICK words \in PaneRow : words = Row("words")
  BY RowsAreRows DEF Says
<1>2. PICK n \in Nat : n = MODAL_TAIL_ROWS + 1
  BY ScreenAssumption
<1>3. PICK body \in Seq(PaneRow) :
        /\ body = Rows(n, "words") /\ Len(body) = n /\ \A i \in 1..n : body[i] = words
  BY <1>1, RowsAreRows DEF Says
<1>4. PICK row \in PaneRow : row = PromptRow("words")
  BY RowsAreRows DEF Says
<1>5. PICK k \in {0, 1} : k = IF u.asked THEN 1 ELSE 0
  OBVIOUS
<1>6. PICK rows : rows = (IF u.asked THEN <<row>> ELSE <<>>) \o body
  OBVIOUS
<1>7. /\ rows \in Seq(PaneRow) /\ Len(rows) = k + n
      /\ \A j \in 1..n : rows[k + j] = body[j]
      /\ u.asked => rows[1] = row
  <2>1. u.asked \in BOOLEAN
    BY DEF Uis
  <2> QED BY <1>3, <1>4, <1>5, <1>6, <2>1, Behind
<1>8. rows = ClaudeDraws(u, torn)
  BY <1>2, <1>3, <1>4, <1>6 DEF ClaudeDraws
<1>9. row.prompt /\ ~words.prompt /\ words.says # "nothing"
  BY <1>1, <1>4 DEF PromptRow, Row
<1>10. \A j \in (k + 1)..Len(rows) : rows[j] = words
  <2> SUFFICES ASSUME NEW j \in (k + 1)..Len(rows) PROVE rows[j] = words
    OBVIOUS
  <2>1. j - k \in 1..n /\ k + (j - k) = j
    BY <1>5, <1>7
  <2> QED BY <2>1, <1>3, <1>7
<1>11. CASE u.asked
  <2>1. k = 1 /\ 1 \in 1..Len(rows) /\ Len(rows) = MODAL_TAIL_ROWS + 2
    BY <1>11, <1>5, <1>2, <1>7, ScreenAssumption
  <2>2. Ornament(rows, 1)
    BY <2>1, <1>7, <1>9, <1>10, <1>11 DEF Ornament
  <2> QED BY <2>1, <2>2, <1>4, <1>7, <1>8, <1>11
<1>12. CASE ~u.asked
  <2>1. k + 1 = 1
    BY <1>12, <1>5
  <2> QED BY <2>1, <1>7, <1>8, <1>9, <1>10
<1> QED BY <1>11, <1>12

-----------------------------------------------------------------------------
(* What Claude Code's readings make of it.                                 *)

Waits(u) == Waiting(u) # <<>>
Empty(u) == u.spot = "box" /\ u.hold = "nothing"
\* At rest, with nothing typed and nothing waiting.
Rests(u) == Empty(u) /\ ~Busy(u) /\ ~Waits(u)

\* The row of a box is read in either layout.
LEMMA BoxReads ==
  ASSUME NEW u \in Uis, u.spot = "box"
  PROVE  LET rows == ClaudeDraws(u, FALSE)
         IN  /\ ClaudeInputIsClear(rows) = "yes" <=> u.hold = "nothing"
             /\ AwaitsAnswer(rows) # "yes"
             /\ ~OffersExit(rows)
             /\ u.hold = "nothing" => (ClaudeQueuedMessage(rows) <=> Waits(u))
             /\ ClaudeWrapUpReading(rows) = "yes" <=> Rests(u)
<1>1. PICK rows : rows = ClaudeDraws(u, FALSE)
  OBVIOUS
<1>2. PICK k \in Nat : /\ Ornament(rows, k) /\ rows[k] = BoxRow(u)
                       /\ k > 1 /\ k < Len(rows)
                       /\ rows[k - 1] = Rule /\ rows[k + 1] = Rule
  BY <1>1, ClaudeBox
<1>3. LastOrnamentRow(rows) = k
  BY <1>2, LastOrnament
<1>4. IsRule(rows[k - 1]) /\ IsRule(rows[k + 1])
  BY <1>2 DEF IsRule, Rule, Row
<1>5. BoxedOrnamentRow(rows) = k
  BY <1>2, <1>3, <1>4 DEF BoxedOrnamentRow
<1>6. LiveOrnamentRow(rows) \in {0, k}
  BY <1>3 DEF LiveOrnamentRow
<1>7. InputRow(rows) = k /\ k # 0
  BY <1>2, <1>5, <1>6 DEF InputRow
<1>8. /\ rows[k].nbsp /\ (rows[k].dim <=> u.hold = "nothing")
      /\ rows[k].fg = (IF Busy(u) THEN "busy" ELSE "idle")
      /\ u.hold # "nothing" => rows[k].says = u.hold
      /\ u.hold = "nothing" => (rows[k].says = "queued" <=> Waits(u))
  <2>1. PICK row : row = rows[k]
    OBVIOUS
  <2>2. row.nbsp = TRUE /\ row.dim = (u.hold = "nothing")
    BY <1>2, <2>1 DEF BoxRow
  <2>3. row.fg = (IF Busy(u) THEN "busy" ELSE "idle")
    BY <1>2, <2>1 DEF BoxRow
  <2>4. u.hold # "nothing" => row.says = u.hold
    BY <1>2, <2>1 DEF BoxRow
  <2>5. u.hold = "nothing" => (row.says = "queued" <=> Waits(u))
    BY <1>2, <2>1 DEF BoxRow, Waits
  <2> QED BY <2>1, <2>2, <2>3, <2>4, <2>5
<1>9. RowIsClear(rows[k]) <=> u.hold = "nothing"
  BY <1>8 DEF RowIsClear, Uis
<1>10. ClaudeInputIsClear(rows) = "yes" <=> u.hold = "nothing"
  BY <1>3, <1>7, <1>9 DEF ClaudeInputIsClear, Whether
<1>11. ShowsInputBox(rows) # "no"
  BY <1>6, <1>8 DEF ShowsInputBox, Whether
<1>12. AwaitsAnswer(rows) # "yes"
  BY <1>11 DEF AwaitsAnswer
<1>13. ~OffersExit(rows)
  BY <1>6, <1>8 DEF OffersExit
<1>14. u.hold = "nothing" => (ClaudeQueuedMessage(rows) <=> Waits(u))
  BY <1>7, <1>8 DEF ClaudeQueuedMessage
<1>15. ClaudeWrapUpReading(rows) = "yes" <=> Rests(u)
  <2>1. CASE u.hold # "nothing"
    <3>1. ~RowIsClear(rows[k])
      BY <2>1, <1>9
    <3>2. ~Rests(u)
      BY <2>1 DEF Rests, Empty
    <3> QED BY <3>1, <3>2, <1>7, <1>8 DEF ClaudeWrapUpReading, Whether
  <2>2. CASE u.hold = "nothing"
    <3>1. RowIsClear(rows[k])
      BY <2>2, <1>9
    <3>2. Rests(u) <=> ~Busy(u) /\ ~Waits(u)
      BY <2>2 DEF Rests, Empty
    <3>3. ~(rows[k].fg = "other")
      BY <1>8
    <3>4. CASE ~Busy(u) /\ ~Waits(u)
      <4>1. rows[k].says # "queued" /\ rows[k].fg = "idle"
        BY <3>4, <2>2, <1>8
      <4> QED BY <3>1, <3>2, <3>4, <4>1, <1>7, <1>8 DEF ClaudeWrapUpReading, Whether
    <3>5. CASE Busy(u) \/ Waits(u)
      <4>1. rows[k].says = "queued" \/ rows[k].fg = "busy"
        BY <3>5, <2>2, <1>8
      <4> QED BY <3>2, <3>5, <4>1, <1>7, <1>8 DEF ClaudeWrapUpReading, Whether
    <3> QED BY <3>4, <3>5
  <2> QED BY <2>1, <2>2
<1> QED BY <1>1, <1>10, <1>12, <1>13, <1>14, <1>15

\* A row with words behind its ornament is no input box.
LEMMA WordsRead ==
  ASSUME NEW rows, NEW k, Ornament(rows, k), NEW s \in Says \ {"nothing"}, rows[k] = PromptRow(s)
  PROVE  /\ LastOrnamentRow(rows) = k /\ InputRow(rows) \in {0, k} /\ LiveOrnamentRow(rows) \in {0, k}
         /\ ClaudeInputIsClear(rows) # "yes" /\ ClaudeWrapUpReading(rows) # "yes"
<1>1. k # 0
  <2>1. k \in 1..Len(rows)
    BY Zenon DEF Ornament
  <2>2. rows \in Seq(PaneRow)
    BY Zenon DEF Ornament
  <2>3. Len(rows) \in Nat
    BY <2>2
  <2> QED BY <2>1, <2>3
<1>2. LastOrnamentRow(rows) = k
  BY LastOrnament
<1>3. BoxedOrnamentRow(rows) \in {0, k} /\ LiveOrnamentRow(rows) \in {0, k}
  BY <1>2 DEF BoxedOrnamentRow, LiveOrnamentRow
<1>4. InputRow(rows) \in {0, k}
  BY <1>3 DEF InputRow
<1>5. ~rows[k].nbsp /\ ~rows[k].dim /\ rows[k].says # "nothing"
  BY DEF PromptRow, Row
<1>6. ClaudeInputIsClear(rows) # "yes"
  BY <1>1, <1>2, <1>5 DEF ClaudeInputIsClear, Whether, RowIsClear
<1>7. ClaudeWrapUpReading(rows) # "yes"
  BY <1>1, <1>4, <1>5 DEF ClaudeWrapUpReading
<1> QED BY <1>2, <1>3, <1>4, <1>6, <1>7

\* What has no ornament is not read at all.
LEMMA NothingRead ==
  ASSUME NEW rows \in Seq(PaneRow), \A j \in 1..Len(rows) : ~rows[j].prompt
  PROVE  /\ ClaudeInputIsClear(rows) # "yes" /\ ClaudeWrapUpReading(rows) # "yes"
         /\ AwaitsAnswer(rows) # "yes" /\ ~OffersExit(rows)
<1>1. LastOrnamentRow(rows) = 0
  BY NoOrnament
<1>2. LiveOrnamentRow(rows) = 0 /\ BoxedOrnamentRow(rows) = 0
  BY <1>1 DEF LiveOrnamentRow, BoxedOrnamentRow
<1>3. InputRow(rows) = 0
  BY <1>2 DEF InputRow
<1>4. ClaudeInputIsClear(rows) = "unknown"
  BY <1>1 DEF ClaudeInputIsClear
<1>5. ClaudeWrapUpReading(rows) # "yes"
  BY <1>3 DEF ClaudeWrapUpReading
<1>6. ShowsInputBox(rows) = "unknown"
  BY <1>2 DEF ShowsInputBox
<1>7. AwaitsAnswer(rows) # "yes"
  BY <1>6 DEF AwaitsAnswer
<1> QED BY <1>2, <1>4, <1>5, <1>7 DEF OffersExit

\* What Claude Code's readings make of any frame.
LEMMA ClaudeReads ==
  ASSUME NEW u \in Uis, NEW torn \in BOOLEAN, NEW rows,
         rows = IF u.spot = "gone" THEN <<>> ELSE ClaudeDraws(u, torn)
  PROVE  /\ ClaudeInputIsClear(rows) = "yes" => Empty(u)
         /\ AwaitsAnswer(rows) = "yes" => u.spot \in {"question", "exit-menu"}
         /\ OffersExit(rows) => u.spot = "exit-menu" /\ u.sel # "stay"
         /\ ~torn /\ Empty(u) => (ClaudeQueuedMessage(rows) <=> Waits(u))
         /\ ClaudeWrapUpReading(rows) = "yes" => Rests(u)
         /\ ~torn /\ Rests(u) => ClaudeWrapUpReading(rows) = "yes"
<1>1. CASE u.spot = "gone"
  <2>1. rows = <<>>
    BY <1>1
  <2>2. <<>> \in Seq(PaneRow) /\ Len(<<>>) = 0 /\ 1..0 = {}
    OBVIOUS
  <2>3. \A j \in 1..Len(rows) : ~rows[j].prompt
    BY <2>1, <2>2
  <2> QED BY <1>1, <2>1, <2>2, <2>3, NothingRead DEF Empty, Rests
<1>2. CASE u.spot # "gone" /\ (u.spot = "strange" \/ torn)
  <2>1. rows = ClaudeDraws(u, torn)
    BY <1>2
  <2>2. CASE \A j \in 1..Len(rows) : ~rows[j].prompt
    <3>1. rows \in Seq(PaneRow)
      BY <1>2, <2>1, ClaudeWords
    <3> QED BY <1>2, <2>2, <3>1, NothingRead DEF Empty, Rests
  <2>3. CASE ~(\A j \in 1..Len(rows) : ~rows[j].prompt)
    <3>1. /\ Ornament(rows, 1) /\ rows[1] = PromptRow("words")
          /\ Len(rows) = MODAL_TAIL_ROWS + 2
      BY <1>2, <2>1, <2>3, ClaudeWords
    <3>2. LastOrnamentRow(rows) = 1 /\ Below(rows, 1) = MODAL_TAIL_ROWS + 1
      BY <3>1, LastOrnament, ScreenAssumption
    <3>3. LiveOrnamentRow(rows) = 0
      BY <3>2, ScreenAssumption DEF LiveOrnamentRow
    <3>4. "words" \in Says \ {"nothing"}
      BY DEF Says
    <3>5. ClaudeInputIsClear(rows) # "yes" /\ ClaudeWrapUpReading(rows) # "yes"
      BY <3>1, <3>4, WordsRead
    <3>6. AwaitsAnswer(rows) # "yes"
      BY <3>3 DEF AwaitsAnswer, ShowsInputBox
    <3>7. ~OffersExit(rows)
      BY <3>3 DEF OffersExit
    <3>8. ~torn => ~Empty(u) /\ ~Rests(u)
      BY <1>2 DEF Empty, Rests
    <3> QED BY <3>5, <3>6, <3>7, <3>8
  <2> QED BY <2>2, <2>3
<1>3. CASE u.spot = "box" /\ torn = FALSE
  <2>1. rows = ClaudeDraws(u, FALSE)
    BY <1>3
  <2> QED BY <1>3, <2>1, BoxReads DEF Empty
<1>4. CASE u.spot = "question" /\ torn = FALSE
  <2>1. rows = ClaudeDraws(u, FALSE)
    BY <1>4
  <2>2. PICK k \in Nat : Ornament(rows, k) /\ rows[k] = PromptRow("words")
    BY <1>4, <2>1, ClaudeQuestion
  <2>3. "words" \in Says \ {"nothing"}
    BY DEF Says
  <2>4. /\ LiveOrnamentRow(rows) \in {0, k}
        /\ ClaudeInputIsClear(rows) # "yes" /\ ClaudeWrapUpReading(rows) # "yes"
    BY <2>2, <2>3, WordsRead
  <2>5. rows[k].says = "words"
    BY <2>2 DEF PromptRow, Row
  <2>6. ~OffersExit(rows)
    BY <2>4, <2>5 DEF OffersExit
  <2> QED BY <1>4, <2>4, <2>6 DEF Empty, Rests
<1>5. CASE u.spot = "exit-menu" /\ torn = FALSE
  <2>1. rows = ClaudeDraws(u, FALSE)
    BY <1>5
  <2>2. PICK entry \in {"stay", "exit-and-stop-tasks"} :
          entry = IF u.sel = "stay" THEN "stay" ELSE "exit-and-stop-tasks"
    OBVIOUS
  <2>3. PICK k \in Nat : Ornament(rows, k) /\ rows[k] = PromptRow(entry)
    BY <1>5, <2>1, <2>2, ClaudeMenu
  <2>4. entry \in Says \ {"nothing"}
    BY DEF Says
  <2>5. /\ LiveOrnamentRow(rows) \in {0, k}
        /\ ClaudeInputIsClear(rows) # "yes" /\ ClaudeWrapUpReading(rows) # "yes"
    BY <2>3, <2>4, WordsRead
  <2>6. rows[k].says = entry
    BY <2>3 DEF PromptRow, Row
  <2>7. OffersExit(rows) => u.sel # "stay"
    BY <2>2, <2>5, <2>6 DEF OffersExit
  <2> QED BY <1>5, <2>5, <2>7 DEF Empty, Rests
<1>6. u.spot \in Spots
  BY DEF Uis
<1> QED BY <1>1, <1>2, <1>3, <1>4, <1>5, <1>6 DEF Spots

-----------------------------------------------------------------------------
(* What agy's readings make of its own.                                    *)

\* One prompt row, between two rules, and a footer; a mark above where
\* something waits.
AgyRows(rows, k, u) ==
  /\ rows \in Seq(PaneRow) /\ k \in 2..3 /\ k + 2 <= Len(rows)
  /\ rows[k].prompt /\ rows[k].says = u.hold
  /\ IsRule(rows[k - 1]) /\ IsRule(rows[k + 1])
  /\ \A j \in 1..Len(rows) : rows[j].prompt => j = k
  /\ k = 3 <=> Waits(u)
  /\ k = 3 => rows[1].says = "queued-mark"

Footer(u) ==
  IF u.hold # "nothing" THEN "nothing"
  ELSE IF Busy(u) THEN (IF Waits(u) THEN "queued" ELSE "esc-to-cancel")
  ELSE "?-for-shortcuts"

\* agy's box is the last `>` row between two rules, and its footer the last row.
LEMMA AgyBoxed ==
  ASSUME NEW u \in Uis, u.spot = "box"
  PROVE  \E k \in Nat : LET rows == AgyDraws(u, FALSE)
                        IN  AgyRows(rows, k, u) /\ rows[Len(rows)].says = Footer(u)
<1>1. PICK words \in PaneRow : words = Row("words")
  BY RowsAreRows DEF Says
<1>2. PICK rule \in PaneRow : rule = Rule
  BY RowsAreRows DEF Says, Rule
<1>3. PICK mark \in PaneRow : mark = Row("queued-mark")
  BY RowsAreRows DEF Says
<1>4. PICK box \in PaneRow : box = [PromptRow(u.hold) EXCEPT !.nbsp = FALSE]
  BY DEF PromptRow, Row, PaneRow, Uis, Says
<1>5. PICK foot \in PaneRow : foot = Row(Footer(u))
  <2>1. Footer(u) \in Says
    BY DEF Footer, Says
  <2> QED BY <2>1, RowsAreRows
<1>6. /\ ~words.prompt /\ ~rule.prompt /\ ~mark.prompt /\ ~foot.prompt
      /\ box.prompt /\ box.says = u.hold
      /\ mark.says = "queued-mark" /\ foot.says = Footer(u) /\ IsRule(rule)
  BY <1>1, <1>2, <1>3, <1>4, <1>5 DEF Row, PromptRow, Rule, IsRule
<1>7. PICK a \in {0, 1} : a = IF Waits(u) THEN 1 ELSE 0
  OBVIOUS
<1>8. PICK m \in {0, 2} : m = IF u.panel THEN 2 ELSE 0
  OBVIOUS
<1>9. PICK body \in Seq(PaneRow) : /\ body = <<rule, box, rule>> /\ Len(body) = 3
                                   /\ body[1] = rule /\ body[2] = box /\ body[3] = rule
  <2>1. /\ <<rule, box, rule>> \in Seq(PaneRow) /\ Len(<<rule, box, rule>>) = 3
        /\ <<rule, box, rule>>[1] = rule /\ <<rule, box, rule>>[2] = box /\ <<rule, box, rule>>[3] = rule
    BY Three
  <2> QED BY <2>1
<1>10. PICK panel \in Seq(PaneRow) : /\ panel = <<words, rule>> /\ Len(panel) = 2
                                     /\ panel[1] = words /\ panel[2] = rule
  <2>1. /\ <<words, rule>> \in Seq(PaneRow) /\ Len(<<words, rule>>) = 2
        /\ <<words, rule>>[1] = words /\ <<words, rule>>[2] = rule
    BY Two
  <2> QED BY <2>1
<1>11. PICK under \in Seq(PaneRow) : under = <<foot>> /\ Len(under) = 1 /\ under[1] = foot
  BY One
<1>12. PICK first : first = (IF Waits(u) THEN <<mark>> ELSE <<>>) \o body
  OBVIOUS
<1>13. /\ first \in Seq(PaneRow) /\ Len(first) = a + 3
       /\ first[a + 1] = rule /\ first[a + 2] = box /\ first[a + 3] = rule
       /\ a = 1 => first[1] = mark
  <2>1. Waits(u) \in BOOLEAN
    BY DEF Waits
  <2>2. /\ first \in Seq(PaneRow) /\ Len(first) = a + Len(body)
        /\ \A j \in 1..Len(body) : first[a + j] = body[j]
        /\ Waits(u) => first[1] = mark
    BY <2>1, <1>7, <1>12, Behind
  <2> QED BY <2>2, <1>7, <1>9
<1>14. PICK second : second = first \o (IF u.panel THEN panel ELSE <<>>)
  OBVIOUS
<1>15. /\ second \in Seq(PaneRow) /\ Len(second) = a + 3 + m
       /\ \A i \in 1..(a + 3) : second[i] = first[i]
       /\ \A i \in (a + 4)..(a + 3 + m) : second[i] \in {words, rule}
  <2>1. CASE u.panel
    <3>1. second = first \o panel
      BY <2>1, <1>14
    <3>2. /\ second \in Seq(PaneRow) /\ Len(second) = a + 3 + 2
          /\ \A i \in 1..(a + 3 + 2) : second[i] = IF i <= a + 3 THEN first[i] ELSE panel[i - (a + 3)]
      BY <3>1, <1>10, <1>13, Joined
    <3>3. \A i \in 1..(a + 3) : i \in 1..(a + 3 + 2) /\ i <= a + 3
      OBVIOUS
    <3>4. \A i \in (a + 4)..(a + 3 + 2) : /\ i \in 1..(a + 3 + 2) /\ ~(i <= a + 3)
                                          /\ i - (a + 3) \in {1, 2}
      OBVIOUS
    <3>5. m = 2
      BY <2>1, <1>8
    <3> QED BY <3>2, <3>3, <3>4, <3>5, <1>10
  <2>2. CASE ~u.panel
    <3>1. second = first \o <<>>
      BY <2>2, <1>14
    <3>2. second = first
      BY <3>1, <1>13
    <3>3. m = 0 /\ (a + 4)..(a + 3 + 0) = {} /\ a + 3 + 0 = a + 3
      BY <2>2, <1>8
    <3> QED BY <3>2, <3>3, <1>13
  <2> QED BY <2>1, <2>2
<1>16. PICK rows : rows = second \o under
  OBVIOUS
<1>17. /\ rows \in Seq(PaneRow) /\ Len(rows) = a + 4 + m
       /\ \A i \in 1..(a + 3 + m) : rows[i] = second[i]
       /\ rows[a + 4 + m] = foot
  <2>1. /\ rows \in Seq(PaneRow) /\ Len(rows) = a + 3 + m + 1
        /\ \A i \in 1..(a + 3 + m + 1) :
             rows[i] = IF i <= a + 3 + m THEN second[i] ELSE under[i - (a + 3 + m)]
    BY <1>11, <1>15, <1>16, Joined
  <2>2. a + 3 + m + 1 = a + 4 + m /\ \A i \in 1..(a + 3 + m) : i \in 1..(a + 4 + m) /\ i <= a + 3 + m
    BY <1>8
  <2>3. /\ a + 4 + m \in 1..(a + 4 + m) /\ ~(a + 4 + m <= a + 3 + m)
        /\ (a + 4 + m) - (a + 3 + m) = 1
    BY <1>8
  <2> QED BY <2>1, <2>2, <2>3, <1>11
<1>18. rows = AgyDraws(u, FALSE)
  BY <1>1, <1>2, <1>3, <1>4, <1>5, <1>9, <1>10, <1>11, <1>12, <1>14, <1>16
     DEF AgyDraws, Footer, Waits
<1>19. /\ rows[a + 1] = rule /\ rows[a + 2] = box /\ rows[a + 3] = rule
       /\ a = 1 => rows[1] = mark
  <2>1. \A i \in 1..(a + 3) : i \in 1..(a + 3 + m)
    BY <1>8
  <2>2. /\ a + 1 \in 1..(a + 3) /\ a + 2 \in 1..(a + 3) /\ a + 3 \in 1..(a + 3)
        /\ 1 \in 1..(a + 3)
    BY <1>7
  <2> QED BY <2>1, <2>2, <1>13, <1>15, <1>17
<1>20. \A i \in (a + 4)..(a + 3 + m) : ~rows[i].prompt
  <2> SUFFICES ASSUME NEW i \in (a + 4)..(a + 3 + m) PROVE ~rows[i].prompt
    OBVIOUS
  <2>1. i \in 1..(a + 3 + m)
    BY <1>7, <1>8
  <2>2. rows[i] = second[i] /\ second[i] \in {words, rule}
    BY <2>1, <1>15, <1>17
  <2> QED BY <2>2, <1>6
<1>21. \A j \in 1..Len(rows) : rows[j].prompt => j = a + 2
  <2> SUFFICES ASSUME NEW j \in 1..Len(rows), j # a + 2 PROVE ~rows[j].prompt
    OBVIOUS
  <2>1. \/ (j = 1 /\ a = 1) \/ j = a + 1 \/ j = a + 3
        \/ j \in (a + 4)..(a + 3 + m) \/ j = a + 4 + m
    BY <1>7, <1>8, <1>17
  <2> QED BY <2>1, <1>6, <1>17, <1>19, <1>20
<1>22. /\ a + 2 \in Nat /\ a + 2 \in 2..3 /\ (a + 2) + 2 <= Len(rows)
       /\ (a + 2) - 1 = a + 1 /\ (a + 2) + 1 = a + 3
       /\ a + 2 = 3 <=> a = 1
  BY <1>7, <1>8, <1>17
<1>23. AgyRows(rows, a + 2, u)
  BY <1>6, <1>7, <1>17, <1>19, <1>21, <1>22 DEF AgyRows
<1>24. rows[Len(rows)].says = Footer(u)
  BY <1>6, <1>17
<1> QED BY <1>18, <1>22, <1>23, <1>24

\* What agy's readings make of its box.
LEMMA AgyBoxReads ==
  ASSUME NEW u \in Uis, NEW rows, NEW k, AgyRows(rows, k, u), rows[Len(rows)].says = Footer(u)
  PROVE  /\ AgyInputIsClear(rows) = "yes" <=> u.hold = "nothing"
         /\ u.hold = "nothing" => (AgyQueuedMessage(rows) <=> Waits(u))
         /\ AgyWrapUpReading(rows) = "yes" <=> u.hold = "nothing" /\ ~Busy(u) /\ ~Waits(u)
<1>1. /\ rows \in Seq(PaneRow) /\ k \in 2..3 /\ k + 2 <= Len(rows)
      /\ rows[k].prompt /\ rows[k].says = u.hold
      /\ IsRule(rows[k - 1]) /\ IsRule(rows[k + 1])
      /\ k = 3 <=> Waits(u)
      /\ k = 3 => rows[1].says = "queued-mark"
  BY DEF AgyRows
<1>2. \A j \in 1..Len(rows) : rows[j].prompt => j = k
  BY DEF AgyRows
<1>3. Len(rows) \in Nat /\ k \in Nat /\ k # 0 /\ Len(rows) \in 1..Len(rows)
  BY <1>1
<1>4. AgyBox(rows) = k
  <2> DEFINE I == {i \in 2..(Len(rows) - 1) :
                     rows[i].prompt /\ IsRule(rows[i - 1]) /\ IsRule(rows[i + 1])}
  <2>1. k \in I /\ I \in SUBSET (1..Len(rows))
    BY <1>1, <1>3
  <2>2. \A j \in I : j <= k
    <3> SUFFICES ASSUME NEW j \in I PROVE j <= k
      OBVIOUS
    <3>1. j \in 1..Len(rows) /\ rows[j].prompt
      BY <1>3
    <3> QED BY <3>1, <1>2, <1>3
  <2>3. AgyBox(rows) = IF I = {} THEN 0 ELSE Max(I)
    BY DEF AgyBox
  <2> HIDE DEF I
  <2>4. (IF I # {} THEN Max(I) ELSE 0) = k
    BY <1>3, <2>1, <2>2, LastOne
  <2> QED BY <2>3, <2>4
<1>5. u.hold = "nothing" => AgyFooter(rows, k) = Footer(u)
  <2> SUFFICES ASSUME u.hold = "nothing" PROVE AgyFooter(rows, k) = Footer(u)
    OBVIOUS
  <2> DEFINE I == {j \in 1..Len(rows) : rows[j].says # "nothing"}
  <2>1. Footer(u) # "nothing"
    BY DEF Footer
  <2>2. Len(rows) \in I /\ I \in SUBSET (1..Len(rows))
    BY <1>3, <2>1
  <2>3. \A j \in I : j <= Len(rows)
    BY <1>3
  <2>4. SelectLastInSeq(rows, LAMBDA row : row.says # "nothing") = IF I # {} THEN Max(I) ELSE 0
    BY DEF SelectLastInSeq
  <2> HIDE DEF I
  <2>5. (IF I # {} THEN Max(I) ELSE 0) = Len(rows)
    BY <1>3, <2>2, <2>3, LastOne
  <2> QED BY <1>1, <1>3, <2>4, <2>5 DEF AgyFooter
<1>6. AgyInputIsClear(rows) = "yes" <=> u.hold = "nothing"
  BY <1>1, <1>3, <1>4 DEF AgyInputIsClear, Whether
<1>7. AgyInputIsClear(rows) = "no" <=> u.hold # "nothing"
  BY <1>1, <1>3, <1>4 DEF AgyInputIsClear, Whether
<1>8. u.hold = "nothing" => (AgyQueuedMessage(rows) <=> Waits(u))
  <2> SUFFICES ASSUME u.hold = "nothing" PROVE AgyQueuedMessage(rows) <=> Waits(u)
    OBVIOUS
  <2>1. AgyFooter(rows, k) = "queued" => Waits(u)
    BY <1>5 DEF Footer
  <2>2. CASE Waits(u)
    <3>1. k > 2 /\ rows[k - 2].says = "queued-mark"
      BY <1>1, <2>2
    <3> QED BY <3>1, <2>2, <1>3, <1>4 DEF AgyQueuedMessage
  <2>3. CASE ~Waits(u)
    <3>1. ~(k > 2)
      BY <1>1, <2>3
    <3> QED BY <3>1, <2>1, <2>3, <1>3, <1>4 DEF AgyQueuedMessage
  <2> QED BY <2>2, <2>3
<1>9. AgyWrapUpReading(rows) = "yes" <=> u.hold = "nothing" /\ ~Busy(u) /\ ~Waits(u)
  <2>1. CASE u.hold # "nothing"
    BY <2>1, <1>3, <1>4, <1>7 DEF AgyWrapUpReading
  <2>2. CASE u.hold = "nothing"
    <3>1. AgyInputIsClear(rows) # "no" /\ AgyFooter(rows, k) = Footer(u)
      BY <2>2, <1>5, <1>7
    <3>2. AgyQueuedMessage(rows) <=> Waits(u)
      BY <2>2, <1>8
    <3>3. AgyWrapUpReading(rows) = "yes" <=>
            Footer(u) # "esc-to-cancel" /\ ~Waits(u) /\ Footer(u) = "?-for-shortcuts"
      BY <3>1, <3>2, <1>3, <1>4 DEF AgyWrapUpReading
    <3> QED BY <2>2, <3>3 DEF Footer
  <2> QED BY <2>1, <2>2
<1> QED BY <1>6, <1>8, <1>9

\* What is no box of agy's has none.
LEMMA AgyReads ==
  ASSUME NEW u \in Uis, NEW torn \in BOOLEAN, NEW rows,
         rows = IF u.spot = "gone" THEN <<>> ELSE AgyDraws(u, torn)
  PROVE  /\ AgyInputIsClear(rows) = "yes" => Empty(u)
         /\ ~torn /\ Empty(u) => (AgyQueuedMessage(rows) <=> Waits(u))
         /\ AgyWrapUpReading(rows) = "yes" => Rests(u)
         /\ ~torn /\ Rests(u) => AgyWrapUpReading(rows) = "yes"
<1>1. CASE u.spot = "box" /\ torn = FALSE
  <2>1. rows = AgyDraws(u, FALSE)
    BY <1>1
  <2>2. PICK k \in Nat : AgyRows(rows, k, u) /\ rows[Len(rows)].says = Footer(u)
    BY <1>1, <2>1, AgyBoxed
  <2> QED BY <1>1, <2>2, AgyBoxReads DEF Empty, Rests
<1>2. CASE u.spot # "box" \/ torn
  <2>1. rows = <<>> \/ rows = Rows(2, "words")
    BY <1>2 DEF AgyDraws
  <2>2. rows \in Seq(PaneRow) /\ (Len(rows) = 0 \/ Len(rows) = 2)
    <3>1. CASE rows = <<>>
      <4>1. <<>> \in Seq(PaneRow) /\ Len(<<>>) = 0
        OBVIOUS
      <4> QED BY <3>1, <4>1
    <3>2. CASE rows = Rows(2, "words")
      <4>1. Rows(2, "words") \in Seq(PaneRow) /\ Len(Rows(2, "words")) = 2
        BY RowsAreRows DEF Says
      <4> QED BY <3>2, <4>1
    <3> QED BY <2>1, <3>1, <3>2
  <2>3. AgyBox(rows) = 0
    <3>1. 2..(Len(rows) - 1) = {}
      <4>1. 2..(0 - 1) = {} /\ 2..(2 - 1) = {}
        OBVIOUS
      <4> QED BY <2>2, <4>1
    <3> QED BY <3>1 DEF AgyBox
  <2> QED BY <1>2, <2>3 DEF AgyInputIsClear, AgyWrapUpReading, Empty, Rests
<1> QED BY <1>1, <1>2

\* And nothing at all is read as nothing.
LEMMA NoPaneReads ==
  \A a \in {"claude", "agy"} :
    /\ InputIsClear(a, <<>>) # "yes" /\ WrapUpReading(a, <<>>) # "yes"
    /\ AwaitsAnswer(<<>>) # "yes" /\ ~OffersExit(<<>>)
<1>1. PICK u \in Uis : u = [spot |-> "gone", hold |-> "nothing", turn |-> "idle", queue |-> <<>>,
                            panel |-> FALSE, asked |-> FALSE, sel |-> "stay"]
  <2>1. <<>> \in Seq(Work)
    OBVIOUS
  <2>2. PICK none \in Seq(Work) : none = <<>>
    BY <2>1
  <2> QED BY <2>2 DEF Uis, Spots, Turns
<1>2. u.spot = "gone" /\ ~Empty(u) /\ ~Rests(u)
  BY <1>1 DEF Empty, Rests
<1>3. /\ ClaudeInputIsClear(<<>>) # "yes" /\ ClaudeWrapUpReading(<<>>) # "yes"
      /\ AwaitsAnswer(<<>>) # "yes" /\ ~OffersExit(<<>>)
  BY <1>2, ClaudeReads
<1>4. AgyInputIsClear(<<>>) # "yes" /\ AgyWrapUpReading(<<>>) # "yes"
  BY <1>2, AgyReads
<1> QED BY <1>3, <1>4 DEF InputIsClear, WrapUpReading

-----------------------------------------------------------------------------
(* By the agent in the pane: what a look at a frame says of what it shows. *)

\* What `_require_clear`, the exit menu's wait, the wrap up's watch and the
\* answer's look each may conclude from a frame.
LEMMA FrameReads ==
  ASSUME NEW f, f.of \in Uis, f.torn \in BOOLEAN, agent \in {"claude", "agy"}
  PROVE  /\ InputIsClear(agent, Pane(f)) = "yes" => Empty(f.of)
         /\ ~f.torn /\ Empty(f.of) => (QueuedMessage(agent, Pane(f)) <=> Waits(f.of))
         /\ WrapUpReading(agent, Pane(f)) = "yes" => Rests(f.of)
         /\ ~f.torn /\ Rests(f.of) => WrapUpReading(agent, Pane(f)) = "yes"
         /\ agent = "claude" =>
              /\ AwaitsAnswer(Pane(f)) = "yes" => f.of.spot \in {"question", "exit-menu"}
              /\ OffersExit(Pane(f)) => f.of.spot = "exit-menu" /\ f.of.sel # "stay"
<1>1. PICK rows : rows = Pane(f)
  OBVIOUS
<1>2. PICK u \in Uis : u = f.of
  OBVIOUS
<1>3. PICK torn \in BOOLEAN : torn = f.torn
  OBVIOUS
<1>4. CASE agent = "claude"
  <2>1. rows = IF u.spot = "gone" THEN <<>> ELSE ClaudeDraws(u, torn)
    BY <1>1, <1>2, <1>3, <1>4 DEF Pane
  <2>2. /\ ClaudeInputIsClear(rows) = "yes" => Empty(u)
        /\ AwaitsAnswer(rows) = "yes" => u.spot \in {"question", "exit-menu"}
        /\ OffersExit(rows) => u.spot = "exit-menu" /\ u.sel # "stay"
        /\ ~torn /\ Empty(u) => (ClaudeQueuedMessage(rows) <=> Waits(u))
        /\ ClaudeWrapUpReading(rows) = "yes" => Rests(u)
        /\ ~torn /\ Rests(u) => ClaudeWrapUpReading(rows) = "yes"
    BY <2>1, ClaudeReads
  <2> QED BY <1>1, <1>2, <1>3, <1>4, <2>2 DEF InputIsClear, QueuedMessage, WrapUpReading
<1>5. CASE agent = "agy"
  <2>1. rows = IF u.spot = "gone" THEN <<>> ELSE AgyDraws(u, torn)
    BY <1>1, <1>2, <1>3, <1>5 DEF Pane
  <2>2. /\ AgyInputIsClear(rows) = "yes" => Empty(u)
        /\ ~torn /\ Empty(u) => (AgyQueuedMessage(rows) <=> Waits(u))
        /\ AgyWrapUpReading(rows) = "yes" => Rests(u)
        /\ ~torn /\ Rests(u) => AgyWrapUpReading(rows) = "yes"
    BY <2>1, AgyReads
  <2> QED BY <1>1, <1>2, <1>3, <1>5, <2>2 DEF InputIsClear, QueuedMessage, WrapUpReading
<1> QED BY <1>4, <1>5

-----------------------------------------------------------------------------
(* Types.                                                                  *)

Ats == {"idle", "clear", "settle", "look", "escape", "settle-again", "look-again", "exit",
        "queued", "prompt", "enter", "watching", "menu", "press", "asked", "refused", "failed"}
StopKeys == {"clear", "escape", "exit", "prompt", "enter"}
Sent == [by : {"stop"}, key : StopKeys] \cup [by : {"answer"}, key : {"answer"}]
Harms == {"exit", "queue", "enter", "prompt", "answer"}

KeysTypeOK ==
  /\ agent \in {"claude", "agy"}
  /\ ui \in Uis /\ frame \in [of : Uis, torn : BOOLEAN]
  /\ pty \in Seq(Sent)
  /\ stop \in [job : {"exit", "wrap-up"}, at : Ats, tries : Nat, out : BOOLEAN, done : BOOLEAN]
  /\ watch \in [sent : 0..SETTLE_DONE, idle : (-1)..SETTLE_DONE, read : Readings \cup {"none"}]
  /\ answerer \in {"idle", "send"}
  /\ moved \in [Callers -> BOOLEAN]
  /\ harm \subseteq Harms
  /\ wrapped \in {"no", "waiting", "over"}
  /\ due \in Nat /\ moves \in Nat /\ answers \in Nat

\* A change of one part of a ui leaves a ui.
LEMMA UiEdits ==
  ASSUME NEW u \in Uis
  PROVE  /\ \A s \in Spots : [u EXCEPT !.spot = s] \in Uis
         /\ \A h \in {"nothing", "draft", "prompt"} : [u EXCEPT !.hold = h] \in Uis
         /\ \A t \in Turns : [u EXCEPT !.turn = t] \in Uis
         /\ \A q \in Seq(Work) : [u EXCEPT !.queue = q] \in Uis
         /\ [u EXCEPT !.panel = ~@] \in Uis
         /\ \A a \in BOOLEAN : [u EXCEPT !.spot = "box", !.asked = a] \in Uis
         /\ \A w \in Work, h \in {"nothing", "draft", "prompt"} :
              [u EXCEPT !.hold = h, !.queue = Append(@, w)] \in Uis
         /\ \A w \in Work : [u EXCEPT !.queue = Append(@, w)] \in Uis
         /\ \A h \in {"nothing", "draft", "prompt"} :
              [u EXCEPT !.turn = "idle", !.queue = <<>>, !.hold = h] \in Uis
         /\ \A s \in {"exit-and-stop-tasks", "stay"} :
              [u EXCEPT !.spot = "exit-menu", !.turn = "idle", !.sel = s] \in Uis
         /\ Gone(u) \in Uis
<1>1. <<>> \in Seq(Work)
  OBVIOUS
<1>2. u.queue \in Seq(Work) /\ \A w \in Work : Append(u.queue, w) \in Seq(Work)
  BY DEF Uis
<1>3. /\ \A s \in Spots : [u EXCEPT !.spot = s] \in Uis
      /\ \A h \in {"nothing", "draft", "prompt"} : [u EXCEPT !.hold = h] \in Uis
      /\ \A t \in Turns : [u EXCEPT !.turn = t] \in Uis
  BY DEF Uis
<1>4. /\ \A q \in Seq(Work) : [u EXCEPT !.queue = q] \in Uis
      /\ [u EXCEPT !.panel = ~@] \in Uis
      /\ \A a \in BOOLEAN : [u EXCEPT !.spot = "box", !.asked = a] \in Uis
  BY DEF Uis, Spots
<1>5. /\ \A w \in Work, h \in {"nothing", "draft", "prompt"} :
              [u EXCEPT !.hold = h, !.queue = Append(@, w)] \in Uis
      /\ \A w \in Work : [u EXCEPT !.queue = Append(@, w)] \in Uis
  BY <1>2 DEF Uis
<1>6. PICK none \in Seq(Work) : none = <<>>
  BY <1>1
<1>7. /\ \A h \in {"nothing", "draft", "prompt"} :
              [u EXCEPT !.turn = "idle", !.queue = none, !.hold = h] \in Uis
      /\ [u EXCEPT !.spot = "gone", !.turn = "idle", !.queue = none] \in Uis
      /\ \A s \in {"exit-and-stop-tasks", "stay"} :
              [u EXCEPT !.spot = "exit-menu", !.turn = "idle", !.sel = s] \in Uis
  BY DEF Uis, Spots, Turns
<1> QED BY <1>3, <1>4, <1>5, <1>6, <1>7 DEF Gone

\* An agent that is leaving leaves a ui, and no box.
LEMMA LeavesTypes ==
  ASSUME NEW u \in Uis, NEW v \in Leaves(u)
  PROVE  v \in Uis /\ v.spot \in {"exit-menu", "gone"} /\ v.hold = u.hold
         /\ (v.spot = "exit-menu" => agent = "claude" /\ v.queue = u.queue)
<1>1. CASE agent = "claude" /\ u.panel
  <2>1. PICK s \in {"exit-and-stop-tasks", "stay"} :
          v = [u EXCEPT !.spot = "exit-menu", !.turn = "idle", !.sel = s]
    BY <1>1 DEF Leaves
  <2>2. v \in Uis
    BY <2>1, UiEdits
  <2> QED BY <1>1, <2>1, <2>2 DEF Uis
<1>2. CASE ~(agent = "claude" /\ u.panel)
  <2>1. v = Gone(u)
    BY <1>2 DEF Leaves
  <2>2. v \in Uis
    BY <2>1, UiEdits
  <2> QED BY <2>1, <2>2 DEF Uis, Gone
<1> QED BY <1>1, <1>2

\* A key that is taken leaves a ui, and is harmful in no more than its own way.
LEMMA AnsweredTypes ==
  ASSUME NEW u \in Uis, NEW v \in Answered(u)
  PROVE  /\ v \in Uis /\ v.hold = u.hold /\ v.turn \in {u.turn, "idle"}
         /\ v.queue = u.queue \/ v = Gone(u)
         /\ u.spot # "box" => v = u \/ v.spot # u.spot
<1>1. CASE u.spot = "exit-menu"
  <2>1. v = Gone(u) \/ v = [u EXCEPT !.spot = "box"]
    BY <1>1 DEF Answered
  <2>2. v \in Uis
    BY <2>1, UiEdits DEF Spots
  <2> QED BY <1>1, <2>1, <2>2 DEF Gone, Uis
<1>2. CASE u.spot # "exit-menu"
  <2>1. v = u \/ v = [u EXCEPT !.spot = "box", !.asked = (u.spot = "question" \/ u.asked)]
    BY <1>2 DEF Answered
  <2>2. (u.spot = "question" \/ u.asked) \in BOOLEAN
    BY DEF Uis
  <2>3. v \in Uis
    BY <2>1, <2>2, UiEdits
  <2>4. v.hold = u.hold /\ v.turn = u.turn /\ v.queue = u.queue /\ (v = u \/ v.spot = "box")
    BY <2>1 DEF Uis
  <2> QED BY <2>3, <2>4
<1> QED BY <1>1, <1>2

-----------------------------------------------------------------------------
(* What the agent makes of a key.                                          *)

\* A wrap up may be typed only where nothing waits, if looks tell.
Unqueued(u) == QueuedLookMisses \/ ~Waits(u)

EnterFits(u) ==
  \/ u.spot = "box" /\ u.hold = "prompt" /\ Unqueued(u)
  \/ u.spot = "exit-menu" /\ u.sel # "stay"

\* What the look before a key has to have seen.
Fits(key, u) ==
  /\ key = "exit" => Empty(u)
  /\ key = "prompt" => Empty(u) /\ Unqueued(u)
  /\ key = "enter" => EnterFits(u)

\* A key that lands does no harm, and one that misses its own.
LEMMA LandsOrMisses ==
  /\ \A us : \A to \in Lands(us) : to.u \in us /\ to.bad = {}
  /\ \A what, us : \A to \in Misses(what, us) : to.u \in us /\ to.bad = {what}
BY DEF Lands, Misses

\* `C-u` leaves a ui, and empties the box or leaves it.
LEMMA ClearTaken ==
  ASSUME NEW u \in Uis, NEW to \in ClearTakes(u)
  PROVE  /\ to.u \in Uis /\ to.bad = {}
         /\ to.u.spot = u.spot /\ to.u.turn = u.turn /\ to.u.queue = u.queue
         /\ to.u.hold \in {u.hold, "nothing"}
<1>1. to.bad = {} /\ (to.u = u \/ to.u = [u EXCEPT !.hold = "nothing"])
  BY LandsOrMisses DEF ClearTakes
<1>2. to.u \in Uis
  BY <1>1, UiEdits
<1> QED BY <1>1, <1>2 DEF Uis

\* So does an Escape, which may bring a question or a draft.
LEMMA EscapeTaken ==
  ASSUME NEW u \in Uis, NEW to \in EscapeTakes(u)
  PROVE  /\ to.u \in Uis /\ to.bad = {}
         /\ u.spot # "box" => to.u = [u EXCEPT !.spot = "box"]
         /\ u.spot = "box" => \/ to.u.spot = "box" /\ Busy(u) /\ to.u.turn = "idle" /\ to.u.queue = <<>>
                                  /\ to.u.hold # "prompt"
                              \/ ~Busy(u) /\ to.u = u
                              \/ ~Busy(u) /\ to.u = [u EXCEPT !.spot = "question"]
<1>1. CASE u.spot # "box"
  <2>1. to.bad = {} /\ to.u = [u EXCEPT !.spot = "box"]
    BY <1>1, LandsOrMisses DEF EscapeTakes
  <2> QED BY <1>1, <2>1, UiEdits DEF Spots
<1>2. CASE u.spot = "box" /\ Busy(u)
  <2>1. PICK h \in {"nothing", "draft"} :
          to.bad = {} /\ to.u = [u EXCEPT !.turn = "idle", !.queue = <<>>, !.hold = h]
    BY <1>2, LandsOrMisses DEF EscapeTakes
  <2>2. to.u \in Uis
    <3>1. [u EXCEPT !.turn = "idle", !.queue = <<>>, !.hold = h] \in Uis
      BY UiEdits, Zenon
    <3> QED BY <2>1, <3>1
  <2>3. to.u.spot = "box" /\ to.u.turn = "idle" /\ to.u.queue = <<>> /\ to.u.hold = h
    BY <1>2, <2>1 DEF Uis
  <2> QED BY <1>2, <2>1, <2>2, <2>3
<1>3. CASE u.spot = "box" /\ ~Busy(u)
  <2>1. to.bad = {} /\ (to.u = u \/ to.u = [u EXCEPT !.spot = "question"])
    BY <1>3, LandsOrMisses DEF EscapeTakes
  <2> QED BY <1>3, <2>1, UiEdits DEF Spots
<1> QED BY <1>1, <1>2, <1>3

\* What is submitted is queued, and the box empty.
LEMMA SubmitsUi ==
  ASSUME NEW u \in Uis, NEW w \in Work
  PROVE  /\ Submits(u, w) \in Uis
         /\ Submits(u, w).spot = u.spot /\ Submits(u, w).hold = "nothing"
         /\ Submits(u, w).turn = u.turn /\ Submits(u, w).queue = Append(u.queue, w)
<1>1. Submits(u, w) \in Uis
  BY UiEdits DEF Submits
<1> QED BY <1>1 DEF Uis, Submits

\* An `/exit` does no harm in an empty box.
LEMMA ExitTaken ==
  ASSUME NEW u \in Uis, NEW to \in ExitTakes(u)
  PROVE  /\ to.u \in Uis /\ to.bad \subseteq {"exit"} /\ (Empty(u) => to.bad = {})
         /\ to.u.hold \in {u.hold, "nothing"}
<1>1. "theirs" \in Work /\ "exit" \in Work
  BY DEF Work
<1>2. CASE Empty(u)
  <2>1. CASE agent = "claude" /\ (Busy(u) \/ u.queue # <<>>)
    <3>1. to.bad = {} /\ to.u = [u EXCEPT !.queue = Append(@, "exit")]
      BY <1>2, <2>1, LandsOrMisses DEF ExitTakes, Empty
    <3>2. to.u \in Uis
      BY <1>1, <3>1, UiEdits
    <3> QED BY <3>1, <3>2 DEF Uis
  <2>2. CASE ~(agent = "claude" /\ (Busy(u) \/ u.queue # <<>>))
    <3>1. to.bad = {} /\ to.u \in Leaves(u)
      BY <1>2, <2>2, LandsOrMisses DEF ExitTakes, Empty
    <3> QED BY <3>1, LeavesTypes
  <2> QED BY <2>1, <2>2
<1>3. CASE u.spot = "box" /\ ~Empty(u)
  <2>1. to.bad = {"exit"} /\ to.u = Submits(u, "theirs")
    BY <1>3, LandsOrMisses DEF ExitTakes, Empty
  <2> QED BY <1>1, <1>3, <2>1, SubmitsUi
<1>4. CASE u.spot # "box"
  <2>1. to.bad = {"exit"} /\ to.u \in Answered(u)
    BY <1>4, LandsOrMisses DEF ExitTakes
  <2> QED BY <1>4, <2>1, AnsweredTypes DEF Empty
<1> QED BY <1>2, <1>3, <1>4

\* Nor does the wrap up's text, which the box then holds.
LEMMA TextTaken ==
  ASSUME NEW u \in Uis, NEW to \in TextTakes(u)
  PROVE  /\ to.u \in Uis /\ to.bad \subseteq {"prompt"}
         /\ Empty(u) => to.bad = {} /\ to.u = [u EXCEPT !.hold = "prompt"]
         /\ ~Empty(u) => to.u = u \/ to.u = [u EXCEPT !.hold = "draft"]
<1>1. CASE Empty(u)
  <2>1. to.bad = {} /\ to.u = [u EXCEPT !.hold = "prompt"]
    BY <1>1, LandsOrMisses DEF TextTakes, Empty
  <2> QED BY <1>1, <2>1, UiEdits
<1>2. CASE ~Empty(u)
  <2>1. to.bad = {"prompt"} /\ (to.u = u \/ to.u = [u EXCEPT !.hold = "draft"])
    BY <1>2, LandsOrMisses DEF TextTakes, Empty
  <2> QED BY <1>2, <2>1, UiEdits
<1> QED BY <1>1, <1>2

\* A box that holds the wrap up submits it.
LEMMA EnterTaken ==
  ASSUME NEW u \in Uis, NEW to \in EnterTakes(u)
  PROVE  /\ to.u \in Uis /\ to.bad \subseteq {"queue", "enter"}
         /\ EnterFits(u) => "enter" \notin to.bad /\ (~QueuedLookMisses => to.bad = {})
         /\ u.spot = "box" /\ u.hold = "prompt" => to.u = Submits(u, "wrap-up")
         /\ u.spot = "box" /\ u.hold = "draft" => to.u = Submits(u, "theirs")
         /\ Empty(u) => to.u = u
         /\ u.spot # "box" => to.u = Gone(u) \/ to.u \in Answered(u)
         /\ to.u.hold \in {u.hold, "nothing"}
<1>1. "theirs" \in Work /\ "wrap-up" \in Work
  BY DEF Work
<1>2. CASE u.spot = "box" /\ u.hold = "prompt"
  <2>1. to.u = Submits(u, "wrap-up") /\ to.bad = (IF Waits(u) THEN {"queue"} ELSE {})
    <3>1. CASE Waits(u)
      <4>1. Waiting(u) # <<>>
        BY <3>1 DEF Waits
      <4>2. to \in Misses("queue", {Submits(u, "wrap-up")})
        BY <1>2, <4>1 DEF EnterTakes
      <4> QED BY <3>1, <4>2, LandsOrMisses
    <3>2. CASE ~Waits(u)
      <4>1. Waiting(u) = <<>>
        BY <3>2 DEF Waits
      <4>2. to \in Lands({Submits(u, "wrap-up")})
        BY <1>2, <4>1 DEF EnterTakes
      <4> QED BY <3>2, <4>2, LandsOrMisses
    <3> QED BY <3>1, <3>2
  <2> QED BY <1>1, <1>2, <2>1, SubmitsUi DEF EnterFits, Unqueued, Empty
<1>3. CASE u.spot = "box" /\ u.hold = "draft"
  <2>1. to.u = Submits(u, "theirs") /\ to.bad = {"enter"}
    BY <1>3, LandsOrMisses DEF EnterTakes
  <2> QED BY <1>1, <1>3, <2>1, SubmitsUi DEF EnterFits, Empty
<1>4. CASE Empty(u)
  <2>1. to.u = u /\ to.bad = {}
    BY <1>4, LandsOrMisses DEF EnterTakes, Empty
  <2> QED BY <1>4, <2>1 DEF EnterFits, Empty
<1>5. CASE u.spot = "exit-menu" /\ u.sel # "stay"
  <2>1. to.u = Gone(u) /\ to.bad = {}
    BY <1>5, LandsOrMisses DEF EnterTakes
  <2>2. Gone(u).hold = u.hold
    BY DEF Gone, Uis
  <2> QED BY <1>5, <2>1, <2>2, UiEdits DEF EnterFits, Empty
<1>6. CASE u.spot # "box" /\ ~(u.spot = "exit-menu" /\ u.sel # "stay")
  <2>1. to.u \in Answered(u) /\ to.bad = {"enter"}
    BY <1>6, LandsOrMisses DEF EnterTakes
  <2> QED BY <1>6, <2>1, AnsweredTypes DEF EnterFits, Empty
<1>7. u.hold \in {"nothing", "draft", "prompt"}
  BY DEF Uis
<1> QED BY <1>2, <1>3, <1>4, <1>5, <1>6, <1>7 DEF Empty

\* Nor does an answer to a question or to the exit menu.
LEMMA AnswerTaken ==
  ASSUME NEW u \in Uis, NEW to \in AnswerTakes(u)
  PROVE  /\ to.u \in Uis /\ to.bad \subseteq {"answer"}
         /\ u.spot \in {"question", "exit-menu"} => to.bad = {} /\ to.u \in Answered(u)
         /\ u.spot \notin {"question", "exit-menu"} => to.u = u \/ to.u = [u EXCEPT !.hold = "draft"]
<1>1. CASE u.spot \in {"question", "exit-menu"}
  <2>1. to.bad = {} /\ to.u \in Answered(u)
    BY <1>1, LandsOrMisses DEF AnswerTakes
  <2> QED BY <1>1, <2>1, AnsweredTypes
<1>2. CASE u.spot \notin {"question", "exit-menu"}
  <2>1. to.bad = {"answer"} /\ (to.u = u \/ to.u = [u EXCEPT !.hold = "draft"])
    BY <1>2, LandsOrMisses DEF AnswerTakes
  <2> QED BY <1>2, <2>1, UiEdits
<1> QED BY <1>1, <1>2

\* Which key does what.
LEMMA Taken ==
  ASSUME NEW u, NEW key
  PROVE  /\ key = "clear" => Takes(key, u) = ClearTakes(u)
         /\ key = "escape" => Takes(key, u) = EscapeTakes(u)
         /\ key = "exit" => Takes(key, u) = ExitTakes(u)
         /\ key = "enter" => Takes(key, u) = EnterTakes(u)
         /\ key = "prompt" => Takes(key, u) = TextTakes(u)
         /\ key = "answer" => Takes(key, u) = AnswerTakes(u)
BY DEF Takes

\* The key leaves a ui, and does no harm where the look before it still holds.
LEMMA TakesTypes ==
  ASSUME NEW u \in Uis, NEW key \in StopKeys \cup {"answer"}, NEW to \in Takes(key, u)
  PROVE  /\ to.u \in Uis /\ to.bad \subseteq Harms
         /\ key = "answer" => to.bad \subseteq {"answer"}
         /\ key # "answer" => "answer" \notin to.bad
         /\ Fits(key, u) => /\ {"exit", "prompt", "enter"} \cap to.bad = {}
                            /\ ~QueuedLookMisses => "queue" \notin to.bad
<1>1. CASE key = "clear"
  BY <1>1, Taken, ClearTaken
<1>2. CASE key = "escape"
  <2>1. to \in EscapeTakes(u)
    BY <1>2, Taken
  <2>2. to.u \in Uis /\ to.bad = {}
    BY <2>1, EscapeTaken
  <2> QED BY <1>2, <2>2
<1>3. CASE key = "exit"
  BY <1>3, Taken, ExitTaken DEF Harms, Fits
<1>4. CASE key = "enter"
  <2>1. /\ to.u \in Uis /\ to.bad \subseteq {"queue", "enter"}
        /\ EnterFits(u) => "enter" \notin to.bad /\ (~QueuedLookMisses => to.bad = {})
    BY <1>4, Taken, EnterTaken
  <2>2. Fits(key, u) => EnterFits(u)
    BY <1>4 DEF Fits
  <2> QED BY <1>4, <2>1, <2>2 DEF Harms
<1>5. CASE key = "prompt"
  <2>1. to \in TextTakes(u)
    BY <1>5, Taken
  <2>2. to.u \in Uis /\ to.bad \subseteq {"prompt"} /\ (Empty(u) => to.bad = {})
    BY <2>1, TextTaken
  <2> QED BY <1>5, <2>2 DEF Harms, Fits
<1>6. CASE key = "answer"
  <2>1. to \in AnswerTakes(u)
    BY <1>6, Taken
  <2>2. to.u \in Uis /\ to.bad \subseteq {"answer"}
    BY <2>1, AnswerTaken
  <2> QED BY <1>6, <2>2 DEF Harms
<1> QED BY <1>1, <1>2, <1>3, <1>4, <1>5, <1>6 DEF StopKeys

-----------------------------------------------------------------------------
(* The keys on their way, and what becomes of the ui.                      *)

\* The first key is gone, and the others move up.
LEMMA TailKeys ==
  ASSUME NEW s \in Seq(Sent), s # <<>>
  PROVE  /\ Head(s) = s[1] /\ s[1] \in Sent /\ Len(s) \in Nat /\ Len(s) > 0
         /\ Tail(s) \in Seq(Sent) /\ Len(Tail(s)) = Len(s) - 1
         /\ \A i \in 1..(Len(s) - 1) : Tail(s)[i] = s[i + 1]
OBVIOUS

\* A key that is sent comes after the others, or a session that is gone has it.
LEMMA TypesKey ==
  ASSUME NEW by, NEW key, [by |-> by, key |-> key] \in Sent, pty \in Seq(Sent), Types(by, <<key>>)
  PROVE  /\ pty' \in Seq(Sent)
         /\ \/ ui.spot = "gone" /\ pty' = pty
            \/ /\ Len(pty') = Len(pty) + 1
               /\ \A i \in 1..Len(pty) : pty'[i] = pty[i]
               /\ pty'[Len(pty) + 1] = [by |-> by, key |-> key]
<1>1. PICK sent \in Sent : sent = [by |-> by, key |-> key]
  OBVIOUS
<1>2. CASE ui.spot = "gone"
  BY <1>2 DEF Types
<1>3. CASE ui.spot # "gone"
  <2>1. [i \in DOMAIN <<key>> |-> [by |-> by, key |-> <<key>>[i]]] = <<sent>>
    BY <1>1
  <2>2. pty' = pty \o <<sent>>
    BY <1>3, <2>1 DEF Types
  <2>3. <<sent>> \in Seq(Sent) /\ Len(<<sent>>) = 1 /\ <<sent>>[1] = sent
    BY One
  <2>4. PICK one \in Seq(Sent) : one = <<sent>> /\ Len(one) = 1 /\ one[1] = sent
    BY <2>3
  <2>5. /\ pty \o one \in Seq(Sent) /\ Len(pty \o one) = Len(pty) + Len(one)
        /\ \A i \in 1..(Len(pty) + Len(one)) :
             (pty \o one)[i] = IF i <= Len(pty) THEN pty[i] ELSE one[i - Len(pty)]
    BY Joined
  <2>6. Len(pty) \in Nat
    OBVIOUS
  <2> QED BY <1>1, <2>2, <2>4, <2>5, <2>6
<1> QED BY <1>2, <1>3

\* What a person, a question or the end of it makes of the ui.
LEMMA MovedUi ==
  ASSUME ui \in Uis, Moved(ui)
  PROVE  /\ ui' \in Uis /\ Becomes(ui', "nobody")
         /\ \/ ui.spot = "box" /\ ui' = [ui EXCEPT !.hold = "draft"]
            \/ ui.spot = "box" /\ ui' = [ui EXCEPT !.queue = Append(@, "theirs")]
            \/ ui.spot = "box" /\ ui' = [ui EXCEPT !.panel = ~@]
            \/ ui.spot = "box" /\ Busy(ui) /\ \E s \in {"question", "strange"} :
                 ui' = [ui EXCEPT !.spot = s]
            \/ ui.spot # "gone" /\ ui' = Gone(ui)
            \/ /\ ui.spot \in {"question", "strange", "exit-menu"}
               /\ \E a \in BOOLEAN : ui' = [ui EXCEPT !.spot = "box", !.asked = a]
<1>0. "theirs" \in Work /\ {"question", "strange"} \subseteq Spots
  BY DEF Work, Spots
<1>1. CASE ui.spot = "box" /\ Becomes([ui EXCEPT !.hold = "draft"], "nobody")
  BY <1>1, UiEdits DEF Becomes
<1>2. CASE ui.spot = "box" /\ Becomes([ui EXCEPT !.queue = Append(@, "theirs")], "nobody")
  BY <1>0, <1>2, UiEdits DEF Becomes
<1>3. CASE ui.spot = "box" /\ Becomes([ui EXCEPT !.panel = ~@], "nobody")
  BY <1>3, UiEdits DEF Becomes
<1>4. CASE ui.spot = "box" /\ Busy(ui) /\ \E s \in {"question", "strange"} :
             Becomes([ui EXCEPT !.spot = s], "nobody")
  <2>1. PICK s \in {"question", "strange"} : Becomes([ui EXCEPT !.spot = s], "nobody")
    BY <1>4
  <2>2. ui' = [ui EXCEPT !.spot = s] /\ ui' \in Uis
    BY <1>0, <2>1, UiEdits DEF Becomes
  <2> QED BY <1>4, <2>1, <2>2
<1>5. CASE ui.spot # "gone" /\ Becomes(Gone(ui), "nobody")
  BY <1>5, UiEdits DEF Becomes
<1>6. CASE /\ ui.spot \in {"question", "strange", "exit-menu"}
           /\ Becomes([ui EXCEPT !.spot = "box", !.asked = ui.spot = "question" \/ @], "nobody")
  <2>1. PICK a \in BOOLEAN : a = (ui.spot = "question" \/ ui.asked)
    BY DEF Uis
  <2>2. Becomes([ui EXCEPT !.spot = "box", !.asked = a], "nobody")
    BY <1>6, <2>1
  <2>3. ui' = [ui EXCEPT !.spot = "box", !.asked = a] /\ ui' \in Uis
    BY <2>2, UiEdits DEF Becomes
  <2> QED BY <1>6, <2>2, <2>3
<1> QED BY <1>1, <1>2, <1>3, <1>4, <1>5, <1>6 DEF Moved

\* What the start of what waits makes of it.
LEMMA StartedUi ==
  ASSUME ui \in Uis, StartsNext
  PROVE  /\ ui' \in Uis /\ Becomes(ui', "nobody")
         /\ ui.queue # <<>> /\ Head(ui.queue) \in Work /\ Tail(ui.queue) \in Seq(Work)
         /\ \/ Head(ui.queue) = "exit" /\ ui'.spot \in {"exit-menu", "gone"}
            \/ /\ Head(ui.queue) # "exit"
               /\ ui' = [ui EXCEPT !.turn = Head(ui.queue), !.queue = Tail(@)]
<1>1. ui.queue \in Seq(Work) /\ ui.queue # <<>>
  BY DEF Uis, StartsNext
<1>2. Head(ui.queue) \in Work /\ Tail(ui.queue) \in Seq(Work)
  BY <1>1
<1>3. [ui EXCEPT !.queue = Tail(@)] \in Uis
  BY <1>2, UiEdits
<1>4. CASE Head(ui.queue) = "exit"
  <2>1. PICK v \in Leaves([ui EXCEPT !.queue = Tail(@)]) : Becomes(v, "nobody")
    BY <1>4 DEF StartsNext
  <2>2. v \in Uis /\ v.spot \in {"exit-menu", "gone"}
    BY <1>3, LeavesTypes
  <2>3. ui' = v
    BY <2>1 DEF Becomes
  <2> QED BY <1>1, <1>2, <1>4, <2>1, <2>2, <2>3
<1>5. CASE Head(ui.queue) # "exit"
  <2>1. Becomes([ui EXCEPT !.turn = Head(ui.queue), !.queue = Tail(@)], "nobody")
    BY <1>5 DEF StartsNext
  <2>2. ui' = [ui EXCEPT !.turn = Head(ui.queue), !.queue = Tail(@)]
    BY <2>1 DEF Becomes
  <2>3. Head(ui.queue) \in Turns
    BY <1>2, <1>5 DEF Work, Turns
  <2>4. ui' \in Uis
    BY <1>2, <2>2, <2>3 DEF Uis
  <2> QED BY <1>1, <1>2, <1>5, <2>1, <2>2, <2>4
<1> QED BY <1>4, <1>5

\* A key that reaches the agent.
LEMMA TakenKey ==
  ASSUME KeysTypeOK, TakesKey
  PROVE  \E sent \in Sent : \E to \in Takes(sent.key, ui) :
           /\ sent = pty[1] /\ sent.by \in Callers /\ sent.key \in StopKeys \cup {"answer"}
           /\ Len(pty) > 0 /\ Len(pty) \in Nat
           /\ pty' \in Seq(Sent) /\ Len(pty') = Len(pty) - 1
           /\ \A i \in 1..(Len(pty) - 1) : pty'[i] = pty[i + 1]
           /\ ui' = to.u /\ Becomes(to.u, sent.by) /\ to.u \in Uis /\ ui.spot # "gone"
           /\ harm' = harm \cup (IF moved[sent.by] THEN {} ELSE to.bad)
<1>1. pty \in Seq(Sent) /\ pty # <<>> /\ ui \in Uis
  BY DEF TakesKey, KeysTypeOK
<1>2. PICK sent : sent = Head(pty)
  OBVIOUS
<1>3. /\ sent = pty[1] /\ sent \in Sent /\ Len(pty) \in Nat /\ Len(pty) > 0
      /\ Tail(pty) \in Seq(Sent) /\ Len(Tail(pty)) = Len(pty) - 1
      /\ \A i \in 1..(Len(pty) - 1) : Tail(pty)[i] = pty[i + 1]
  BY <1>1, <1>2, TailKeys
<1>4. sent.by \in Callers /\ sent.key \in StopKeys \cup {"answer"}
  BY <1>3 DEF Sent, Callers
<1>5. PICK to \in Takes(sent.key, ui) :
        /\ Becomes(to.u, sent.by)
        /\ harm' = harm \cup (IF moved[sent.by] THEN {} ELSE to.bad)
  BY <1>2 DEF TakesKey
<1>6. to.u \in Uis
  BY <1>1, <1>4, <1>5, TakesTypes
<1>7. ui' = to.u /\ pty' = Tail(pty) /\ ui.spot # "gone"
  BY <1>5 DEF Becomes, TakesKey
<1> QED BY <1>3, <1>4, <1>5, <1>6, <1>7

\* At the start every variable has its type.
LEMMA KeysInitTypes == KeysInit => KeysTypeOK
<1> SUFFICES ASSUME KeysInit PROVE KeysTypeOK
  OBVIOUS
<1>1. agent \in {"claude", "agy"}
  <2>1. agent \in Adapters
    BY DEF KeysInit
  <2>2. Adapters \subseteq {"claude", "agy"}
    BY Zenon, ExitKeysAssumption
  <2> QED BY <2>1, <2>2
<1>2. <<>> \in Seq(Work) /\ <<>> \in Seq(Sent)
  OBVIOUS
<1>3. AtRest \in Uis
  <2>1. PICK none \in Seq(Work) : none = <<>>
    BY <1>2
  <2> QED BY <2>1 DEF AtRest, Uis, Spots, Turns
<1>4. ui \in Uis
  <2>1. \A t \in {"idle", "turn"}, p \in BOOLEAN : [AtRest EXCEPT !.turn = t, !.panel = p] \in Uis
    BY <1>3 DEF Uis, Turns
  <2>2. PICK t \in {"idle", "turn"}, p \in BOOLEAN : ui = [AtRest EXCEPT !.turn = t, !.panel = p]
    BY DEF KeysInit
  <2> QED BY <2>1, <2>2
<1>5. frame \in [of : Uis, torn : BOOLEAN]
  BY <1>4 DEF KeysInit
<1>6. stop \in [job : {"exit", "wrap-up"}, at : Ats, tries : Nat, out : BOOLEAN, done : BOOLEAN]
  BY DEF KeysInit, NotAsked, Ats
<1>7. watch \in [sent : 0..SETTLE_DONE, idle : (-1)..SETTLE_DONE, read : Readings \cup {"none"}]
  <2>1. SETTLE_DONE \in Nat
    BY ExitKeysAssumption
  <2>2. watch = NoWatch
    BY DEF KeysInit
  <2>3. "none" \in Readings \cup {"none"} /\ 0 \in 0..SETTLE_DONE /\ -1 \in (-1)..SETTLE_DONE
    BY <2>1
  <2> QED BY <2>2, <2>3 DEF NoWatch
<1>8. moved \in [Callers -> BOOLEAN]
  BY DEF KeysInit
<1>9. due \in Nat
  BY ExitKeysAssumption DEF KeysInit
<1>10. pty \in Seq(Sent)
  BY <1>2 DEF KeysInit
<1> QED BY <1>1, <1>4, <1>5, <1>6, <1>7, <1>8, <1>9, <1>10 DEF KeysInit, KeysTypeOK, Harms

\* A change by another hand is remembered.
LEMMA BecomesTypes ==
  ASSUME KeysTypeOK, NEW u, NEW by, Becomes(u, by)
  PROVE  moved' \in [Callers -> BOOLEAN]
BY DEF Becomes, KeysTypeOK

\* A look forgets what changed before it, if it sees it and has no key on its way.
LEMMA ReadsTypes ==
  ASSUME KeysTypeOK, NEW c \in Callers, Reads(c)
  PROVE  /\ moved' \in [Callers -> BOOLEAN]
         /\ \A d \in Callers \ {c} : moved'[d] = moved[d]
         /\ ~moved'[c] => ~moved[c] \/ (frame.of = ui /\ ~OnTheirWay(c))
BY DEF Reads, KeysTypeOK

\* A step of the machine or of a person at it.
LEMMA AgentTypes ==
  ASSUME KeysTypeOK, AgentStep
  PROVE  KeysTypeOK'
<1>1. CASE Draws
  <2>1. PICK torn \in {FALSE, Busy(ui) /\ ui.spot = "box"} : frame' = [of |-> ui, torn |-> torn]
    BY <1>1 DEF Draws
  <2>2. torn \in BOOLEAN
    BY <2>1
  <2> QED BY <1>1, <2>1, <2>2 DEF Draws, KeysTypeOK, callerVars, historyVars
<1>2. CASE TurnEnds
  <2>1. [ui EXCEPT !.turn = "idle"] \in Uis
    BY UiEdits DEF KeysTypeOK, Turns
  <2>2. ui' \in Uis /\ moved' \in [Callers -> BOOLEAN]
    BY <1>2, <2>1, BecomesTypes DEF TurnEnds, Becomes
  <2>3. due' \in Nat /\ wrapped' \in {"no", "waiting", "over"}
    BY <1>2, ExitKeysAssumption DEF TurnEnds, KeysTypeOK
  <2> QED BY <1>2, <2>2, <2>3 DEF TurnEnds, KeysTypeOK, callerVars
<1>3. CASE StartsNext
  <2>1. ui' \in Uis /\ Becomes(ui', "nobody")
    BY <1>3, StartedUi DEF KeysTypeOK
  <2>2. moved' \in [Callers -> BOOLEAN]
    BY <2>1, BecomesTypes
  <2> QED BY <1>3, <2>1, <2>2 DEF StartsNext, KeysTypeOK, callerVars
<1>4. CASE SomethingMoves
  <2>1. ui' \in Uis /\ Becomes(ui', "nobody")
    BY <1>4, MovedUi DEF KeysTypeOK, SomethingMoves
  <2>2. moved' \in [Callers -> BOOLEAN]
    BY <2>1, BecomesTypes
  <2>3. due' \in Nat /\ moves' \in Nat
    BY <1>4, ExitKeysAssumption DEF SomethingMoves, KeysTypeOK
  <2> QED BY <1>4, <2>1, <2>2, <2>3 DEF SomethingMoves, KeysTypeOK, callerVars
<1>5. CASE TakesKey
  <2>1. PICK sent \in Sent : \E to \in Takes(sent.key, ui) :
           /\ sent.by \in Callers /\ sent.key \in StopKeys \cup {"answer"}
           /\ pty' \in Seq(Sent) /\ ui' = to.u /\ Becomes(to.u, sent.by) /\ to.u \in Uis
           /\ harm' = harm \cup (IF moved[sent.by] THEN {} ELSE to.bad)
    BY <1>5, TakenKey
  <2>2. PICK to \in Takes(sent.key, ui) :
           /\ ui' = to.u /\ Becomes(to.u, sent.by) /\ to.u \in Uis
           /\ harm' = harm \cup (IF moved[sent.by] THEN {} ELSE to.bad)
    BY <2>1
  <2>3. to.bad \subseteq Harms
    BY <2>1, <2>2, TakesTypes DEF KeysTypeOK
  <2>4. moved' \in [Callers -> BOOLEAN] /\ harm' \subseteq Harms
    BY <2>2, <2>3, BecomesTypes DEF KeysTypeOK
  <2>5. due' \in Nat /\ wrapped' \in {"no", "waiting", "over"}
    BY <1>5, ExitKeysAssumption DEF TakesKey, KeysTypeOK
  <2> QED BY <1>5, <2>1, <2>2, <2>4, <2>5 DEF TakesKey, KeysTypeOK, callerVars
<1>6. CASE KeyIsLost
  <2>1. <<>> \in Seq(Sent)
    OBVIOUS
  <2> QED BY <1>6, <2>1 DEF KeyIsLost, KeysTypeOK, callerVars, historyVars
<1> QED BY <1>1, <1>2, <1>3, <1>4, <1>5, <1>6 DEF AgentStep

\* The request to stop goes from one point to the next.
LEMMA StopAtTypes ==
  ASSUME KeysTypeOK, NEW at \in Ats, StopAt(at)
  PROVE  /\ stop' \in [job : {"exit", "wrap-up"}, at : Ats, tries : Nat, out : BOOLEAN, done : BOOLEAN]
         /\ stop'.at = at /\ stop'.job = stop.job /\ stop'.done = stop.done
BY DEF StopAt, KeysTypeOK

\* A key that is sent, and the point the request goes to.
LEMMA SendsTypes ==
  ASSUME KeysTypeOK, NEW at, NEW key \in StopKeys, NEW next \in Ats, Sends(at, <<key>>, next)
  PROVE  /\ KeysTypeOK'
         /\ Types("stop", <<key>>) /\ stop.at = at
         /\ stop'.at = next /\ stop'.job = stop.job /\ stop'.done = stop.done
         /\ UNCHANGED <<agent, ui, frame, answerer, harm, wrapped, due, moves, answers, watch, moved>>
<1>1. UNCHANGED <<agent, ui, frame, answerer, harm, wrapped, due, moves, answers, watch, moved>>
  BY DEF Sends, OfStop
<1>2. Types("stop", <<key>>) /\ stop.at = at
  BY DEF Sends
<1>3. [by |-> "stop", key |-> key] \in Sent
  BY DEF Sent
<1>4. pty' \in Seq(Sent)
  BY <1>2, <1>3, TypesKey DEF KeysTypeOK
<1>5. PICK out \in BOOLEAN : out = (stop.out \/ "exit" \in Range(<<key>>))
  BY DEF KeysTypeOK
<1>6. stop' = [stop EXCEPT !.at = next, !.tries = 0, !.out = out]
  BY <1>5 DEF Sends
<1>7. /\ stop' \in [job : {"exit", "wrap-up"}, at : Ats, tries : Nat, out : BOOLEAN, done : BOOLEAN]
      /\ stop'.at = next /\ stop'.job = stop.job /\ stop'.done = stop.done
  BY <1>6 DEF KeysTypeOK
<1> QED BY <1>1, <1>2, <1>4, <1>7 DEF KeysTypeOK

\* The steps of a request to stop keep every variable in its type.
LEMMA StopTypes ==
  ASSUME KeysTypeOK, StopStep
  PROVE  KeysTypeOK'
<1>1. CASE StopAsked
  <2>1. stop' \in [job : {"exit", "wrap-up"}, at : Ats, tries : Nat, out : BOOLEAN, done : BOOLEAN]
    <3>1. PICK job \in {"exit", "wrap-up"} : stop' = [NotAsked EXCEPT !.job = job, !.at = "clear"]
      BY <1>1 DEF StopAsked
    <3> QED BY <3>1 DEF NotAsked, Ats
  <2> QED BY <1>1, <2>1 DEF StopAsked, OfStop, KeysTypeOK
<1>2. CASE Unreachable
  BY <1>2, StopAtTypes DEF Unreachable, OfStop, KeysTypeOK, Ats
<1>3. CASE SendsClear
  BY <1>3, SendsTypes DEF SendsClear, StopKeys, Ats
<1>4. CASE Settles
  <2>1. stop' \in [job : {"exit", "wrap-up"}, at : Ats, tries : Nat, out : BOOLEAN, done : BOOLEAN]
    BY <1>4, StopAtTypes DEF Settles, Ats
  <2> QED BY <1>4, <2>1 DEF Settles, OfStop, KeysTypeOK
<1>5. CASE RequiresClear
  <2>1. stop' \in [job : {"exit", "wrap-up"}, at : Ats, tries : Nat, out : BOOLEAN, done : BOOLEAN]
    <3>1. PICK at \in Ats : stop' = [stop EXCEPT !.tries = @ + 1, !.at = at]
      BY <1>5 DEF RequiresClear, Cleared, Ats
    <3>2. stop.tries + 1 \in Nat
      BY DEF KeysTypeOK
    <3> QED BY <3>1, <3>2 DEF KeysTypeOK
  <2>2. moved' \in [Callers -> BOOLEAN]
    BY <1>5, ReadsTypes DEF RequiresClear, Callers
  <2> QED BY <1>5, <2>1, <2>2 DEF RequiresClear, OfStop, KeysTypeOK
<1>6. CASE SendsEscape
  BY <1>6, SendsTypes DEF SendsEscape, StopKeys, Ats
<1>7. CASE SendsExit
  <2>1. PICK next \in Ats : next = IF agent = "claude" THEN "menu" ELSE "asked"
    BY DEF Ats
  <2>2. Sends("exit", <<"exit">>, next)
    BY <1>7, <2>1 DEF SendsExit
  <2> QED BY <2>2, SendsTypes DEF StopKeys
<1>8. CASE LooksForMenu
  <2>1. stop' \in [job : {"exit", "wrap-up"}, at : Ats, tries : Nat, out : BOOLEAN, done : BOOLEAN]
    <3>1. PICK at \in Ats : stop' = [stop EXCEPT !.tries = @ + 1, !.at = at]
      BY <1>8 DEF LooksForMenu, Ats
    <3>2. stop.tries + 1 \in Nat
      BY DEF KeysTypeOK
    <3> QED BY <3>1, <3>2 DEF KeysTypeOK
  <2>2. moved' \in [Callers -> BOOLEAN]
    BY <1>8, ReadsTypes DEF LooksForMenu, Callers
  <2> QED BY <1>8, <2>1, <2>2 DEF LooksForMenu, OfStop, KeysTypeOK
<1>9. CASE Presses
  BY <1>9, SendsTypes DEF Presses, StopKeys, Ats
<1>10. CASE Unanswered
  BY <1>10, StopAtTypes DEF Unanswered, OfStop, KeysTypeOK, Ats
<1>11. CASE LooksForQueued
  <2>1. PICK at \in Ats : StopAt(at)
    BY <1>11 DEF LooksForQueued, Ats
  <2> QED BY <1>11, <2>1, StopAtTypes DEF LooksForQueued, OfStop, KeysTypeOK
<1>12. CASE SendsPrompt
  BY <1>12, SendsTypes DEF SendsPrompt, StopKeys, Ats
<1>13. CASE SendsEnter
  <2>1. [by |-> "stop", key |-> "enter"] \in Sent
    BY DEF Sent, StopKeys
  <2>2. pty' \in Seq(Sent)
    BY <1>13, <2>1, TypesKey DEF SendsEnter, KeysTypeOK
  <2>3. watch' \in [sent : 0..SETTLE_DONE, idle : (-1)..SETTLE_DONE, read : Readings \cup {"none"}]
    BY <1>13, ExitKeysAssumption DEF SendsEnter, NoWatch
  <2>4. stop' \in [job : {"exit", "wrap-up"}, at : Ats, tries : Nat, out : BOOLEAN, done : BOOLEAN]
    BY <1>13, StopAtTypes DEF SendsEnter, Ats
  <2> QED BY <1>13, <2>2, <2>3, <2>4 DEF SendsEnter, OfStop, KeysTypeOK
<1>14. CASE Captured
  <2>1. \A a, rows : WrapUpReading(a, rows) \in Readings
    BY DEF WrapUpReading, ClaudeWrapUpReading, AgyWrapUpReading, Readings, Whether
  <2>2. watch' \in [sent : 0..SETTLE_DONE, idle : (-1)..SETTLE_DONE, read : Readings \cup {"none"}]
    <3>1. PICK r \in Readings : watch' = [watch EXCEPT !.read = r]
      BY <1>14, <2>1 DEF Captured
    <3> QED BY <3>1 DEF KeysTypeOK
  <2> QED BY <1>14, <2>2 DEF Captured, OfStop, KeysTypeOK
<1>15. CASE Observes
  <2>1. stop' \in [job : {"exit", "wrap-up"}, at : Ats, tries : Nat, out : BOOLEAN, done : BOOLEAN]
    <3>1. PICK over \in BOOLEAN : over = Finished(watch)
      BY DEF Finished
    <3>2. stop' = stop \/ stop' = [stop EXCEPT !.job = "exit", !.at = "clear", !.done = over]
      BY <1>15, <3>1 DEF Observes
    <3> QED BY <3>2 DEF KeysTypeOK, Ats
  <2>2. watch' \in [sent : 0..SETTLE_DONE, idle : (-1)..SETTLE_DONE, read : Readings \cup {"none"}]
    <3>1. Observed(watch) \in (-1)..SETTLE_DONE
      BY ExitKeysAssumption DEF Observed, KeysTypeOK
    <3> QED BY <1>15, <3>1 DEF Observes, KeysTypeOK
  <2> QED BY <1>15, <2>1, <2>2 DEF Observes, OfStop, KeysTypeOK
<1> QED BY <1>1, <1>2, <1>3, <1>4, <1>5, <1>6, <1>7, <1>8, <1>9, <1>10, <1>11, <1>12, <1>13,
           <1>14, <1>15 DEF StopStep

\* So does every step.
LEMMA KeysStepTypes ==
  ASSUME KeysTypeOK, [KeysNext]_keysVars
  PROVE  KeysTypeOK'
<1>1. CASE AgentStep
  BY <1>1, AgentTypes
<1>2. CASE StopStep
  BY <1>2, StopTypes
<1>3. CASE AnswerLooks
  <2>1. moved' \in [Callers -> BOOLEAN] /\ answerer' \in {"idle", "send"} /\ answers' \in Nat
    BY <1>3, ReadsTypes DEF AnswerLooks, KeysTypeOK, Callers
  <2> QED BY <1>3, <2>1 DEF AnswerLooks, OfAnswer, KeysTypeOK
<1>4. CASE AnswerSends
  <2>1. [by |-> "answer", key |-> "answer"] \in Sent
    BY DEF Sent
  <2>2. pty' \in Seq(Sent)
    BY <1>4, <2>1, TypesKey DEF AnswerSends, KeysTypeOK
  <2> QED BY <1>4, <2>2 DEF AnswerSends, OfAnswer, KeysTypeOK
<1>5. CASE Tick
  <2>1. due' \in Nat
    BY <1>5 DEF Tick, KeysTypeOK
  <2>2. watch' \in [sent : 0..SETTLE_DONE, idle : (-1)..SETTLE_DONE, read : Readings \cup {"none"}]
    <3>1. /\ Later(watch.sent) \in 0..SETTLE_DONE
          /\ (IF watch.idle = -1 THEN -1 ELSE Later(watch.idle)) \in (-1)..SETTLE_DONE
      BY ExitKeysAssumption DEF Later, KeysTypeOK
    <3> QED BY <1>5, <3>1 DEF Tick, KeysTypeOK
  <2> QED BY <1>5, <2>1, <2>2 DEF Tick, KeysTypeOK, agentVars, historyVars
<1>6. CASE UNCHANGED keysVars
  BY <1>6 DEF KeysTypeOK, keysVars, agentVars, callerVars, historyVars
<1> QED BY <1>1, <1>2, <1>3, <1>4, <1>5, <1>6 DEF KeysNext, AnswerStep

-----------------------------------------------------------------------------
(* What the looks of a stop tell of the ui while no other hand has changed *)
(* it, and in what order its keys are on their way.                        *)

StopsKey(s, i) == i \in 1..Len(s) /\ s[i].by = "stop"
SomeOfStop(s) == \E i \in 1..Len(s) : s[i].by = "stop"
FirstOfStop(s, i) == StopsKey(s, i) /\ \A j \in 1..(i - 1) : s[j].by # "stop"

\* Where the request has seen its keys taken, or has sent none since.
NoKeysOut == {"idle", "look", "look-again", "escape", "exit", "queued", "prompt"}

\* A key behind another is an Enter, or the `C-u` of the next half.
KeysInOrder ==
  /\ stop.at \in NoKeysOut => ~SomeOfStop(pty)
  /\ stop.at = "menu" => \A i \in 1..Len(pty) : StopsKey(pty, i) => pty[i].key = "exit"
  /\ stop.at = "enter" => \A i \in 1..Len(pty) : StopsKey(pty, i) => pty[i].key = "prompt"
  /\ \A i, j \in 1..Len(pty) : i < j /\ StopsKey(pty, i) /\ StopsKey(pty, j) =>
       pty[j].key \in {"enter", "clear"}
  /\ stop.at = "menu" => agent = "claude"

Alike(u, v) == u.spot = v.spot /\ u.hold = v.hold /\ (~Waits(u) => ~Waits(v))

\* The next key to be taken is one its look allows.
KeysFit(s, u) ==
  /\ \A i \in 1..Len(s) : FirstOfStop(s, i) => Fits(s[i].key, u)
  /\ \A i, j \in 1..Len(s) : i < j /\ StopsKey(s, i) /\ StopsKey(s, j) /\ s[j].key = "enter" =>
       s[i].key = "prompt"

LooksTell(at, some, drawn, u) ==
  /\ at \in {"look", "look-again"} => Alike(drawn, u)
  /\ at = "queued" => Empty(u) /\ Alike(drawn, u)
  /\ at = "prompt" => Empty(u) /\ Unqueued(u)
  /\ at = "enter" => Unqueued(u) /\ u.spot = "box" /\ u.hold = (IF some THEN "nothing" ELSE "prompt")
  /\ at = "exit" => Empty(u) /\ drawn.spot = "box"
  /\ at = "menu" => /\ drawn.spot = "exit-menu" => u.spot = "exit-menu" /\ u.sel = drawn.sel
                    /\ some => Empty(u)
  /\ at = "press" => ~some /\ u.spot = "exit-menu" /\ u.sel # "stay"

KeysInv ==
  /\ KeysInOrder
  /\ ~moved["stop"] => KeysFit(pty, ui) /\ LooksTell(stop.at, SomeOfStop(pty), frame.of, ui)

\* What a look of the stop's would tell of both.
Calm(u, v) ==
  /\ Alike(u, v)
  /\ u.spot = "exit-menu" => v.sel = u.sel

\* What is calm for the looks of a stop leaves what they tell.
LEMMA CalmTells ==
  ASSUME NEW u \in Uis, NEW v \in Uis, Calm(u, v)
  PROVE  /\ \A s : KeysFit(s, u) => KeysFit(s, v)
         /\ \A at, some, drawn : LooksTell(at, some, drawn, u) => LooksTell(at, some, drawn, v)
<1>1. Empty(u) => Empty(v)
  BY DEF Calm, Alike, Empty
<1>2. Unqueued(u) => Unqueued(v)
  BY DEF Calm, Alike, Unqueued
<1>3. EnterFits(u) => EnterFits(v)
  BY <1>2 DEF Calm, Alike, EnterFits
<1>4. \A key : Fits(key, u) => Fits(key, v)
  BY <1>1, <1>2, <1>3 DEF Fits
<1>5. \A drawn : Alike(drawn, u) => Alike(drawn, v)
  BY DEF Calm, Alike
<1>6. u.spot = v.spot /\ u.hold = v.hold /\ (u.spot = "exit-menu" => v.sel = u.sel)
  BY DEF Calm, Alike
<1>7. ASSUME NEW s, KeysFit(s, u) PROVE KeysFit(s, v)
  BY <1>4, <1>7 DEF KeysFit
<1>8. ASSUME NEW at, NEW some, NEW drawn, LooksTell(at, some, drawn, u)
      PROVE  LooksTell(at, some, drawn, v)
  BY <1>1, <1>2, <1>5, <1>6, <1>8 DEF LooksTell
<1> QED BY <1>7, <1>8

\* Another's key that is taken or sent changes nothing of it.
LEMMA OthersKeyTaken ==
  ASSUME NEW s \in Seq(Sent), NEW t \in Seq(Sent), Len(s) > 0, s[1].by # "stop", Len(t) = Len(s) - 1,
         \A i \in 1..(Len(s) - 1) : t[i] = s[i + 1]
  PROVE  /\ SomeOfStop(t) <=> SomeOfStop(s)
         /\ \A u : KeysFit(s, u) => KeysFit(t, u)
         /\ \A i \in 1..Len(t) : i + 1 \in 1..Len(s) /\ t[i] = s[i + 1]
<1>1. Len(s) \in Nat /\ Len(t) \in Nat
  OBVIOUS
<1>2. \A i \in 1..Len(t) : i + 1 \in 1..Len(s) /\ t[i] = s[i + 1]
  BY <1>1
<1>3. SomeOfStop(t) <=> SomeOfStop(s)
  <2>1. ASSUME SomeOfStop(s) PROVE SomeOfStop(t)
    <3>1. PICK i \in 1..Len(s) : s[i].by = "stop"
      BY <2>1 DEF SomeOfStop
    <3>2. i - 1 \in 1..Len(t) /\ (i - 1) + 1 = i
      BY <3>1, <1>1
    <3>3. t[i - 1] = s[i]
      BY <3>2, <1>2
    <3> QED BY <3>1, <3>2, <3>3 DEF SomeOfStop
  <2>2. ASSUME SomeOfStop(t) PROVE SomeOfStop(s)
    BY <2>2, <1>2 DEF SomeOfStop
  <2> QED BY <2>1, <2>2
<1>4. ASSUME NEW i \in 1..Len(t), FirstOfStop(t, i) PROVE FirstOfStop(s, i + 1)
  <2>1. StopsKey(s, i + 1)
    BY <1>2, <1>4 DEF FirstOfStop, StopsKey
  <2>2. ASSUME NEW j \in 1..((i + 1) - 1) PROVE s[j].by # "stop"
    <3>1. CASE j = 1
      BY <3>1
    <3>2. CASE j # 1
      <4>1. j - 1 \in 1..(i - 1) /\ j - 1 \in 1..Len(t) /\ (j - 1) + 1 = j
        BY <3>2, <1>1
      <4> QED BY <4>1, <1>2, <1>4 DEF FirstOfStop
    <3> QED BY <3>1, <3>2
  <2> QED BY <2>1, <2>2 DEF FirstOfStop
<1>5. ASSUME NEW u, KeysFit(s, u) PROVE KeysFit(t, u)
  <2>1. ASSUME NEW i \in 1..Len(t), FirstOfStop(t, i) PROVE Fits(t[i].key, u)
    BY <1>2, <1>4, <1>5, <2>1 DEF KeysFit
  <2>2. ASSUME NEW i \in 1..Len(t), NEW j \in 1..Len(t), i < j, StopsKey(t, i), StopsKey(t, j),
               t[j].key = "enter"
        PROVE  t[i].key = "prompt"
    <3>1. /\ i + 1 \in 1..Len(s) /\ j + 1 \in 1..Len(s) /\ i + 1 < j + 1
          /\ t[i] = s[i + 1] /\ t[j] = s[j + 1]
      BY <1>2, <2>2
    <3>2. StopsKey(s, i + 1) /\ StopsKey(s, j + 1) /\ s[j + 1].key = "enter"
      BY <3>1, <2>2 DEF StopsKey
    <3> QED BY <3>1, <3>2, <1>5 DEF KeysFit
  <2> QED BY <2>1, <2>2 DEF KeysFit
<1> QED BY <1>2, <1>3, <1>5

\* Nor does one it sends.
LEMMA OthersKeySent ==
  ASSUME NEW s \in Seq(Sent), NEW t \in Seq(Sent), Len(t) = Len(s) + 1,
         \A i \in 1..Len(s) : t[i] = s[i], t[Len(s) + 1].by # "stop"
  PROVE  /\ SomeOfStop(t) <=> SomeOfStop(s)
         /\ \A u : KeysFit(s, u) => KeysFit(t, u)
         /\ \A i \in 1..Len(t) : StopsKey(t, i) => i \in 1..Len(s) /\ t[i] = s[i]
<1>1. Len(s) \in Nat /\ Len(t) \in Nat
  OBVIOUS
<1>2. \A i \in 1..Len(t) : StopsKey(t, i) => i \in 1..Len(s) /\ t[i] = s[i] /\ StopsKey(s, i)
  BY <1>1 DEF StopsKey
<1>3. \A i \in 1..Len(s) : i \in 1..Len(t) /\ t[i] = s[i]
  BY <1>1
<1>4. SomeOfStop(t) <=> SomeOfStop(s)
  BY <1>2, <1>3 DEF SomeOfStop, StopsKey
<1>5. ASSUME NEW i \in 1..Len(t), FirstOfStop(t, i) PROVE FirstOfStop(s, i)
  <2>1. StopsKey(s, i) /\ i \in 1..Len(s)
    BY <1>2, <1>5 DEF FirstOfStop
  <2>2. \A j \in 1..(i - 1) : j \in 1..Len(s)
    BY <1>1, <2>1
  <2> QED BY <1>3, <1>5, <2>1, <2>2 DEF FirstOfStop
<1>6. ASSUME NEW u, KeysFit(s, u) PROVE KeysFit(t, u)
  <2>1. ASSUME NEW i \in 1..Len(t), FirstOfStop(t, i) PROVE Fits(t[i].key, u)
    <3>1. FirstOfStop(s, i) /\ i \in 1..Len(s) /\ t[i] = s[i]
      BY <1>2, <1>5, <2>1 DEF FirstOfStop
    <3> QED BY <1>6, <3>1 DEF KeysFit
  <2>2. ASSUME NEW i \in 1..Len(t), NEW j \in 1..Len(t), i < j, StopsKey(t, i), StopsKey(t, j),
               t[j].key = "enter"
        PROVE  t[i].key = "prompt"
    BY <1>2, <1>6, <2>2 DEF KeysFit
  <2> QED BY <2>1, <2>2 DEF KeysFit
<1> QED BY <1>2, <1>4, <1>6

\* What a caller is not told of keeps what its look read.
LEMMA OthersAreCalm ==
  ASSUME KeysTypeOK, ui' \in Uis, NEW c \in Callers, NEW by, by # c, Becomes(ui', by), ~moved'[c]
  PROVE  ~moved[c] /\ ui'.spot = ui.spot /\ ui'.hold = ui.hold /\ ~Grown(ui, ui')
<1>1. moved'[c] = (moved[c] \/ (c # by /\ (ui'.spot # ui.spot \/ ui'.hold # ui.hold \/ Grown(ui, ui'))))
  BY DEF Becomes
<1> QED BY <1>1

\* The agent and a person at it, as far as the looks of a stop go.
LEMMA AgentIsCalm ==
  ASSUME KeysTypeOK, TurnEnds \/ StartsNext \/ SomethingMoves, ~moved'["stop"]
  PROVE  ~moved["stop"] /\ ui' \in Uis /\ Calm(ui, ui')
<1>1. ui \in Uis
  BY DEF KeysTypeOK
<1>2. CASE TurnEnds
  <2>1. ui' = [ui EXCEPT !.turn = "idle"] /\ Becomes(ui', "nobody") /\ Busy(ui)
    BY <1>2 DEF TurnEnds, Becomes
  <2>2. ui' \in Uis
    BY <1>1, <2>1, UiEdits DEF Turns
  <2>3. ~moved["stop"] /\ ui'.spot = ui.spot /\ ui'.hold = ui.hold
    BY <2>1, <2>2, OthersAreCalm DEF Callers
  <2>4. ui'.sel = ui.sel /\ ui'.queue = ui.queue
    BY <1>1, <2>1 DEF Uis
  <2>5. ~Waits(ui) => ~Waits(ui')
    BY <2>1, <2>4 DEF Waits, Waiting
  <2> QED BY <2>2, <2>3, <2>4, <2>5 DEF Calm, Alike
<1>3. CASE StartsNext
  <2>1. /\ ui' \in Uis /\ Becomes(ui', "nobody")
        /\ ui.queue # <<>> /\ Head(ui.queue) \in Work
        /\ \/ Head(ui.queue) = "exit" /\ ui'.spot \in {"exit-menu", "gone"}
           \/ /\ Head(ui.queue) # "exit"
              /\ ui' = [ui EXCEPT !.turn = Head(ui.queue), !.queue = Tail(@)]
    BY <1>1, <1>3, StartedUi
  <2>2. ~moved["stop"] /\ ui'.spot = ui.spot /\ ui'.hold = ui.hold
    BY <2>1, OthersAreCalm DEF Callers
  <2>3. ui.spot = "box" /\ ~Busy(ui)
    BY <1>3 DEF StartsNext
  <2>4. ui'.turn = Head(ui.queue) /\ ui'.turn \in Work \ {"exit"} /\ ui'.queue = Tail(ui.queue)
    BY <1>1, <2>1, <2>2, <2>3 DEF Uis
  <2>5. Busy(ui')
    BY <2>4 DEF Busy, Work
  <2>6. ~Waits(ui) => ~Waits(ui')
    BY <2>1, <2>3, <2>4, <2>5 DEF Waits, Waiting
  <2> QED BY <2>1, <2>2, <2>3, <2>6 DEF Calm, Alike
<1>4. CASE SomethingMoves
  <2>1. /\ ui' \in Uis /\ Becomes(ui', "nobody")
        /\ \/ ui.spot = "box" /\ ui' = [ui EXCEPT !.hold = "draft"]
           \/ ui.spot = "box" /\ ui' = [ui EXCEPT !.queue = Append(@, "theirs")]
           \/ ui.spot = "box" /\ ui' = [ui EXCEPT !.panel = ~@]
           \/ ui.spot = "box" /\ Busy(ui) /\ \E s \in {"question", "strange"} :
                ui' = [ui EXCEPT !.spot = s]
           \/ ui.spot # "gone" /\ ui' = Gone(ui)
           \/ /\ ui.spot \in {"question", "strange", "exit-menu"}
              /\ \E a \in BOOLEAN : ui' = [ui EXCEPT !.spot = "box", !.asked = a]
    BY <1>1, <1>4, MovedUi DEF SomethingMoves
  <2>2. ~moved["stop"] /\ ui'.spot = ui.spot /\ ui'.hold = ui.hold /\ ~Grown(ui, ui')
    BY <2>1, OthersAreCalm DEF Callers
  <2>3. CASE ui.spot = "box" /\ ui' = [ui EXCEPT !.hold = "draft"]
    <3>1. ui'.turn = ui.turn /\ ui'.queue = ui.queue
      BY <1>1, <2>3 DEF Uis
    <3>2. Waits(ui') <=> Waits(ui)
      BY <3>1 DEF Waits, Waiting, Busy
    <3> QED BY <2>1, <2>2, <2>3, <3>2 DEF Calm, Alike
  <2>4. CASE ui.spot = "box" /\ ui' = [ui EXCEPT !.queue = Append(@, "theirs")]
    <3>1. ui'.queue = Append(ui.queue, "theirs") /\ ui.queue \in Seq(Work)
      BY <1>1, <2>4 DEF Uis
    <3>2. Len(ui'.queue) > Len(ui.queue)
      BY <3>1
    <3> QED BY <2>2, <3>2 DEF Grown
  <2>5. CASE ui.spot = "box" /\ ui' = [ui EXCEPT !.panel = ~@]
    <3>1. ui'.turn = ui.turn /\ ui'.queue = ui.queue
      BY <1>1, <2>5 DEF Uis
    <3>2. Waits(ui') <=> Waits(ui)
      BY <3>1 DEF Waits, Waiting, Busy
    <3> QED BY <2>1, <2>2, <2>5, <3>2 DEF Calm, Alike
  <2>6. CASE ui.spot = "box" /\ Busy(ui) /\ \E s \in {"question", "strange"} :
               ui' = [ui EXCEPT !.spot = s]
    <3>1. PICK s \in {"question", "strange"} : ui' = [ui EXCEPT !.spot = s]
      BY <2>6
    <3>2. ui'.spot = s
      BY <1>1, <3>1 DEF Uis
    <3> QED BY <2>2, <2>6, <3>2
  <2>7. CASE ui.spot # "gone" /\ ui' = Gone(ui)
    <3>1. ui'.spot = "gone"
      BY <1>1, <2>7 DEF Uis, Gone
    <3> QED BY <2>2, <2>7, <3>1
  <2>8. CASE /\ ui.spot \in {"question", "strange", "exit-menu"}
             /\ \E a \in BOOLEAN : ui' = [ui EXCEPT !.spot = "box", !.asked = a]
    <3>1. PICK a \in BOOLEAN : ui' = [ui EXCEPT !.spot = "box", !.asked = a]
      BY <2>8
    <3>2. ui'.spot = "box"
      BY <1>1, <3>1 DEF Uis
    <3> QED BY <2>2, <2>8, <3>2
  <2> QED BY <2>1, <2>3, <2>4, <2>5, <2>6, <2>7, <2>8
<1> QED BY <1>2, <1>3, <1>4

\* So is an answer that reaches the agent.
LEMMA AnswerIsCalm ==
  ASSUME KeysTypeOK, NEW to \in Takes("answer", ui), ui' = to.u, Becomes(to.u, "answer"),
         ui.spot # "gone", ~moved'["stop"]
  PROVE  ~moved["stop"] /\ ui' \in Uis /\ Calm(ui, ui')
<1>1. ui \in Uis /\ to \in AnswerTakes(ui)
  BY Taken DEF KeysTypeOK
<1>2. /\ to.u \in Uis
      /\ ui.spot \in {"question", "exit-menu"} => to.u \in Answered(ui)
      /\ ui.spot \notin {"question", "exit-menu"} => to.u = ui \/ to.u = [ui EXCEPT !.hold = "draft"]
  BY <1>1, AnswerTaken
<1>3. Becomes(ui', "answer") /\ ui' \in Uis
  BY <1>2
<1>4. ~moved["stop"] /\ ui'.spot = ui.spot /\ ui'.hold = ui.hold
  BY <1>3, OthersAreCalm DEF Callers
<1>5. CASE ui.spot \in {"question", "exit-menu"}
  <2>1. to.u = ui \/ to.u.spot # ui.spot
    BY <1>1, <1>2, <1>5, AnsweredTypes
  <2>2. ui' = ui
    BY <1>4, <2>1
  <2> QED BY <1>3, <1>4, <2>2 DEF Calm, Alike
<1>6. CASE ui.spot \notin {"question", "exit-menu"}
  <2>1. ui'.turn = ui.turn /\ ui'.queue = ui.queue /\ ui'.sel = ui.sel
    BY <1>1, <1>2, <1>6 DEF Uis
  <2>2. Waits(ui') <=> Waits(ui)
    BY <2>1 DEF Waits, Waiting, Busy
  <2> QED BY <1>3, <1>4, <2>1, <2>2 DEF Calm, Alike
<1> QED BY <1>5, <1>6

\* At the other points of a request its looks tell nothing.
LEMMA LooksNothing ==
  ASSUME NEW at, NEW some, NEW drawn, NEW u,
         at \notin {"look", "look-again", "queued", "prompt", "enter", "exit", "menu", "press"}
  PROVE  LooksTell(at, some, drawn, u)
BY DEF LooksTell

\* A key of the stop's that is taken.
LEMMA StopsKeyTaken ==
  ASSUME KeysTypeOK, KeysInv, NEW sent \in Sent, NEW to \in Takes(sent.key, ui),
         sent = pty[1], sent.by = "stop", Len(pty) > 0,
         pty' \in Seq(Sent), Len(pty') = Len(pty) - 1,
         \A i \in 1..(Len(pty) - 1) : pty'[i] = pty[i + 1],
         ui' = to.u, Becomes(to.u, "stop"), UNCHANGED <<stop, frame, agent>>
  PROVE  KeysInv'
<1>1. /\ Len(pty) \in Nat /\ Len(pty') \in Nat /\ 1 \in 1..Len(pty)
      /\ ui \in Uis /\ pty \in Seq(Sent)
  BY DEF KeysTypeOK
<1>2. \A i \in 1..Len(pty') : i + 1 \in 1..Len(pty) /\ 1 < i + 1 /\ pty'[i] = pty[i + 1]
  BY <1>1
<1>3. StopsKey(pty, 1) /\ FirstOfStop(pty, 1) /\ SomeOfStop(pty)
  BY <1>1 DEF StopsKey, FirstOfStop, SomeOfStop
<1>4. \A i \in 1..Len(pty') : StopsKey(pty', i) => StopsKey(pty, i + 1)
  BY <1>2 DEF StopsKey
<1>5. \A i \in 1..Len(pty') : StopsKey(pty', i) => pty'[i].key \in {"enter", "clear"}
  BY <1>1, <1>2, <1>3, <1>4 DEF KeysInv, KeysInOrder
<1>6. stop.at \notin NoKeysOut
  BY <1>3 DEF KeysInv, KeysInOrder
<1>7. KeysInOrder'
  <2>1. (stop.at = "menu" => \A i \in 1..Len(pty) : StopsKey(pty, i) => pty[i].key = "exit")'
    BY <1>2, <1>4 DEF KeysInv, KeysInOrder
  <2>2. (stop.at = "enter" => \A i \in 1..Len(pty) : StopsKey(pty, i) => pty[i].key = "prompt")'
    BY <1>2, <1>4 DEF KeysInv, KeysInOrder
  <2>3. (\A i, j \in 1..Len(pty) : i < j /\ StopsKey(pty, i) /\ StopsKey(pty, j) =>
           pty[j].key \in {"enter", "clear"})'
    BY <1>5
  <2> QED BY <1>6, <2>1, <2>2, <2>3 DEF KeysInv, KeysInOrder
<1>8. SUFFICES ASSUME ~moved'["stop"]
               PROVE  (KeysFit(pty, ui) /\ LooksTell(stop.at, SomeOfStop(pty), frame.of, ui))'
  BY <1>7 DEF KeysInv
<1>9. ~moved["stop"]
  BY <1>8 DEF Becomes, Callers
<1>10. KeysFit(pty, ui) /\ LooksTell(stop.at, SomeOfStop(pty), frame.of, ui)
  BY <1>9 DEF KeysInv
<1>11. Fits(sent.key, ui)
  BY <1>1, <1>3, <1>10 DEF KeysFit
<1>12. sent.key = "prompt" => ui'.spot = "box" /\ ui'.hold = "prompt" /\ Unqueued(ui')
  <2> SUFFICES ASSUME sent.key = "prompt"
               PROVE  ui'.spot = "box" /\ ui'.hold = "prompt" /\ Unqueued(ui')
    OBVIOUS
  <2>1. Empty(ui) /\ Unqueued(ui) /\ to \in TextTakes(ui)
    BY <1>11, Taken DEF Fits
  <2>2. ui' = [ui EXCEPT !.hold = "prompt"]
    BY <1>1, <2>1, TextTaken
  <2>3. ui'.spot = "box" /\ ui'.hold = "prompt" /\ ui'.turn = ui.turn /\ ui'.queue = ui.queue
    BY <1>1, <2>1, <2>2 DEF Uis, Empty
  <2>4. Waits(ui') <=> Waits(ui)
    BY <2>3 DEF Waits, Waiting, Busy
  <2> QED BY <2>1, <2>3, <2>4 DEF Unqueued
<1>13. KeysFit(pty', ui')
  <2>1. ASSUME NEW i \in 1..Len(pty'), FirstOfStop(pty', i) PROVE Fits(pty'[i].key, ui')
    <3>1. StopsKey(pty', i)
      BY <2>1 DEF FirstOfStop
    <3>2. CASE pty'[i].key = "clear"
      BY <3>2 DEF Fits
    <3>3. CASE pty'[i].key = "enter"
      <4>1. StopsKey(pty, i + 1) /\ i + 1 \in 1..Len(pty) /\ 1 < i + 1 /\ pty[i + 1].key = "enter"
        BY <1>2, <1>4, <3>1, <3>3
      <4>2. pty[1].key = "prompt"
        BY <1>1, <1>3, <1>10, <4>1 DEF KeysFit
      <4>3. EnterFits(ui')
        BY <1>12, <4>2 DEF EnterFits
      <4> QED BY <3>3, <4>3 DEF Fits
    <3> QED BY <1>5, <3>1, <3>2, <3>3
  <2>2. ASSUME NEW i \in 1..Len(pty'), NEW j \in 1..Len(pty'), i < j, StopsKey(pty', i),
                 StopsKey(pty', j),
               pty'[j].key = "enter"
        PROVE  pty'[i].key = "prompt"
    <3>1. /\ i + 1 \in 1..Len(pty) /\ j + 1 \in 1..Len(pty) /\ i + 1 < j + 1
          /\ StopsKey(pty, i + 1) /\ StopsKey(pty, j + 1)
          /\ pty'[i] = pty[i + 1] /\ pty[j + 1].key = "enter"
      BY <1>2, <1>4, <2>2
    <3> QED BY <1>10, <3>1 DEF KeysFit
  <2> QED BY <2>1, <2>2 DEF KeysFit
<1>14. LooksTell(stop.at, SomeOfStop(pty'), frame.of, ui')
  <2>1. CASE stop.at = "enter"
    <3>1. sent.key = "prompt"
      BY <1>1, <1>3, <2>1 DEF KeysInv, KeysInOrder
    <3>2. ~SomeOfStop(pty')
      <4> SUFFICES ASSUME NEW i \in 1..Len(pty'), pty'[i].by = "stop" PROVE FALSE
        BY DEF SomeOfStop
      <4>1. StopsKey(pty', i)
        BY DEF StopsKey
      <4>2. pty'[i].key \in {"enter", "clear"}
        BY <1>5, <4>1
      <4>3. pty'[i].key = "prompt"
        BY <1>2, <1>4, <2>1, <4>1 DEF KeysInv, KeysInOrder
      <4> QED BY <4>2, <4>3
    <3> QED BY <1>12, <2>1, <3>1, <3>2 DEF LooksTell
  <2>2. CASE stop.at = "menu"
    <3>1. ~SomeOfStop(pty')
      <4> SUFFICES ASSUME NEW i \in 1..Len(pty'), pty'[i].by = "stop" PROVE FALSE
        BY DEF SomeOfStop
      <4>1. StopsKey(pty', i)
        BY DEF StopsKey
      <4>2. pty'[i].key \in {"enter", "clear"}
        BY <1>5, <4>1
      <4>3. pty'[i].key = "exit"
        BY <1>2, <1>4, <2>2, <4>1 DEF KeysInv, KeysInOrder
      <4> QED BY <4>2, <4>3
    <3>2. Empty(ui)
      BY <1>3, <1>10, <2>2 DEF LooksTell
    <3>3. frame.of.spot # "exit-menu"
      BY <1>10, <2>2, <3>2 DEF LooksTell, Empty
    <3> QED BY <2>2, <3>1, <3>3 DEF LooksTell
  <2>3. CASE stop.at = "press"
    BY <1>3, <1>10, <2>3 DEF LooksTell
  <2>4. CASE stop.at \notin {"enter", "menu", "press"}
    BY <1>6, <2>4, LooksNothing DEF NoKeysOut
  <2> QED BY <2>1, <2>2, <2>3, <2>4
<1> QED BY <1>13, <1>14

\* A key the stop sends comes after its others.
LEMMA StopsKeySent ==
  ASSUME NEW s \in Seq(Sent), NEW t \in Seq(Sent), NEW key,
         Len(t) = Len(s) + 1, \A i \in 1..Len(s) : t[i] = s[i],
         t[Len(s) + 1] = [by |-> "stop", key |-> key],
         \A i, j \in 1..Len(s) : i < j /\ StopsKey(s, i) /\ StopsKey(s, j) =>
           s[j].key \in {"enter", "clear"},
         SomeOfStop(s) => key \in {"enter", "clear"}
  PROVE  /\ SomeOfStop(t)
         /\ \A i, j \in 1..Len(t) : i < j /\ StopsKey(t, i) /\ StopsKey(t, j) =>
              t[j].key \in {"enter", "clear"}
         /\ \A i \in 1..Len(t) : StopsKey(t, i) =>
              t[i].key = key \/ (i \in 1..Len(s) /\ StopsKey(s, i) /\ t[i] = s[i])
         /\ \A u : /\ KeysFit(s, u) /\ (SomeOfStop(s) \/ Fits(key, u))
                   /\ key = "enter" => \A i \in 1..Len(s) : StopsKey(s, i) => s[i].key = "prompt"
                   => KeysFit(t, u)
<1>1. Len(s) \in Nat /\ Len(t) \in Nat /\ Len(s) + 1 \in 1..Len(t)
  OBVIOUS
<1>2. t[Len(s) + 1].by = "stop" /\ t[Len(s) + 1].key = key
  OBVIOUS
<1>3. SomeOfStop(t)
  BY <1>1, <1>2 DEF SomeOfStop
<1>4. \A i \in 1..Len(t) : i = Len(s) + 1 \/ (i \in 1..Len(s) /\ t[i] = s[i] /\ (StopsKey(t, i) <=> StopsKey(s, i)))
  BY <1>1 DEF StopsKey
<1>5. \A i \in 1..Len(s) : StopsKey(s, i) => SomeOfStop(s)
  BY DEF StopsKey, SomeOfStop
<1>6. ASSUME NEW i \in 1..Len(t), NEW j \in 1..Len(t), i < j, StopsKey(t, i), StopsKey(t, j)
      PROVE  t[j].key \in {"enter", "clear"}
  <2>1. i \in 1..Len(s) /\ StopsKey(s, i)
    BY <1>1, <1>4, <1>6
  <2>2. CASE j = Len(s) + 1
    BY <1>2, <1>5, <2>1, <2>2
  <2>3. CASE j # Len(s) + 1
    BY <1>4, <1>6, <2>1, <2>3
  <2> QED BY <2>2, <2>3
<1>7. ASSUME NEW u, KeysFit(s, u), SomeOfStop(s) \/ Fits(key, u),
             key = "enter" => \A i \in 1..Len(s) : StopsKey(s, i) => s[i].key = "prompt"
      PROVE  KeysFit(t, u)
  <2>1. ASSUME NEW i \in 1..Len(t), FirstOfStop(t, i) PROVE Fits(t[i].key, u)
    <3>1. StopsKey(t, i) /\ \A j \in 1..(i - 1) : t[j].by # "stop"
      BY <2>1 DEF FirstOfStop
    <3>2. CASE i = Len(s) + 1
      <4>1. \A j \in 1..Len(s) : s[j].by # "stop"
        BY <1>1, <3>1, <3>2
      <4>2. ~SomeOfStop(s)
        BY <4>1 DEF SomeOfStop
      <4> QED BY <1>2, <1>7, <3>2, <4>2
    <3>3. CASE i # Len(s) + 1
      <4>1. i \in 1..Len(s) /\ t[i] = s[i] /\ StopsKey(s, i)
        BY <1>4, <3>1, <3>3
      <4>2. \A j \in 1..(i - 1) : j \in 1..Len(s)
        BY <1>1, <4>1
      <4>3. FirstOfStop(s, i)
        BY <3>1, <4>1, <4>2 DEF FirstOfStop
      <4> QED BY <1>7, <4>1, <4>3 DEF KeysFit
    <3> QED BY <3>2, <3>3
  <2>2. ASSUME NEW i \in 1..Len(t), NEW j \in 1..Len(t), i < j, StopsKey(t, i), StopsKey(t, j),
               t[j].key = "enter"
        PROVE  t[i].key = "prompt"
    <3>1. i \in 1..Len(s) /\ StopsKey(s, i) /\ t[i] = s[i]
      BY <1>1, <1>4, <2>2
    <3>2. CASE j = Len(s) + 1
      BY <1>2, <1>7, <2>2, <3>1, <3>2
    <3>3. CASE j # Len(s) + 1
      <4>1. j \in 1..Len(s) /\ t[j] = s[j] /\ StopsKey(s, j)
        BY <1>4, <2>2, <3>3
      <4> QED BY <1>7, <2>2, <3>1, <4>1 DEF KeysFit
    <3> QED BY <3>2, <3>3
  <2> QED BY <2>1, <2>2 DEF KeysFit
<1>8. \A i \in 1..Len(t) : StopsKey(t, i) =>
        t[i].key = key \/ (i \in 1..Len(s) /\ StopsKey(s, i) /\ t[i] = s[i])
  BY <1>2, <1>4
<1> QED BY <1>3, <1>6, <1>7, <1>8

\* Whether a key of the stop's is on its way, by its place in the terminal.
LEMMA NoneOnTheirWay ==
  ASSUME pty \in Seq(Sent)
  PROVE  OnTheirWay("stop") <=> SomeOfStop(pty)
<1>1. DOMAIN pty = 1..Len(pty)
  OBVIOUS
<1> QED BY <1>1 DEF OnTheirWay, SomeOfStop

\* Where none is, they are in order and fit.
LEMMA NoneIsOrdered ==
  ASSUME NEW s, ~SomeOfStop(s)
  PROVE  /\ \A i \in 1..Len(s) : ~StopsKey(s, i)
         /\ \A u : KeysFit(s, u)
BY DEF SomeOfStop, StopsKey, FirstOfStop, KeysFit

\* What leaves the keys and the ui alone leaves the rest of it to the point
\* the request is at.
LEMMA AtOnly ==
  ASSUME KeysInv, UNCHANGED <<agent, ui, pty>>,
         stop'.at \in NoKeysOut => ~SomeOfStop(pty),
         stop'.at \in {"menu", "enter"} => stop.at = stop'.at,
         ~moved'["stop"] => ~moved["stop"] \/ ~SomeOfStop(pty),
         ~moved'["stop"] => LooksTell(stop'.at, SomeOfStop(pty), frame'.of, ui)
  PROVE  KeysInv'
<1>1. KeysInOrder'
  BY DEF KeysInv, KeysInOrder
<1>2. ~moved'["stop"] => KeysFit(pty, ui)
  BY NoneIsOrdered DEF KeysInv
<1>3. ~moved'["stop"] => KeysFit(pty', ui') /\ LooksTell(stop'.at, SomeOfStop(pty'), frame'.of, ui')
  BY <1>2
<1> QED BY <1>1, <1>3 DEF KeysInv

\* The steps of the agent keep what the keys and the looks tell.
LEMMA AgentKeys ==
  ASSUME KeysTypeOK, KeysTypeOK', KeysInv, AgentStep
  PROVE  KeysInv'
<1>0. ui \in Uis /\ ui' \in Uis /\ pty \in Seq(Sent) /\ Len(pty) \in Nat
  BY DEF KeysTypeOK
<1>1. CASE Draws
  <2>1. /\ UNCHANGED <<agent, ui, pty, stop, moved>> /\ frame'.of = ui
    BY <1>1 DEF Draws, callerVars, historyVars
  <2>2. ~moved["stop"] => LooksTell(stop.at, SomeOfStop(pty), ui, ui)
    BY DEF KeysInv, LooksTell, Alike, Empty
  <2>3. stop.at \in NoKeysOut => ~SomeOfStop(pty)
    BY DEF KeysInv, KeysInOrder
  <2> QED BY <2>1, <2>2, <2>3, AtOnly
<1>2. CASE TurnEnds \/ StartsNext \/ SomethingMoves
  <2>1. UNCHANGED <<agent, pty, frame, stop>>
    BY <1>2 DEF TurnEnds, StartsNext, SomethingMoves, callerVars
  <2>2. KeysInOrder'
    BY <2>1 DEF KeysInv, KeysInOrder
  <2>3. ASSUME ~moved'["stop"]
        PROVE  KeysFit(pty', ui') /\ LooksTell(stop'.at, SomeOfStop(pty'), frame'.of, ui')
    <3>1. ~moved["stop"] /\ Calm(ui, ui')
      BY <1>2, <2>3, AgentIsCalm
    <3>2. KeysFit(pty, ui) /\ LooksTell(stop.at, SomeOfStop(pty), frame.of, ui)
      BY <3>1 DEF KeysInv
    <3>3. KeysFit(pty, ui') /\ LooksTell(stop.at, SomeOfStop(pty), frame.of, ui')
      BY <1>0, <3>1, <3>2, CalmTells
    <3> QED BY <2>1, <3>3
  <2> QED BY <2>2, <2>3 DEF KeysInv
<1>3. CASE TakesKey
  <2>1. UNCHANGED <<agent, frame, stop>>
    BY <1>3 DEF TakesKey, callerVars
  <2>2. PICK sent \in Sent : \E to \in Takes(sent.key, ui) :
           /\ sent = pty[1] /\ sent.by \in Callers /\ sent.key \in StopKeys \cup {"answer"}
           /\ Len(pty) > 0 /\ Len(pty) \in Nat
           /\ pty' \in Seq(Sent) /\ Len(pty') = Len(pty) - 1
           /\ \A i \in 1..(Len(pty) - 1) : pty'[i] = pty[i + 1]
           /\ ui' = to.u /\ Becomes(to.u, sent.by) /\ to.u \in Uis /\ ui.spot # "gone"
    BY <1>3, TakenKey
  <2>3. PICK to \in Takes(sent.key, ui) :
           /\ sent = pty[1] /\ sent.by \in Callers
           /\ Len(pty) > 0 /\ pty' \in Seq(Sent) /\ Len(pty') = Len(pty) - 1
           /\ \A i \in 1..(Len(pty) - 1) : pty'[i] = pty[i + 1]
           /\ ui' = to.u /\ Becomes(to.u, sent.by) /\ ui.spot # "gone"
    BY <2>2
  <2>4. CASE sent.by = "stop"
    BY <2>1, <2>3, <2>4, StopsKeyTaken
  <2>5. CASE sent.by = "answer"
    <3>1. sent.key = "answer"
      BY <2>5 DEF Sent
    <3>2. /\ SomeOfStop(pty') <=> SomeOfStop(pty)
          /\ \A u : KeysFit(pty, u) => KeysFit(pty', u)
          /\ \A i \in 1..Len(pty') : i + 1 \in 1..Len(pty) /\ pty'[i] = pty[i + 1]
      BY <1>0, <2>3, <2>5, OthersKeyTaken
    <3>3. \A i \in 1..Len(pty') : StopsKey(pty', i) => StopsKey(pty, i + 1)
      BY <3>2 DEF StopsKey
    <3>4. KeysInOrder'
      <4>1. \A i \in 1..Len(pty'), j \in 1..Len(pty') : i < j => i + 1 < j + 1
        OBVIOUS
      <4>2. (\A i, j \in 1..Len(pty) : i < j /\ StopsKey(pty, i) /\ StopsKey(pty, j) =>
              pty[j].key \in {"enter", "clear"})'
        <5> SUFFICES ASSUME NEW i \in 1..Len(pty'), NEW j \in 1..Len(pty'),
                            i < j, StopsKey(pty', i), StopsKey(pty', j)
                     PROVE  pty'[j].key \in {"enter", "clear"}
          OBVIOUS
        <5>1. /\ i + 1 \in 1..Len(pty) /\ j + 1 \in 1..Len(pty) /\ i + 1 < j + 1
              /\ StopsKey(pty, i + 1) /\ StopsKey(pty, j + 1) /\ pty'[j] = pty[j + 1]
          BY <3>2, <3>3, <4>1
        <5> QED BY <5>1 DEF KeysInv, KeysInOrder
      <4>3. (stop.at = "menu" => \A i \in 1..Len(pty) : StopsKey(pty, i) => pty[i].key = "exit")'
        BY <2>1, <3>2, <3>3 DEF KeysInv, KeysInOrder
      <4>4. (stop.at = "enter" => \A i \in 1..Len(pty) : StopsKey(pty, i) => pty[i].key = "prompt")'
        BY <2>1, <3>2, <3>3 DEF KeysInv, KeysInOrder
      <4> QED BY <2>1, <3>2, <4>2, <4>3, <4>4 DEF KeysInv, KeysInOrder
    <3>5. ASSUME ~moved'["stop"]
          PROVE  KeysFit(pty', ui') /\ LooksTell(stop'.at, SomeOfStop(pty'), frame'.of, ui')
      <4>1. ~moved["stop"] /\ Calm(ui, ui')
        BY <2>3, <2>5, <3>1, <3>5, AnswerIsCalm
      <4>2. KeysFit(pty, ui) /\ LooksTell(stop.at, SomeOfStop(pty), frame.of, ui)
        BY <4>1 DEF KeysInv
      <4>3. KeysFit(pty, ui') /\ LooksTell(stop.at, SomeOfStop(pty), frame.of, ui')
        BY <1>0, <4>1, <4>2, CalmTells
      <4>4. SomeOfStop(pty') = SomeOfStop(pty)
        BY <3>2 DEF SomeOfStop
      <4> QED BY <2>1, <3>2, <4>3, <4>4
    <3> QED BY <3>4, <3>5 DEF KeysInv
  <2> QED BY <2>3, <2>4, <2>5 DEF Callers
<1>4. CASE KeyIsLost
  <2>1. UNCHANGED <<agent, ui, frame, stop, moved>> /\ ui.spot = "gone"
    BY <1>4 DEF KeyIsLost, callerVars, historyVars
  <2>2. pty' = <<>>
    BY <1>4 DEF KeyIsLost
  <2>3. Len(pty') = 0 /\ 1..0 = {}
    BY <2>2
  <2>4. ~SomeOfStop(pty')
    BY <2>3 DEF SomeOfStop
  <2>5. KeysInOrder'
    BY <2>1, <2>3, <2>4 DEF KeysInv, KeysInOrder
  <2>6. ~moved["stop"] => LooksTell(stop.at, SomeOfStop(pty'), frame.of, ui)
    <3> SUFFICES ASSUME ~moved["stop"] PROVE LooksTell(stop.at, SomeOfStop(pty'), frame.of, ui)
      OBVIOUS
    <3>1. LooksTell(stop.at, SomeOfStop(pty), frame.of, ui)
      BY DEF KeysInv
    <3>2. stop.at # "enter" /\ stop.at # "press"
      BY <2>1, <3>1 DEF LooksTell
    <3> QED BY <2>4, <3>1, <3>2 DEF LooksTell
  <2> QED BY <2>1, <2>4, <2>5, <2>6, NoneIsOrdered DEF KeysInv
<1> QED BY <1>1, <1>2, <1>3, <1>4 DEF AgentStep

\* What the stop sends.
LEMMA StopSends ==
  ASSUME KeysTypeOK, KeysInv, NEW key \in StopKeys, Types("stop", <<key>>),
         UNCHANGED <<agent, ui, frame, moved>>,
         SomeOfStop(pty) => key \in {"enter", "clear"},
         ~moved["stop"] /\ key = "enter" =>
           \A i \in 1..Len(pty) : StopsKey(pty, i) => pty[i].key = "prompt",
         ~moved["stop"] => SomeOfStop(pty) \/ Fits(key, ui),
         stop'.at \notin NoKeysOut,
         stop'.at = "menu" => key = "exit" /\ ~SomeOfStop(pty) /\ agent = "claude",
         stop'.at = "enter" => key = "prompt" /\ ~SomeOfStop(pty),
         ~moved["stop"] => LooksTell(stop'.at, TRUE, frame.of, ui),
         ~moved["stop"] /\ ui.spot = "gone" => LooksTell(stop'.at, SomeOfStop(pty), frame.of, ui)
  PROVE  KeysInv'
<1>1. pty \in Seq(Sent) /\ [by |-> "stop", key |-> key] \in Sent
  BY DEF KeysTypeOK, Sent
<1>2. /\ pty' \in Seq(Sent)
      /\ \/ ui.spot = "gone" /\ pty' = pty
         \/ /\ Len(pty') = Len(pty) + 1
            /\ \A i \in 1..Len(pty) : pty'[i] = pty[i]
            /\ pty'[Len(pty) + 1] = [by |-> "stop", key |-> key]
  BY <1>1, TypesKey
<1>3. \A i, j \in 1..Len(pty) : i < j /\ StopsKey(pty, i) /\ StopsKey(pty, j) =>
        pty[j].key \in {"enter", "clear"}
  BY DEF KeysInv, KeysInOrder
<1>4. ~moved["stop"] => KeysFit(pty, ui)
  BY DEF KeysInv
<1>5. ~SomeOfStop(pty) => \A i \in 1..Len(pty) : ~StopsKey(pty, i)
  BY NoneIsOrdered
<1>6. CASE ui.spot = "gone" /\ pty' = pty
  <2>1. KeysInOrder'
    BY <1>3, <1>5, <1>6 DEF KeysInOrder
  <2>2. ~moved'["stop"] => KeysFit(pty', ui') /\ LooksTell(stop'.at, SomeOfStop(pty'), frame'.of, ui')
    BY <1>4, <1>6
  <2> QED BY <2>1, <2>2 DEF KeysInv
<1>7. CASE /\ Len(pty') = Len(pty) + 1
           /\ \A i \in 1..Len(pty) : pty'[i] = pty[i]
           /\ pty'[Len(pty) + 1] = [by |-> "stop", key |-> key]
  <2>1. /\ SomeOfStop(pty')
        /\ \A i, j \in 1..Len(pty') : i < j /\ StopsKey(pty', i) /\ StopsKey(pty', j) =>
             pty'[j].key \in {"enter", "clear"}
        /\ \A i \in 1..Len(pty') : StopsKey(pty', i) =>
             pty'[i].key = key \/ (i \in 1..Len(pty) /\ StopsKey(pty, i) /\ pty'[i] = pty[i])
        /\ \A u : /\ KeysFit(pty, u) /\ (SomeOfStop(pty) \/ Fits(key, u))
                  /\ key = "enter" => \A i \in 1..Len(pty) : StopsKey(pty, i) => pty[i].key = "prompt"
                  => KeysFit(pty', u)
    BY <1>1, <1>2, <1>3, <1>7, StopsKeySent
  <2>2. (stop.at = "menu" => \A i \in 1..Len(pty) : StopsKey(pty, i) => pty[i].key = "exit")'
    BY <1>5, <2>1
  <2>3. (stop.at = "enter" => \A i \in 1..Len(pty) : StopsKey(pty, i) => pty[i].key = "prompt")'
    BY <1>5, <2>1
  <2>4. KeysInOrder'
    BY <2>1, <2>2, <2>3 DEF KeysInOrder
  <2>5. ~moved["stop"] => KeysFit(pty', ui)
    BY <1>4, <2>1
  <2>6. SomeOfStop(pty') = TRUE
    BY <2>1 DEF SomeOfStop
  <2>7. ~moved'["stop"] => KeysFit(pty', ui') /\ LooksTell(stop'.at, SomeOfStop(pty'), frame'.of, ui')
    BY <2>5, <2>6
  <2> QED BY <2>4, <2>7 DEF KeysInv
<1> QED BY <1>2, <1>6, <1>7

\* The frames a stop's look can get, and what each can say.
LEMMA StopLooks ==
  ASSUME KeysTypeOK, NEW rows \in Captures
  PROVE  /\ InputIsClear(agent, rows) = "yes" => Empty(frame.of)
         /\ agent = "claude" /\ OffersExit(rows) => frame.of.spot = "exit-menu" /\ frame.of.sel # "stay"
<1>1. frame.of \in Uis /\ frame.torn \in BOOLEAN /\ agent \in {"claude", "agy"}
  BY DEF KeysTypeOK
<1>2. CASE rows = Pane(frame)
  BY <1>1, <1>2, FrameReads
<1>3. CASE rows = <<>>
  BY <1>1, <1>3, NoPaneReads
<1> QED BY <1>2, <1>3 DEF Captures

\* So do the stop's own, to the point where the `/exit` is out.
LEMMA KeysUntilMenu ==
  ASSUME KeysTypeOK, KeysTypeOK', KeysInv,
         StopAsked \/ Unreachable \/ Settles \/ RequiresClear \/ LooksForMenu \/ Unanswered
  PROVE  KeysInv'
<1>0. pty \in Seq(Sent) /\ stop.at \in Ats
  BY DEF KeysTypeOK
<1>1. CASE StopAsked
  <2>1. UNCHANGED <<agent, ui, pty, frame, moved>> /\ stop'.at = "clear"
    BY <1>1 DEF StopAsked, OfStop, NotAsked
  <2>2. LooksTell("clear", SomeOfStop(pty), frame.of, ui)
    BY LooksNothing
  <2> QED BY <2>1, <2>2, AtOnly DEF NoKeysOut
<1>2. CASE Unreachable
  <2>1. UNCHANGED <<agent, ui, pty, frame, moved>>
    BY <1>2 DEF Unreachable, OfStop
  <2>2. stop'.at = "failed"
    BY <1>2, StopAtTypes DEF Unreachable, Ats
  <2>3. LooksTell("failed", SomeOfStop(pty), frame.of, ui)
    BY LooksNothing
  <2> QED BY <2>1, <2>2, <2>3, AtOnly DEF NoKeysOut
<1>3. CASE Settles
  <2>1. UNCHANGED <<agent, ui, pty, frame, moved>> /\ pty = <<>> /\ frame.of = ui
    BY <1>3 DEF Settles, OfStop, Drawn
  <2>2. stop'.at \in {"look", "look-again"}
    BY <1>3, StopAtTypes DEF Settles, Ats
  <2>3. LooksTell(stop'.at, SomeOfStop(pty), frame.of, ui)
    BY <2>1, <2>2 DEF LooksTell, Alike
  <2>4. Len(pty) = 0 /\ 1..0 = {}
    BY <2>1
  <2>5. ~SomeOfStop(pty)
    BY <2>4 DEF SomeOfStop
  <2> QED BY <2>1, <2>2, <2>3, <2>5, AtOnly
<1>4. CASE RequiresClear
  <2>1. UNCHANGED <<agent, ui, pty, frame>> /\ Reads("stop") /\ stop.at \in {"look", "look-again"}
    BY <1>4 DEF RequiresClear, OfStop
  <2>2. ~SomeOfStop(pty)
    BY <2>1 DEF KeysInv, KeysInOrder, NoKeysOut
  <2>3. ~moved'["stop"] => ~moved["stop"] \/ frame.of = ui
    BY <2>1, ReadsTypes DEF Callers
  <2>4. ~moved'["stop"] => Alike(frame.of, ui)
    BY <2>1, <2>3 DEF KeysInv, LooksTell, Alike
  <2>5. PICK rows \in Captures :
          stop' = [stop EXCEPT
            !.tries = @ + 1,
            !.at = IF InputIsClear(agent, rows) = "yes" THEN Cleared
                   ELSE IF stop.tries + 1 = SETTLE_TRIES THEN "refused"
                   ELSE IF @ = "look" THEN "settle" ELSE "settle-again"]
    BY <1>4 DEF RequiresClear
  <2>6. stop'.at = IF InputIsClear(agent, rows) = "yes" THEN Cleared
                   ELSE IF stop.tries + 1 = SETTLE_TRIES THEN "refused"
                   ELSE IF stop.at = "look" THEN "settle" ELSE "settle-again"
    BY <2>5 DEF KeysTypeOK
  <2>7. CASE InputIsClear(agent, rows) = "yes"
    <3>1. stop'.at \in {"exit", "escape", "queued"}
      BY <2>6, <2>7 DEF Cleared
    <3>2. Empty(frame.of)
      BY <2>7, StopLooks
    <3>3. ~moved'["stop"] => Empty(ui) /\ Alike(frame.of, ui) /\ frame.of.spot = "box"
      BY <2>4, <3>2 DEF Empty, Alike
    <3>4. ~moved'["stop"] => LooksTell(stop'.at, SomeOfStop(pty), frame.of, ui)
      BY <3>1, <3>3 DEF LooksTell
    <3> QED BY <2>1, <2>2, <3>1, <3>4, AtOnly
  <2>8. CASE InputIsClear(agent, rows) # "yes"
    <3>1. stop'.at \in {"refused", "settle", "settle-again"}
      BY <2>6, <2>8
    <3>2. LooksTell(stop'.at, SomeOfStop(pty), frame.of, ui)
      BY <3>1, LooksNothing
    <3> QED BY <2>1, <2>2, <3>1, <3>2, AtOnly
  <2> QED BY <2>7, <2>8
<1>5. CASE LooksForMenu
  <2>1. UNCHANGED <<agent, ui, pty, frame>> /\ Reads("stop") /\ stop.at = "menu" /\ agent = "claude"
    BY <1>5 DEF LooksForMenu, OfStop, KeysInv, KeysInOrder
  <2>2. ~moved'["stop"] => ~moved["stop"] \/ (frame.of = ui /\ ~SomeOfStop(pty))
    BY <1>0, <2>1, ReadsTypes, NoneOnTheirWay DEF Callers
  <2>3. ~moved'["stop"] => LooksTell("menu", SomeOfStop(pty), frame.of, ui)
    BY <2>1, <2>2 DEF KeysInv, LooksTell
  <2>4. PICK rows \in Captures :
          stop' = [stop EXCEPT
            !.tries = @ + 1,
            !.at = IF ~Readable(rows) THEN "asked"
                   ELSE IF OffersExit(rows) THEN "press"
                   ELSE IF stop.tries + 1 = MENU_TRIES THEN "asked" ELSE "menu"]
    BY <1>5 DEF LooksForMenu
  <2>5. stop'.at = IF ~Readable(rows) THEN "asked"
                   ELSE IF OffersExit(rows) THEN "press"
                   ELSE IF stop.tries + 1 = MENU_TRIES THEN "asked" ELSE "menu"
    BY <2>4 DEF KeysTypeOK
  <2>6. CASE stop'.at = "press"
    <3>1. frame.of.spot = "exit-menu" /\ frame.of.sel # "stay"
      BY <2>1, <2>5, <2>6, StopLooks
    <3>2. ~moved'["stop"] => LooksTell("press", SomeOfStop(pty), frame.of, ui)
      BY <2>3, <3>1 DEF LooksTell, Empty
    <3> QED BY <2>1, <2>2, <2>6, <3>2, AtOnly DEF NoKeysOut
  <2>7. CASE stop'.at = "menu"
    BY <2>1, <2>2, <2>3, <2>7, AtOnly DEF NoKeysOut
  <2>8. CASE stop'.at = "asked"
    <3>1. LooksTell("asked", SomeOfStop(pty), frame.of, ui)
      BY LooksNothing
    <3> QED BY <2>1, <2>2, <2>8, <3>1, AtOnly DEF NoKeysOut
  <2> QED BY <2>5, <2>6, <2>7, <2>8
<1>6. CASE Unanswered
  <2>1. UNCHANGED <<agent, ui, pty, frame, moved>>
    BY <1>6 DEF Unanswered, OfStop
  <2>2. stop'.at = "asked"
    BY <1>6, StopAtTypes DEF Unanswered, Ats
  <2>3. LooksTell("asked", SomeOfStop(pty), frame.of, ui)
    BY LooksNothing
  <2> QED BY <2>1, <2>2, <2>3, AtOnly DEF NoKeysOut
<1> QED BY <1>1, <1>2, <1>3, <1>4, <1>5, <1>6

\* And those after it, with the ones of a wrap up.
LEMMA KeysFromMenu ==
  ASSUME KeysTypeOK, KeysTypeOK', KeysInv,
         SendsClear \/ SendsEscape \/ SendsExit \/ Presses \/ LooksForQueued \/ SendsPrompt
         \/ SendsEnter \/ Captured \/ Observes
  PROVE  KeysInv'
<1>0. pty \in Seq(Sent) /\ stop.at \in Ats /\ ui \in Uis
  BY DEF KeysTypeOK
<1>1. CASE SendsClear
  <2>1. Sends("clear", <<"clear">>, "settle") /\ "clear" \in StopKeys /\ "settle" \in Ats
    BY <1>1 DEF SendsClear, StopKeys, Ats
  <2>2. /\ Types("stop", <<"clear">>) /\ stop'.at = "settle"
        /\ UNCHANGED <<agent, ui, frame, moved>>
    BY <2>1, SendsTypes
  <2>3. Fits("clear", ui) /\ \A some : LooksTell("settle", some, frame.of, ui)
    BY LooksNothing DEF Fits
  <2> QED BY <2>1, <2>2, <2>3, StopSends DEF NoKeysOut
<1>2. CASE SendsEscape
  <2>1. Sends("escape", <<"escape">>, "settle-again") /\ "escape" \in StopKeys /\ "settle-again" \in Ats
    BY <1>2 DEF SendsEscape, StopKeys, Ats
  <2>2. /\ Types("stop", <<"escape">>) /\ stop'.at = "settle-again" /\ stop.at = "escape"
        /\ UNCHANGED <<agent, ui, frame, moved>>
    BY <2>1, SendsTypes
  <2>3. ~SomeOfStop(pty)
    BY <2>2 DEF KeysInv, KeysInOrder, NoKeysOut
  <2>4. Fits("escape", ui) /\ \A some : LooksTell("settle-again", some, frame.of, ui)
    BY LooksNothing DEF Fits
  <2> QED BY <2>1, <2>2, <2>3, <2>4, StopSends DEF NoKeysOut
<1>3. CASE SendsExit
  <2>1. PICK next : next = IF agent = "claude" THEN "menu" ELSE "asked"
    OBVIOUS
  <2>2. Sends("exit", <<"exit">>, next) /\ "exit" \in StopKeys /\ next \in Ats
    BY <1>3, <2>1 DEF SendsExit, StopKeys, Ats
  <2>3. /\ Types("stop", <<"exit">>) /\ stop'.at = next /\ stop.at = "exit"
        /\ UNCHANGED <<agent, ui, frame, moved>>
    BY <2>2, SendsTypes
  <2>4. ~SomeOfStop(pty)
    BY <2>3 DEF KeysInv, KeysInOrder, NoKeysOut
  <2>5. ~moved["stop"] => Empty(ui) /\ frame.of.spot = "box"
    BY <2>3 DEF KeysInv, LooksTell
  <2>6. ~moved["stop"] => Fits("exit", ui) /\ \A some : LooksTell(next, some, frame.of, ui)
    BY <2>1, <2>5 DEF Fits, LooksTell
  <2> QED BY <2>1, <2>2, <2>3, <2>4, <2>6, StopSends DEF NoKeysOut
<1>4. CASE Presses
  <2>1. Sends("press", <<"enter">>, "asked") /\ "enter" \in StopKeys /\ "asked" \in Ats
    BY <1>4 DEF Presses, StopKeys, Ats
  <2>2. /\ Types("stop", <<"enter">>) /\ stop'.at = "asked" /\ stop.at = "press"
        /\ UNCHANGED <<agent, ui, frame, moved>>
    BY <2>1, SendsTypes
  <2>3. ~moved["stop"] => ~SomeOfStop(pty) /\ ui.spot = "exit-menu" /\ ui.sel # "stay"
    BY <2>2 DEF KeysInv, LooksTell
  <2>4. ~moved["stop"] => Fits("enter", ui)
    BY <2>3 DEF Fits, EnterFits
  <2>5. \A some : LooksTell("asked", some, frame.of, ui)
    BY LooksNothing
  <2>6. ~moved["stop"] => \A i \in 1..Len(pty) : ~StopsKey(pty, i)
    BY <2>3, NoneIsOrdered
  <2> QED BY <2>1, <2>2, <2>4, <2>5, <2>6, StopSends DEF NoKeysOut
<1>5. CASE LooksForQueued
  <2>1. UNCHANGED <<agent, ui, pty, frame, moved>> /\ stop.at = "queued"
    BY <1>5 DEF LooksForQueued, OfStop
  <2>2. ~SomeOfStop(pty)
    BY <2>1 DEF KeysInv, KeysInOrder, NoKeysOut
  <2>3. ~moved["stop"] => Empty(ui) /\ Alike(frame.of, ui)
    BY <2>1 DEF KeysInv, LooksTell
  <2>4. PICK rows \in IF QueuedLookMisses THEN Captures ELSE {Pane([frame EXCEPT !.torn = FALSE])} :
          StopAt(IF QueuedMessage(agent, rows) THEN "refused" ELSE "prompt")
    BY <1>5 DEF LooksForQueued
  <2>5. stop'.at = IF QueuedMessage(agent, rows) THEN "refused" ELSE "prompt"
    BY <2>4, StopAtTypes DEF Ats
  <2>6. CASE stop'.at = "refused"
    <3>1. LooksTell("refused", SomeOfStop(pty), frame.of, ui)
      BY LooksNothing
    <3> QED BY <2>1, <2>2, <2>6, <3>1, AtOnly DEF NoKeysOut
  <2>7. CASE stop'.at = "prompt"
    <3>1. ~moved["stop"] => Unqueued(ui)
      <4>1. CASE QueuedLookMisses
        BY <4>1 DEF Unqueued
      <4>2. CASE ~QueuedLookMisses
        <5>1. PICK whole : whole = [frame EXCEPT !.torn = FALSE]
          OBVIOUS
        <5>2. whole.of = frame.of /\ whole.of \in Uis /\ whole.torn = FALSE
          BY <5>1 DEF KeysTypeOK
        <5>3. rows = Pane(whole) /\ ~QueuedMessage(agent, rows)
          BY <2>4, <2>5, <2>7, <4>2, <5>1
        <5>4. agent \in {"claude", "agy"}
          BY DEF KeysTypeOK
        <5>5. Empty(frame.of) => ~Waits(frame.of)
          BY <5>2, <5>3, <5>4, FrameReads
        <5> QED BY <2>3, <5>5 DEF Empty, Alike, Unqueued
      <4> QED BY <4>1, <4>2
    <3>2. ~moved["stop"] => LooksTell("prompt", SomeOfStop(pty), frame.of, ui)
      BY <2>3, <3>1 DEF LooksTell
    <3> QED BY <2>1, <2>2, <2>7, <3>2, AtOnly DEF NoKeysOut
  <2> QED BY <2>5, <2>6, <2>7
<1>6. CASE SendsPrompt
  <2>1. Sends("prompt", <<"prompt">>, "enter") /\ "prompt" \in StopKeys /\ "enter" \in Ats
    BY <1>6 DEF SendsPrompt, StopKeys, Ats
  <2>2. /\ Types("stop", <<"prompt">>) /\ stop'.at = "enter" /\ stop.at = "prompt"
        /\ UNCHANGED <<agent, ui, frame, moved>>
    BY <2>1, SendsTypes
  <2>3. ~SomeOfStop(pty)
    BY <2>2 DEF KeysInv, KeysInOrder, NoKeysOut
  <2>4. ~moved["stop"] => Empty(ui) /\ Unqueued(ui)
    BY <2>2 DEF KeysInv, LooksTell
  <2>5. ~moved["stop"] => Fits("prompt", ui) /\ LooksTell("enter", TRUE, frame.of, ui) /\ ui.spot # "gone"
    BY <2>4 DEF Fits, LooksTell, Empty
  <2> QED BY <2>1, <2>2, <2>3, <2>5, StopSends DEF NoKeysOut
<1>7. CASE SendsEnter
  <2>1. Types("stop", <<"enter">>) /\ stop.at = "enter" /\ "enter" \in StopKeys
    BY <1>7 DEF SendsEnter, StopKeys
  <2>2. UNCHANGED <<agent, ui, frame, moved>>
    BY <1>7 DEF SendsEnter, OfStop
  <2>3. stop'.at = "watching"
    BY <1>7, StopAtTypes DEF SendsEnter, Ats
  <2>4. \A i \in 1..Len(pty) : StopsKey(pty, i) => pty[i].key = "prompt"
    BY <2>1 DEF KeysInv, KeysInOrder
  <2>5. ~moved["stop"] => SomeOfStop(pty) \/ Fits("enter", ui)
    BY <2>1 DEF KeysInv, LooksTell, Fits, EnterFits
  <2>6. \A some : LooksTell("watching", some, frame.of, ui)
    BY LooksNothing
  <2> QED BY <2>1, <2>2, <2>3, <2>4, <2>5, <2>6, StopSends DEF NoKeysOut
<1>8. CASE Captured
  <2>1. UNCHANGED <<agent, ui, pty, frame, moved, stop>> /\ stop.at = "watching"
    BY <1>8 DEF Captured, OfStop
  <2>2. LooksTell("watching", SomeOfStop(pty), frame.of, ui)
    BY LooksNothing
  <2> QED BY <2>1, <2>2, AtOnly DEF NoKeysOut
<1>9. CASE Observes
  <2>1. UNCHANGED <<agent, ui, pty, frame, moved>> /\ stop.at = "watching"
    BY <1>9 DEF Observes, OfStop
  <2>2. stop'.at \in {"watching", "clear"}
    BY <1>9, <2>1 DEF Observes, KeysTypeOK
  <2>3. LooksTell(stop'.at, SomeOfStop(pty), frame.of, ui)
    BY <2>2, LooksNothing
  <2> QED BY <2>1, <2>2, <2>3, AtOnly DEF NoKeysOut
<1> QED BY <1>1, <1>2, <1>3, <1>4, <1>5, <1>6, <1>7, <1>8, <1>9

\* And the answers, time and idleness.
LEMMA KeysRest ==
  ASSUME KeysTypeOK, KeysTypeOK', KeysInv, AnswerStep \/ Tick \/ UNCHANGED keysVars
  PROVE  KeysInv'
<1>0. pty \in Seq(Sent) /\ (stop.at \in NoKeysOut => ~SomeOfStop(pty))
  BY DEF KeysTypeOK, KeysInv, KeysInOrder
<1>1. CASE AnswerLooks
  <2>1. UNCHANGED <<agent, ui, pty, frame, stop>> /\ moved'["stop"] = moved["stop"]
    BY <1>1, ReadsTypes DEF AnswerLooks, OfAnswer, Callers
  <2>2. ~moved["stop"] => LooksTell(stop.at, SomeOfStop(pty), frame.of, ui)
    BY DEF KeysInv
  <2> QED BY <1>0, <2>1, <2>2, AtOnly
<1>2. CASE AnswerSends
  <2>1. UNCHANGED <<agent, ui, frame, stop, moved>> /\ Types("answer", <<"answer">>)
    BY <1>2 DEF AnswerSends, OfAnswer
  <2>2. [by |-> "answer", key |-> "answer"] \in Sent
    BY DEF Sent
  <2>3. /\ pty' \in Seq(Sent)
        /\ \/ pty' = pty
           \/ /\ Len(pty') = Len(pty) + 1
              /\ \A i \in 1..Len(pty) : pty'[i] = pty[i]
              /\ pty'[Len(pty) + 1] = [by |-> "answer", key |-> "answer"]
    BY <1>0, <2>1, <2>2, TypesKey
  <2>4. CASE pty' = pty
    <3>1. ~moved["stop"] => LooksTell(stop.at, SomeOfStop(pty), frame.of, ui)
      BY DEF KeysInv
    <3> QED BY <1>0, <2>1, <2>4, <3>1, AtOnly
  <2>5. CASE /\ Len(pty') = Len(pty) + 1
             /\ \A i \in 1..Len(pty) : pty'[i] = pty[i]
             /\ pty'[Len(pty) + 1] = [by |-> "answer", key |-> "answer"]
    <3>1. /\ SomeOfStop(pty') <=> SomeOfStop(pty)
          /\ \A u : KeysFit(pty, u) => KeysFit(pty', u)
          /\ \A i \in 1..Len(pty') : StopsKey(pty', i) => i \in 1..Len(pty) /\ pty'[i] = pty[i]
      BY <1>0, <2>3, <2>5, OthersKeySent
    <3>2. \A i \in 1..Len(pty') : StopsKey(pty', i) => StopsKey(pty, i)
      BY <3>1 DEF StopsKey
    <3>3. (\A i, j \in 1..Len(pty) : i < j /\ StopsKey(pty, i) /\ StopsKey(pty, j) =>
            pty[j].key \in {"enter", "clear"})'
      BY <3>1, <3>2 DEF KeysInv, KeysInOrder
    <3>4. (stop.at = "menu" => \A i \in 1..Len(pty) : StopsKey(pty, i) => pty[i].key = "exit")'
      BY <2>1, <3>1, <3>2 DEF KeysInv, KeysInOrder
    <3>5. (stop.at = "enter" => \A i \in 1..Len(pty) : StopsKey(pty, i) => pty[i].key = "prompt")'
      BY <2>1, <3>1, <3>2 DEF KeysInv, KeysInOrder
    <3>6. KeysInOrder'
      BY <2>1, <3>1, <3>3, <3>4, <3>5 DEF KeysInv, KeysInOrder
    <3>7. SomeOfStop(pty') = SomeOfStop(pty)
      BY <3>1 DEF SomeOfStop
    <3>8. ~moved'["stop"] => KeysFit(pty', ui') /\ LooksTell(stop'.at, SomeOfStop(pty'), frame'.of, ui')
      BY <2>1, <3>1, <3>7 DEF KeysInv
    <3> QED BY <3>6, <3>8 DEF KeysInv
  <2> QED BY <2>3, <2>4, <2>5
<1>3. CASE Tick \/ UNCHANGED keysVars
  <2>1. UNCHANGED <<agent, ui, pty, frame, stop, moved>>
    BY <1>3 DEF Tick, keysVars, agentVars, callerVars, historyVars
  <2>2. ~moved["stop"] => LooksTell(stop.at, SomeOfStop(pty), frame.of, ui)
    BY DEF KeysInv
  <2> QED BY <1>0, <2>1, <2>2, AtOnly
<1> QED BY <1>1, <1>2, <1>3 DEF AnswerStep

\* At the start nothing is on its way and nothing was looked at.
LEMMA KeysInitInv == KeysInit => KeysInv
<1> SUFFICES ASSUME KeysInit PROVE KeysInv
  OBVIOUS
<1>1. pty = <<>> /\ stop.at = "idle"
  BY DEF KeysInit, NotAsked
<1>2. Len(pty) = 0 /\ 1..0 = {}
  BY <1>1
<1>3. ~SomeOfStop(pty)
  BY <1>2 DEF SomeOfStop
<1>4. KeysFit(pty, ui)
  BY <1>3, NoneIsOrdered
<1>5. LooksTell(stop.at, SomeOfStop(pty), frame.of, ui)
  BY <1>1, LooksNothing
<1>6. KeysInOrder
  BY <1>1, <1>2, <1>3 DEF KeysInOrder
<1> QED BY <1>4, <1>5, <1>6 DEF KeysInv

\* Every step keeps what the keys and the looks tell.
LEMMA KeysStepInv ==
  ASSUME KeysTypeOK, KeysTypeOK', KeysInv, [KeysNext]_keysVars
  PROVE  KeysInv'
<1>1. CASE AgentStep
  BY <1>1, AgentKeys
<1>2. CASE StopStep
  BY <1>2, KeysUntilMenu, KeysFromMenu DEF StopStep
<1>3. CASE AnswerStep \/ Tick \/ UNCHANGED keysVars
  BY <1>3, KeysRest
<1> QED BY <1>1, <1>2, <1>3 DEF KeysNext

-----------------------------------------------------------------------------
(* What a key does where it lands.                                         *)

\* Nothing but a key that lands does harm.
LEMMA HarmOnlyLands ==
  ASSUME [KeysNext]_keysVars, ~TakesKey
  PROVE  harm' = harm
<1>1. CASE AgentStep
  BY <1>1 DEF AgentStep, Draws, TurnEnds, StartsNext, SomethingMoves, KeyIsLost, historyVars
<1>2. CASE StopStep
  BY <1>2 DEF StopStep, StopAsked, Unreachable, SendsClear, Settles, RequiresClear, SendsEscape,
              SendsExit, LooksForMenu, Presses, Unanswered, LooksForQueued, SendsPrompt, SendsEnter,
              Captured, Observes, Sends, OfStop
<1>3. CASE AnswerStep \/ Tick \/ UNCHANGED keysVars
  BY <1>3 DEF AnswerStep, AnswerLooks, AnswerSends, OfAnswer, Tick, keysVars, historyVars
<1> QED BY <1>1, <1>2, <1>3 DEF KeysNext

\* A stop's does none where its look still holds.
LEMMA StopsHarm ==
  ASSUME KeysTypeOK, KeysInv, [KeysNext]_keysVars
  PROVE  /\ {"exit", "prompt", "enter"} \cap harm = {} => {"exit", "prompt", "enter"} \cap harm' = {}
         /\ ~QueuedLookMisses /\ "queue" \notin harm => "queue" \notin harm'
<1>1. CASE TakesKey
  <2>1. PICK sent \in Sent : \E to \in Takes(sent.key, ui) :
           /\ sent = pty[1] /\ sent.by \in Callers /\ sent.key \in StopKeys \cup {"answer"}
           /\ Len(pty) > 0 /\ Len(pty) \in Nat
           /\ harm' = harm \cup (IF moved[sent.by] THEN {} ELSE to.bad)
    BY <1>1, TakenKey
  <2>2. PICK to \in Takes(sent.key, ui) : harm' = harm \cup (IF moved[sent.by] THEN {} ELSE to.bad)
    BY <2>1
  <2>3. CASE sent.by = "answer"
    <3>1. sent.key = "answer"
      BY <2>3 DEF Sent
    <3>2. to.bad \subseteq {"answer"}
      BY <2>2, <3>1, TakesTypes DEF KeysTypeOK
    <3> QED BY <2>2, <3>2
  <2>4. CASE sent.by = "stop" /\ ~moved["stop"]
    <3>1. FirstOfStop(pty, 1) /\ 1 \in 1..Len(pty)
      BY <2>1, <2>4 DEF FirstOfStop, StopsKey
    <3>2. Fits(sent.key, ui)
      BY <2>1, <2>4, <3>1 DEF KeysInv, KeysFit
    <3>3. /\ {"exit", "prompt", "enter"} \cap to.bad = {}
          /\ ~QueuedLookMisses => "queue" \notin to.bad
      BY <2>1, <2>2, <3>2, TakesTypes DEF KeysTypeOK
    <3> QED BY <2>2, <3>3
  <2>5. CASE sent.by = "stop" /\ moved["stop"]
    BY <2>2, <2>5
  <2> QED BY <2>1, <2>3, <2>4, <2>5 DEF Callers
<1>2. CASE ~TakesKey
  BY <1>2, HarmOnlyLands
<1> QED BY <1>1, <1>2

\* Every variable has its type, at every number of looks and of ticks.
THEOREM KeysTypes == KeysSpec => []KeysTypeOK
BY KeysInitTypes, KeysStepTypes, PTL DEF KeysSpec

\* What the looks of a stop tell, and in what order its keys are on their way.
LEMMA KeysAlways == KeysSpec => [](KeysTypeOK /\ KeysInv)
<1>1. KeysInit => KeysTypeOK /\ KeysInv
  BY KeysInitTypes, KeysInitInv
<1>2. KeysTypeOK /\ KeysInv /\ [KeysNext]_keysVars => (KeysTypeOK /\ KeysInv)'
  BY KeysStepTypes, KeysStepInv
<1> QED BY <1>1, <1>2, PTL DEF KeysSpec

\* `/exit` and the wrap up's text are typed into an empty box, whatever the
\* agent and a person do between the Escape, the look and the key: what
\* `_require_clear` read still holds unless another hand changed it (#88, #89).
THEOREM ExitIntoAnEmptyBox == KeysSpec => []TypesOnlyIntoAnEmptyBox
<1> DEFINE Harmless == {"exit", "prompt", "enter"} \cap harm = {}
<1>1. KeysInit => Harmless
  BY DEF KeysInit
<1>2. KeysTypeOK /\ KeysInv /\ Harmless /\ [KeysNext]_keysVars => Harmless'
  BY StopsHarm
<1>3. Harmless => TypesOnlyIntoAnEmptyBox
  BY DEF TypesOnlyIntoAnEmptyBox
<1> QED BY <1>1, <1>2, <1>3, KeysAlways, PTL DEF KeysSpec

\* The Enter after `/exit` answers the exit menu at its first entry, or nothing:
\* `exit_menu_appeared` presses only where it saw that entry selected (#453).
THEOREM EnterOnlyAtTheMenu == KeysSpec => []EnterAnswersOnlyTheExitMenu
<1> DEFINE Harmless == {"exit", "prompt", "enter"} \cap harm = {}
<1>1. KeysInit => Harmless
  BY DEF KeysInit
<1>2. KeysTypeOK /\ KeysInv /\ Harmless /\ [KeysNext]_keysVars => Harmless'
  BY StopsHarm
<1>3. Harmless => EnterAnswersOnlyTheExitMenu
  BY DEF EnterAnswersOnlyTheExitMenu
<1> QED BY <1>1, <1>2, <1>3, KeysAlways, PTL DEF KeysSpec

\* `request_wrap_up` never puts its text behind a message that waits, in either
\* layout, where the look for a queued message is of a frame with a box (#242, #475).
THEOREM WrapUpInLine ==
  ASSUME QueuedLookMisses = FALSE
  PROVE  KeysSpec => []WrapUpJumpsNoQueue
<1>1. KeysInit => WrapUpJumpsNoQueue
  BY DEF KeysInit, WrapUpJumpsNoQueue
<1>2. KeysTypeOK /\ KeysInv /\ WrapUpJumpsNoQueue /\ [KeysNext]_keysVars => WrapUpJumpsNoQueue'
  BY StopsHarm DEF WrapUpJumpsNoQueue
<1> QED BY <1>1, <1>2, KeysAlways, PTL DEF KeysSpec

\* The readings of both adapters take an agent at rest for idle, and nothing
\* else, for every box, panel and layout they draw (#475).
THEOREM RestIsIdle == KeysSpec => []RestIsReadAsIdle
<1>1. KeysTypeOK => RestIsReadAsIdle
  <2> SUFFICES ASSUME KeysTypeOK, ~frame.torn
               PROVE  WrapUpReading(agent, Pane(frame)) = "yes" <=>
                        /\ frame.of.spot = "box" /\ frame.of.hold = "nothing"
                        /\ ~Busy(frame.of) /\ Waiting(frame.of) = <<>>
    BY DEF RestIsReadAsIdle
  <2>1. frame.of \in Uis /\ frame.torn \in BOOLEAN /\ agent \in {"claude", "agy"}
    BY DEF KeysTypeOK
  <2>2. WrapUpReading(agent, Pane(frame)) = "yes" <=> Rests(frame.of)
    BY <2>1, FrameReads
  <2> QED BY <2>2 DEF Rests, Empty, Waits
<1> QED BY <1>1, KeysTypes, PTL

-----------------------------------------------------------------------------
(* The answers.                                                            *)

SomeAnswer(s) == \E i \in 1..Len(s) : s[i].by = "answer"
OneAnswer(s) == \A i, j \in 1..Len(s) : s[i].by = "answer" /\ s[j].by = "answer" => i = j

\* One answer at a time is under way, to the dialog its look read.
AnswerInv ==
  /\ answerer = "send" => ~SomeAnswer(pty)
  /\ OneAnswer(pty)
  /\ ~moved["answer"] /\ (answerer = "send" \/ SomeAnswer(pty)) => ui.spot \in {"question", "exit-menu"}

\* A key of the stop's that comes or goes leaves the answers as they were.
LEMMA StopsLeaveAnswers ==
  ASSUME NEW s \in Seq(Sent), NEW t \in Seq(Sent),
         \/ t = s
         \/ Len(t) = Len(s) + 1 /\ (\A i \in 1..Len(s) : t[i] = s[i]) /\ t[Len(s) + 1].by # "answer"
         \/ Len(s) > 0 /\ Len(t) = Len(s) - 1 /\ \A i \in 1..(Len(s) - 1) : t[i] = s[i + 1]
  PROVE  (SomeAnswer(t) => SomeAnswer(s)) /\ (OneAnswer(s) => OneAnswer(t))
<1>1. Len(s) \in Nat /\ Len(t) \in Nat
  OBVIOUS
<1>2. CASE t = s
  BY <1>2
<1>3. CASE Len(t) = Len(s) + 1 /\ (\A i \in 1..Len(s) : t[i] = s[i]) /\ t[Len(s) + 1].by # "answer"
  <2>1. \A i \in 1..Len(t) : t[i].by = "answer" => i \in 1..Len(s) /\ s[i].by = "answer"
    BY <1>1, <1>3
  <2> QED BY <2>1 DEF SomeAnswer, OneAnswer
<1>4. CASE Len(s) > 0 /\ Len(t) = Len(s) - 1 /\ \A i \in 1..(Len(s) - 1) : t[i] = s[i + 1]
  <2>1. \A i \in 1..Len(t) : i + 1 \in 1..Len(s) /\ t[i] = s[i + 1]
    BY <1>1, <1>4
  <2>2. \A i, j \in 1..Len(t) : i + 1 = j + 1 => i = j
    OBVIOUS
  <2> QED BY <2>1, <2>2 DEF SomeAnswer, OneAnswer
<1> QED BY <1>2, <1>3, <1>4

\* What a stop's step may do to the keys.
LEMMA StopSentKeys ==
  ASSUME KeysTypeOK, StopStep
  PROVE  /\ UNCHANGED <<agent, ui, frame, answerer, harm, wrapped, due, moves, answers>>
         /\ moved'["answer"] = moved["answer"]
         /\ \/ pty' = pty
            \/ \E key \in StopKeys : Types("stop", <<key>>)
<1>1. UNCHANGED <<agent, ui, frame, answerer, harm, wrapped, due, moves, answers>>
  BY DEF StopStep, StopAsked, Unreachable, SendsClear, Settles, RequiresClear, SendsEscape,
         SendsExit, LooksForMenu, Presses, Unanswered, LooksForQueued, SendsPrompt, SendsEnter,
         Captured, Observes, Sends, OfStop
<1>2. moved'["answer"] = moved["answer"]
  <2>1. CASE RequiresClear \/ LooksForMenu
    BY <2>1, ReadsTypes DEF RequiresClear, LooksForMenu, Callers
  <2>2. CASE ~(RequiresClear \/ LooksForMenu)
    BY <2>2 DEF StopStep, StopAsked, Unreachable, SendsClear, Settles, SendsEscape,
         SendsExit, Presses, Unanswered, LooksForQueued, SendsPrompt, SendsEnter,
         Captured, Observes, Sends
  <2> QED BY <2>1, <2>2
<1>3. pty' = pty \/ \E key \in StopKeys : Types("stop", <<key>>)
  <2>1. CASE SendsClear
    BY <2>1 DEF SendsClear, Sends, StopKeys
  <2>2. CASE SendsEscape
    BY <2>2 DEF SendsEscape, Sends, StopKeys
  <2>3. CASE SendsExit
    BY <2>3 DEF SendsExit, Sends, StopKeys
  <2>4. CASE Presses
    BY <2>4 DEF Presses, Sends, StopKeys
  <2>5. CASE SendsPrompt
    BY <2>5 DEF SendsPrompt, Sends, StopKeys
  <2>6. CASE SendsEnter
    BY <2>6 DEF SendsEnter, StopKeys
  <2>7. CASE StopAsked \/ Unreachable \/ Settles \/ RequiresClear \/ LooksForMenu \/ Unanswered
             \/ LooksForQueued \/ Captured \/ Observes
    BY <2>7 DEF StopAsked, Unreachable, Settles, RequiresClear, LooksForMenu, Unanswered,
                LooksForQueued, Captured, Observes
  <2> QED BY <2>1, <2>2, <2>3, <2>4, <2>5, <2>6, <2>7 DEF StopStep
<1> QED BY <1>1, <1>2, <1>3

\* What the agent and a person at it do to the ui, by whose hand.
LEMMA AgentMoves ==
  ASSUME KeysTypeOK, TurnEnds \/ StartsNext \/ SomethingMoves
  PROVE  /\ ui' \in Uis /\ Becomes(ui', "nobody")
         /\ UNCHANGED <<agent, pty, frame, stop, watch, answerer, harm>>
<1>1. ui \in Uis
  BY DEF KeysTypeOK
<1>2. CASE TurnEnds
  <2>1. ui' = [ui EXCEPT !.turn = "idle"] /\ Becomes(ui', "nobody")
    BY <1>2 DEF TurnEnds, Becomes
  <2>2. ui' \in Uis
    BY <1>1, <2>1, UiEdits DEF Turns
  <2> QED BY <1>2, <2>1, <2>2 DEF TurnEnds, callerVars
<1>3. CASE StartsNext
  BY <1>1, <1>3, StartedUi DEF StartsNext, callerVars
<1>4. CASE SomethingMoves
  BY <1>1, <1>4, MovedUi DEF SomethingMoves, callerVars
<1> QED BY <1>2, <1>3, <1>4

\* Every step keeps one answer on its way at most, to what was seen to ask.
LEMMA AnswerStepInv ==
  ASSUME AnswersOvertake = FALSE, KeysTypeOK, KeysTypeOK', AnswerInv, [KeysNext]_keysVars
  PROVE  AnswerInv'
<1>0. pty \in Seq(Sent) /\ pty' \in Seq(Sent) /\ Len(pty) \in Nat
  BY DEF KeysTypeOK
<1>1. CASE Draws \/ Tick \/ UNCHANGED keysVars
  <2>1. UNCHANGED <<ui, pty, answerer, moved>>
    BY <1>1 DEF Draws, Tick, keysVars, agentVars, callerVars, historyVars
  <2> QED BY <2>1 DEF AnswerInv
<1>2. CASE TurnEnds \/ StartsNext \/ SomethingMoves
  <2>1. ui' \in Uis /\ Becomes(ui', "nobody") /\ UNCHANGED <<pty, answerer>>
    BY <1>2, AgentMoves
  <2>2. ~moved'["answer"] => ~moved["answer"] /\ ui'.spot = ui.spot
    BY <2>1, OthersAreCalm DEF Callers
  <2> QED BY <2>1, <2>2 DEF AnswerInv
<1>3. CASE TakesKey
  <2>1. UNCHANGED answerer
    BY <1>3 DEF TakesKey, callerVars
  <2>2. PICK sent \in Sent : \E to \in Takes(sent.key, ui) :
           /\ sent = pty[1] /\ sent.by \in Callers /\ Len(pty) > 0
           /\ Len(pty') = Len(pty) - 1
           /\ \A i \in 1..(Len(pty) - 1) : pty'[i] = pty[i + 1]
           /\ ui' = to.u /\ Becomes(to.u, sent.by) /\ to.u \in Uis
    BY <1>3, TakenKey
  <2>3. ui' \in Uis /\ Becomes(ui', sent.by)
    BY <2>2
  <2>4. (SomeAnswer(pty') => SomeAnswer(pty)) /\ (OneAnswer(pty) => OneAnswer(pty'))
    BY <1>0, <2>2, StopsLeaveAnswers
  <2>5. CASE sent.by = "stop"
    <3>1. ~moved'["answer"] => ~moved["answer"] /\ ui'.spot = ui.spot
      BY <2>3, <2>5, OthersAreCalm DEF Callers
    <3> QED BY <2>1, <2>4, <3>1 DEF AnswerInv
  <2>6. CASE sent.by = "answer"
    <3>1. SomeAnswer(pty)
      BY <2>2, <2>6 DEF SomeAnswer
    <3>2. answerer # "send"
      BY <3>1 DEF AnswerInv
    <3>3. ~SomeAnswer(pty')
      <4> SUFFICES ASSUME NEW i \in 1..Len(pty'), pty'[i].by = "answer" PROVE FALSE
        BY DEF SomeAnswer
      <4>1. i + 1 \in 1..Len(pty) /\ 1 \in 1..Len(pty) /\ i + 1 # 1 /\ pty[i + 1].by = "answer"
        BY <1>0, <2>2
      <4> QED BY <2>2, <2>6, <4>1 DEF AnswerInv, OneAnswer
    <3> QED BY <2>1, <2>4, <3>2, <3>3 DEF AnswerInv
  <2> QED BY <2>2, <2>5, <2>6 DEF Callers
<1>4. CASE KeyIsLost
  <2>1. UNCHANGED <<ui, answerer, moved>> /\ pty' = <<>>
    BY <1>4 DEF KeyIsLost, callerVars, historyVars
  <2>2. Len(pty') = 0 /\ 1..0 = {}
    BY <2>1
  <2>3. ~SomeAnswer(pty') /\ OneAnswer(pty')
    BY <2>2 DEF SomeAnswer, OneAnswer
  <2> QED BY <2>1, <2>3 DEF AnswerInv
<1>5. CASE StopStep
  <2>1. /\ UNCHANGED <<ui, answerer>> /\ moved'["answer"] = moved["answer"]
        /\ pty' = pty \/ \E key \in StopKeys : Types("stop", <<key>>)
    BY <1>5, StopSentKeys
  <2>2. ASSUME NEW key \in StopKeys, Types("stop", <<key>>)
        PROVE  \/ pty' = pty
               \/ /\ Len(pty') = Len(pty) + 1
                  /\ \A i \in 1..Len(pty) : pty'[i] = pty[i]
                  /\ pty'[Len(pty) + 1].by # "answer"
    <3>1. [by |-> "stop", key |-> key] \in Sent
      BY DEF Sent
    <3> QED BY <1>0, <2>2, <3>1, TypesKey
  <2>3. (SomeAnswer(pty') => SomeAnswer(pty)) /\ (OneAnswer(pty) => OneAnswer(pty'))
    BY <1>0, <2>1, <2>2, StopsLeaveAnswers
  <2> QED BY <2>1, <2>3 DEF AnswerInv
<1>6. CASE AnswerLooks
  <2>1. UNCHANGED <<ui, pty>> /\ Reads("answer") /\ answerer = "idle" /\ agent = "claude"
    BY <1>6 DEF AnswerLooks, OfAnswer
  <2>2. ~OnTheirWay("answer") /\ (frame.of = ui \/ moved["answer"])
    BY <1>6 DEF AnswerLooks
  <2>3. DOMAIN pty = 1..Len(pty)
    BY <1>0
  <2>4. ~SomeAnswer(pty)
    BY <2>2, <2>3 DEF SomeAnswer, OnTheirWay
  <2>5. ~moved'["answer"] => frame.of = ui
    BY <2>1, <2>2, ReadsTypes DEF Callers
  <2>6. answerer' = "send" => frame.of.spot \in {"question", "exit-menu"}
    <3>1. PICK rows \in Captures : answerer' = IF AwaitsAnswer(rows) = "yes" THEN "send" ELSE "idle"
      BY <1>6 DEF AnswerLooks
    <3>2. frame.of \in Uis /\ frame.torn \in BOOLEAN /\ agent \in {"claude", "agy"}
      BY DEF KeysTypeOK
    <3>3. CASE rows = Pane(frame)
      BY <2>1, <3>1, <3>2, <3>3, FrameReads
    <3>4. CASE rows = <<>>
      BY <3>1, <3>4, NoPaneReads
    <3> QED BY <3>3, <3>4 DEF Captures
  <2> QED BY <2>1, <2>4, <2>5, <2>6 DEF AnswerInv
<1>7. CASE AnswerSends
  <2>1. UNCHANGED <<ui, moved>> /\ answerer = "send" /\ answerer' = "idle" /\ Types("answer", <<"answer">>)
    BY <1>7 DEF AnswerSends, OfAnswer
  <2>2. ~SomeAnswer(pty)
    BY <2>1 DEF AnswerInv
  <2>3. [by |-> "answer", key |-> "answer"] \in Sent
    BY DEF Sent
  <2>4. \/ pty' = pty
        \/ /\ Len(pty') = Len(pty) + 1
           /\ \A i \in 1..Len(pty) : pty'[i] = pty[i]
    BY <1>0, <2>1, <2>3, TypesKey
  <2>5. \A i \in 1..Len(pty') : pty'[i].by = "answer" => i = Len(pty) + 1
    <3>1. \A i \in 1..Len(pty) : pty[i].by # "answer"
      BY <2>2 DEF SomeAnswer
    <3> QED BY <1>0, <2>4, <3>1
  <2>6. OneAnswer(pty')
    BY <2>5 DEF OneAnswer
  <2> QED BY <2>1, <2>6 DEF AnswerInv
<1> QED BY <1>1, <1>2, <1>3, <1>4, <1>5, <1>6, <1>7 DEF KeysNext, AgentStep, AnswerStep

\* An answer does no harm where its look still holds.
LEMMA AnswersHarm ==
  ASSUME KeysTypeOK, AnswerInv, AnswerOnlyToAQuestion, [KeysNext]_keysVars
  PROVE  AnswerOnlyToAQuestion'
<1>1. CASE TakesKey
  <2>1. PICK sent \in Sent : \E to \in Takes(sent.key, ui) :
           /\ sent = pty[1] /\ sent.by \in Callers /\ sent.key \in StopKeys \cup {"answer"}
           /\ Len(pty) > 0 /\ Len(pty) \in Nat
           /\ harm' = harm \cup (IF moved[sent.by] THEN {} ELSE to.bad)
    BY <1>1, TakenKey
  <2>2. PICK to \in Takes(sent.key, ui) : harm' = harm \cup (IF moved[sent.by] THEN {} ELSE to.bad)
    BY <2>1
  <2>3. CASE sent.by = "stop"
    <3>1. sent.key # "answer"
      BY <2>3 DEF Sent, StopKeys
    <3>2. "answer" \notin to.bad
      BY <2>1, <2>2, <3>1, TakesTypes DEF KeysTypeOK
    <3> QED BY <2>2, <3>2 DEF AnswerOnlyToAQuestion
  <2>4. CASE sent.by = "answer" /\ ~moved["answer"]
    <3>1. SomeAnswer(pty) /\ sent.key = "answer"
      BY <2>1, <2>4 DEF SomeAnswer, Sent
    <3>2. ui.spot \in {"question", "exit-menu"}
      BY <2>4, <3>1 DEF AnswerInv
    <3>3. to \in AnswerTakes(ui) /\ ui \in Uis
      BY <3>1, Taken DEF KeysTypeOK
    <3>4. to.bad = {}
      BY <3>2, <3>3, AnswerTaken
    <3> QED BY <2>2, <3>4 DEF AnswerOnlyToAQuestion
  <2>5. CASE sent.by = "answer" /\ moved["answer"]
    BY <2>2, <2>5 DEF AnswerOnlyToAQuestion
  <2> QED BY <2>1, <2>3, <2>4, <2>5 DEF Callers
<1>2. CASE ~TakesKey
  <2>1. harm' = harm
    BY <1>2, HarmOnlyLands
  <2> QED BY <2>1 DEF AnswerOnlyToAQuestion
<1> QED BY <1>1, <1>2

\* `send_answer` reaches a question and never an agent at work or its box, where
\* no second press comes before the agent drew what the first one did (#204, #208).
THEOREM AnswersReachQuestions ==
  ASSUME AnswersOvertake = FALSE
  PROVE  KeysSpec => []AnswerOnlyToAQuestion
<1>1. KeysInit => AnswerInv /\ AnswerOnlyToAQuestion
  <2> SUFFICES ASSUME KeysInit PROVE AnswerInv /\ AnswerOnlyToAQuestion
    OBVIOUS
  <2>1. pty = <<>> /\ answerer = "idle" /\ harm = {}
    BY DEF KeysInit
  <2>2. Len(pty) = 0 /\ 1..0 = {}
    BY <2>1
  <2> QED BY <2>1, <2>2 DEF AnswerInv, SomeAnswer, OneAnswer, AnswerOnlyToAQuestion
<1>2. KeysTypeOK /\ AnswerInv /\ AnswerOnlyToAQuestion /\ [KeysNext]_keysVars
      => (AnswerInv /\ AnswerOnlyToAQuestion)'
  BY KeysStepTypes, AnswerStepInv, AnswersHarm
<1> QED BY <1>1, <1>2, KeysTypes, PTL DEF KeysSpec

-----------------------------------------------------------------------------
(* The watch of a wrap up.                                                 *)

\* What waits for the turn, after one more and after the first is gone.
LEMMA QueueHas ==
  ASSUME NEW q \in Seq(Work)
  PROVE  /\ \A w \in Work : Range(Append(q, w)) = Range(q) \cup {w}
         /\ q # <<>> => Range(q) = Range(Tail(q)) \cup {Head(q)}
         /\ q = <<>> => Range(q) = {}
         /\ q # <<>> => \A w \in Work : Append(q, w) # <<>> /\ Head(Append(q, w)) = Head(q)
         /\ q = <<>> => \A w \in Work : Append(q, w) # <<>> /\ Head(Append(q, w)) = w
<1>1. \A w \in Work : Range(Append(q, w)) = Range(q) \cup {w}
  <2> SUFFICES ASSUME NEW w \in Work PROVE Range(Append(q, w)) = Range(q) \cup {w}
    OBVIOUS
  <2>1. /\ DOMAIN q = 1..Len(q) /\ DOMAIN Append(q, w) = 1..(Len(q) + 1) /\ Len(q) \in Nat
        /\ Append(q, w)[Len(q) + 1] = w
        /\ \A i \in 1..Len(q) : Append(q, w)[i] = q[i]
    OBVIOUS
  <2>2. 1..(Len(q) + 1) = 1..Len(q) \cup {Len(q) + 1}
    BY <2>1
  <2> QED BY <2>1, <2>2 DEF Range
<1>2. ASSUME q # <<>> PROVE Range(q) = Range(Tail(q)) \cup {Head(q)}
  <2>1. /\ DOMAIN q = 1..Len(q) /\ Len(q) \in Nat /\ Len(q) > 0 /\ Head(q) = q[1]
        /\ DOMAIN Tail(q) = 1..(Len(q) - 1)
        /\ \A i \in 1..(Len(q) - 1) : Tail(q)[i] = q[i + 1]
    BY <1>2
  <2>2. \A x : x \in Range(q) => x \in Range(Tail(q)) \cup {Head(q)}
    <3> SUFFICES ASSUME NEW i \in 1..Len(q) PROVE q[i] \in Range(Tail(q)) \cup {Head(q)}
      BY <2>1 DEF Range
    <3>1. CASE i = 1
      BY <2>1, <3>1
    <3>2. CASE i # 1
      <4>1. i - 1 \in 1..(Len(q) - 1) /\ Tail(q)[i - 1] = q[i]
        BY <2>1, <3>2
      <4> QED BY <2>1, <4>1 DEF Range
    <3> QED BY <3>1, <3>2
  <2>3. \A x : x \in Range(Tail(q)) \cup {Head(q)} => x \in Range(q)
    <3>1. 1 \in 1..Len(q) /\ \A i \in 1..(Len(q) - 1) : i + 1 \in 1..Len(q)
      BY <2>1
    <3> QED BY <2>1, <3>1 DEF Range
  <2> QED BY <2>2, <2>3
<1>3. q = <<>> => Range(q) = {}
  BY DEF Range
<1>4. q # <<>> => \A w \in Work : Append(q, w) # <<>> /\ Head(Append(q, w)) = Head(q)
  OBVIOUS
<1>5. q = <<>> => \A w \in Work : Append(q, w) # <<>> /\ Head(Append(q, w)) = w
  OBVIOUS
<1> QED BY <1>1, <1>2, <1>3, <1>4, <1>5

\* A box, a question of a turn, or nothing: no exit is under way.
EarlyUi(u) ==
  /\ u.spot \in {"box", "gone"} \/ (u.spot \in {"question", "strange"} /\ Busy(u))
  /\ "exit" \notin Range(u.queue)

\* The wrap up that was typed waits, or has the turn, or went with the agent.
OnItsWay(u) == "wrap-up" \in Range(u.queue) \/ u.turn = "wrap-up" \/ u.spot = "gone"

IsNext(u) == u.queue # <<>> /\ Head(u.queue) = "wrap-up"
Starts(u) == u.spot = "box" /\ ~Busy(u) /\ IsNext(u)
InLine(u) == u.turn = "wrap-up" \/ u.spot = "gone" \/ (~Busy(u) /\ IsNext(u))

\* What rests with a wrap up on its way has it first in line.
LEMMA RestsInLine ==
  ASSUME NEW u \in Uis, OnItsWay(u), Rests(u)
  PROVE  Starts(u) /\ InLine(u)
<1>1. u.spot = "box" /\ ~Busy(u) /\ u.turn = "idle" /\ Waiting(u) = <<>>
  BY DEF Rests, Empty, Waits, Busy
<1>2. u.queue \in Seq(Work) /\ "wrap-up" \in Range(u.queue)
  BY <1>1 DEF OnItsWay, Uis
<1>3. u.queue # <<>> /\ Tail(u.queue) = <<>>
  <2>1. u.queue # <<>>
    BY <1>2, QueueHas
  <2> QED BY <1>1, <2>1 DEF Waiting
<1>4. Range(u.queue) = Range(Tail(u.queue)) \cup {Head(u.queue)}
  BY <1>2, <1>3, QueueHas
<1>5. Range(Tail(u.queue)) = {}
  BY <1>3 DEF Range
<1>6. Head(u.queue) = "wrap-up"
  BY <1>2, <1>4, <1>5
<1> QED BY <1>1, <1>3, <1>6 DEF Starts, InLine, IsNext

-----------------------------------------------------------------------------
(* What each key may do to what waits and to what the box holds.           *)

\* A session that is gone has nothing in line, and the box it had.
LEMMA GoneIsEmpty ==
  ASSUME NEW u \in Uis
  PROVE  /\ Gone(u).spot = "gone" /\ Gone(u).turn = "idle" /\ Gone(u).queue = <<>>
         /\ Gone(u).hold = u.hold /\ Range(Gone(u).queue) = {}
<1>1. Gone(u).spot = "gone" /\ Gone(u).turn = "idle" /\ Gone(u).queue = <<>> /\ Gone(u).hold = u.hold
  BY DEF Gone, Uis
<1> QED BY <1>1 DEF Range

\* An answered question goes back to the box it came from.
LEMMA AnsweredLeaves ==
  ASSUME NEW u \in Uis, NEW v \in Answered(u), u.spot # "exit-menu"
  PROVE  v.turn = u.turn /\ v.queue = u.queue /\ v.hold = u.hold /\ v.spot \in {u.spot, "box"}
<1>1. v = u \/ v = [u EXCEPT !.spot = "box", !.asked = (u.spot = "question" \/ u.asked)]
  BY DEF Answered
<1> QED BY <1>1 DEF Uis

\* Nothing but its own text and Enter can put a wrap up in line.
LEMMA KeyLeaves ==
  ASSUME NEW u \in Uis, NEW key \in StopKeys \cup {"answer"}, NEW to \in Takes(key, u)
  PROVE  /\ to.u.hold = "prompt" => u.hold = "prompt" \/ key = "prompt"
         /\ "wrap-up" \in Range(to.u.queue) =>
              "wrap-up" \in Range(u.queue) \/ (key = "enter" /\ u.hold = "prompt")
<1>0. /\ u.queue \in Seq(Work) /\ {"exit", "theirs", "wrap-up"} \subseteq Work
      /\ u.hold \in {"nothing", "draft", "prompt"}
  BY DEF Uis, Work
<1>9. \A w \in {"exit", "theirs"} : "wrap-up" \in Range(Append(u.queue, w)) =>
        "wrap-up" \in Range(u.queue)
  <2>1. ASSUME NEW w \in {"exit", "theirs"} PROVE Range(Append(u.queue, w)) = Range(u.queue) \cup {w}
    BY <1>0, QueueHas
  <2> QED BY <2>1
<1>1. CASE key = "clear"
  <2>1. to.u.queue = u.queue /\ to.u.hold \in {u.hold, "nothing"}
    BY <1>1, Taken, ClearTaken
  <2> QED BY <2>1
<1>2. CASE key = "escape"
  <2>1. to \in EscapeTakes(u)
    BY <1>2, Taken
  <2>2. \/ to.u = [u EXCEPT !.spot = "box"] \/ to.u = u \/ to.u = [u EXCEPT !.spot = "question"]
        \/ to.u.queue = <<>> /\ to.u.hold # "prompt"
    BY <2>1, EscapeTaken
  <2>3. \/ to.u.queue = u.queue /\ to.u.hold = u.hold
        \/ to.u.queue = <<>> /\ to.u.hold # "prompt"
    BY <2>2 DEF Uis
  <2>4. to.u.queue = <<>> => Range(to.u.queue) = {}
    BY DEF Range
  <2> QED BY <2>3, <2>4
<1>3. CASE key = "exit"
  <2>1. to \in ExitTakes(u)
    BY <1>3, Taken
  <2>2. to.u.hold \in {u.hold, "nothing"}
    BY <2>1, ExitTaken
  <2>3. \/ to.u = [u EXCEPT !.queue = Append(@, "exit")] \/ to.u \in Leaves(u)
        \/ to.u = Submits(u, "theirs") \/ to.u \in Answered(u)
    BY <2>1, LandsOrMisses DEF ExitTakes
  <2>4. \/ to.u.queue = Append(u.queue, "exit") \/ to.u.queue = u.queue
        \/ to.u.queue = Append(u.queue, "theirs") \/ to.u = Gone(u)
    <3>1. ASSUME to.u = [u EXCEPT !.queue = Append(@, "exit")]
          PROVE to.u.queue = Append(u.queue, "exit")
      BY <3>1 DEF Uis
    <3>2. ASSUME to.u \in Leaves(u) PROVE to.u.queue = u.queue \/ to.u = Gone(u)
      BY <3>2 DEF Leaves, Uis
    <3>3. ASSUME to.u = Submits(u, "theirs") PROVE to.u.queue = Append(u.queue, "theirs")
      BY <1>0, <3>3, SubmitsUi
    <3>4. ASSUME to.u \in Answered(u) PROVE to.u.queue = u.queue \/ to.u = Gone(u)
      BY <3>4, AnsweredTypes
    <3> QED BY <2>3, <3>1, <3>2, <3>3, <3>4
  <2>5. "wrap-up" \in Range(to.u.queue) => "wrap-up" \in Range(u.queue)
    BY <1>9, <2>4, GoneIsEmpty
  <2> QED BY <1>0, <1>3, <2>2, <2>5
<1>4. CASE key = "enter"
  <2>1. to \in EnterTakes(u)
    BY <1>4, Taken
  <2>2. /\ to.u.hold \in {u.hold, "nothing"}
        /\ u.spot = "box" /\ u.hold = "draft" => to.u = Submits(u, "theirs")
        /\ Empty(u) => to.u = u
        /\ u.spot # "box" => to.u = Gone(u) \/ to.u \in Answered(u)
    BY <2>1, EnterTaken
  <2>3. CASE u.hold = "prompt"
    BY <1>4, <2>2, <2>3
  <2>4. CASE u.hold # "prompt"
    <3>1. to.u.queue = u.queue \/ to.u.queue = Append(u.queue, "theirs") \/ to.u = Gone(u)
      <4>1. CASE u.spot # "box"
        BY <2>2, <4>1, AnsweredTypes
      <4>2. CASE u.spot = "box"
        <5>1. CASE u.hold = "draft"
          <6>1. to.u = Submits(u, "theirs")
            BY <2>2, <4>2, <5>1
          <6>2. Submits(u, "theirs").queue = Append(u.queue, "theirs")
            BY <1>0, SubmitsUi
          <6> QED BY <6>1, <6>2
        <5>2. CASE u.hold = "nothing"
          BY <2>2, <4>2, <5>2 DEF Empty
        <5> QED BY <1>0, <2>4, <5>1, <5>2
      <4> QED BY <4>1, <4>2
    <3>2. "wrap-up" \in Range(to.u.queue) => "wrap-up" \in Range(u.queue)
      BY <1>9, <3>1, GoneIsEmpty
    <3> QED BY <1>0, <1>4, <2>2, <3>2
  <2> QED BY <2>3, <2>4
<1>5. CASE key = "prompt"
  <2>1. to \in TextTakes(u)
    BY <1>5, Taken
  <2>2. to.u = [u EXCEPT !.hold = "prompt"] \/ to.u = u \/ to.u = [u EXCEPT !.hold = "draft"]
    BY <2>1, TextTaken
  <2>3. to.u.queue = u.queue
    BY <2>2 DEF Uis
  <2> QED BY <1>5, <2>3
<1>6. CASE key = "answer"
  <2>1. to \in AnswerTakes(u)
    BY <1>6, Taken
  <2>2. to.u \in Answered(u) \/ to.u = u \/ to.u = [u EXCEPT !.hold = "draft"]
    BY <2>1, AnswerTaken
  <2>3. /\ to.u.queue = u.queue \/ to.u = Gone(u)
        /\ to.u.hold \in {u.hold, "draft"}
    <3>1. ASSUME to.u \in Answered(u) PROVE (to.u.queue = u.queue \/ to.u = Gone(u)) /\ to.u.hold = u.hold
      BY <3>1, AnsweredTypes
    <3>2. ASSUME to.u = u \/ to.u = [u EXCEPT !.hold = "draft"]
          PROVE  to.u.queue = u.queue /\ to.u.hold \in {u.hold, "draft"}
      BY <3>2 DEF Uis
    <3> QED BY <2>2, <3>1, <3>2
  <2> QED BY <2>3, GoneIsEmpty
<1> QED BY <1>1, <1>2, <1>3, <1>4, <1>5, <1>6 DEF StopKeys

\* The keys of a wrap up, and an answer, start no exit.
LEMMA KeyIsEarly ==
  ASSUME NEW u \in Uis, NEW key \in {"clear", "prompt", "enter", "answer"}, NEW to \in Takes(key, u),
         EarlyUi(u)
  PROVE  EarlyUi(to.u)
<1>0. /\ u.queue \in Seq(Work) /\ {"theirs", "wrap-up"} \subseteq Work
      /\ u.hold \in {"nothing", "draft", "prompt"} /\ u.spot # "exit-menu"
  BY DEF Uis, Work, EarlyUi
<1>1. CASE key = "clear"
  <2>1. to.u.queue = u.queue /\ to.u.spot = u.spot /\ to.u.turn = u.turn
    BY <1>1, Taken, ClearTaken
  <2> QED BY <2>1 DEF EarlyUi, Busy
<1>2. CASE key = "prompt"
  <2>1. to \in TextTakes(u)
    BY <1>2, Taken
  <2>2. to.u = [u EXCEPT !.hold = "prompt"] \/ to.u = u \/ to.u = [u EXCEPT !.hold = "draft"]
    BY <2>1, TextTaken
  <2>3. to.u.queue = u.queue /\ to.u.spot = u.spot /\ to.u.turn = u.turn
    BY <2>2 DEF Uis
  <2> QED BY <2>3 DEF EarlyUi, Busy
<1>3. ASSUME to.u \in Answered(u) PROVE EarlyUi(to.u)
  <2>1. to.u.turn = u.turn /\ to.u.queue = u.queue /\ to.u.spot \in {u.spot, "box"}
    BY <1>0, <1>3, AnsweredLeaves
  <2> QED BY <2>1 DEF EarlyUi, Busy
<1>4. CASE key = "enter"
  <2>1. to \in EnterTakes(u)
    BY <1>4, Taken
  <2>2. /\ u.spot = "box" /\ u.hold = "prompt" => to.u = Submits(u, "wrap-up")
        /\ u.spot = "box" /\ u.hold = "draft" => to.u = Submits(u, "theirs")
        /\ Empty(u) => to.u = u
        /\ u.spot # "box" => to.u = Gone(u) \/ to.u \in Answered(u)
    BY <2>1, EnterTaken
  <2>3. CASE u.spot # "box"
    <3>1. EarlyUi(Gone(u))
      BY GoneIsEmpty DEF EarlyUi
    <3> QED BY <1>3, <2>2, <2>3, <3>1
  <2>4. ASSUME NEW w \in {"theirs", "wrap-up"}, u.spot = "box", to.u = Submits(u, w) PROVE EarlyUi(to.u)
    <3>1. to.u.spot = "box" /\ to.u.queue = Append(u.queue, w)
      BY <1>0, <2>4, SubmitsUi
    <3>2. Range(to.u.queue) = Range(u.queue) \cup {w}
      BY <1>0, <2>4, <3>1, QueueHas
    <3> QED BY <2>4, <3>1, <3>2 DEF EarlyUi
  <2> QED BY <1>0, <2>2, <2>3, <2>4 DEF Empty
<1>5. CASE key = "answer"
  <2>1. to \in AnswerTakes(u)
    BY <1>5, Taken
  <2>2. to.u \in Answered(u) \/ to.u = u \/ to.u = [u EXCEPT !.hold = "draft"]
    BY <2>1, AnswerTaken
  <2>3. ASSUME to.u = u \/ to.u = [u EXCEPT !.hold = "draft"] PROVE EarlyUi(to.u)
    <3>1. to.u.queue = u.queue /\ to.u.spot = u.spot /\ to.u.turn = u.turn
      BY <2>3 DEF Uis
    <3> QED BY <3>1 DEF EarlyUi, Busy
  <2> QED BY <1>3, <2>2, <2>3
<1> QED BY <1>1, <1>2, <1>4, <1>5

\* What a person, a question or the end of it makes of each part of the ui.
LEMMA MovedParts ==
  ASSUME ui \in Uis, Moved(ui)
  PROVE  \/ ui' = Gone(ui)
         \/ /\ ui'.queue = ui.queue \/ (ui.spot = "box" /\ ui'.queue = Append(ui.queue, "theirs"))
            /\ ui'.turn = ui.turn /\ ui'.hold \in {ui.hold, "draft"}
            /\ \/ ui'.spot \in {ui.spot, "box"}
               \/ ui.spot = "box" /\ Busy(ui) /\ ui'.spot \in {"question", "strange"}
<1>1. CASE ui.spot = "box" /\ ui' = [ui EXCEPT !.hold = "draft"]
  BY <1>1 DEF Uis
<1>2. CASE ui.spot = "box" /\ ui' = [ui EXCEPT !.queue = Append(@, "theirs")]
  BY <1>2 DEF Uis
<1>3. CASE ui.spot = "box" /\ ui' = [ui EXCEPT !.panel = ~@]
  BY <1>3 DEF Uis
<1>4. CASE ui.spot = "box" /\ Busy(ui) /\ \E s \in {"question", "strange"} :
             ui' = [ui EXCEPT !.spot = s]
  BY <1>4 DEF Uis
<1>5. CASE \E a \in BOOLEAN : ui' = [ui EXCEPT !.spot = "box", !.asked = a]
  BY <1>5 DEF Uis
<1> QED BY <1>1, <1>2, <1>3, <1>4, <1>5, MovedUi

\* The agent at work, and a person at it: what waits stays in line, and what is
\* first in line was told how long it may take.
LEMMA MovesLeave ==
  ASSUME KeysTypeOK, TurnEnds \/ StartsNext \/ SomethingMoves
  PROVE  /\ ui'.hold = "prompt" => ui.hold = "prompt"
         /\ EarlyUi(ui) => EarlyUi(ui')
         /\ wrapped' = "waiting" => wrapped = "waiting" /\ (OnItsWay(ui) => OnItsWay(ui'))
         /\ EarlyUi(ui) /\ wrapped' = "waiting" /\ InLine(ui) => InLine(ui')
         /\ due' \in {due, MaxStart, MaxGap}
         /\ EarlyUi(ui) /\ Starts(ui') =>
              \/ due' = due /\ Starts(ui)
              \/ due' = MaxGap /\ (wrapped' = "waiting" => ~InLine(ui))
<1>0. ui \in Uis /\ ui.queue \in Seq(Work) /\ ui.turn \in Turns /\ "theirs" \in Work
  BY DEF KeysTypeOK, Uis, Work
<1>1. CASE TurnEnds
  <2>1. ui.spot = "box" /\ Busy(ui) /\ ui' = [ui EXCEPT !.turn = "idle"] /\ due' = MaxGap
    BY <1>1 DEF TurnEnds, Becomes
  <2>2. ui'.spot = "box" /\ ui'.hold = ui.hold /\ ui'.queue = ui.queue /\ ui'.turn = "idle" /\ ui.turn # "idle"
    BY <1>0, <2>1 DEF Uis, Busy
  <2>3. wrapped' = "waiting" => wrapped = "waiting" /\ ui.turn # "wrap-up"
    BY <1>1 DEF TurnEnds
  <2>4. wrapped' = "waiting" => ~InLine(ui)
    BY <2>1, <2>3 DEF InLine
  <2>5. EarlyUi(ui) => EarlyUi(ui')
    BY <2>2 DEF EarlyUi
  <2>6. wrapped' = "waiting" => (OnItsWay(ui) => OnItsWay(ui'))
    BY <2>1, <2>2, <2>3 DEF OnItsWay
  <2> QED BY <2>1, <2>2, <2>3, <2>4, <2>5, <2>6
<1>2. CASE StartsNext
  <2>1. UNCHANGED <<wrapped, due>> /\ ui.spot = "box" /\ ~Busy(ui) /\ ui.turn = "idle"
    BY <1>2 DEF StartsNext, Busy
  <2>2. ui.queue # <<>> /\ Head(ui.queue) \in Work /\ Tail(ui.queue) \in Seq(Work)
    BY <1>0, <1>2, StartedUi
  <2>3. Range(ui.queue) = Range(Tail(ui.queue)) \cup {Head(ui.queue)}
    BY <1>0, <2>2, QueueHas
  <2>4. CASE Head(ui.queue) = "exit"
    <3>1. PICK v \in Leaves([ui EXCEPT !.queue = Tail(@)]) : Becomes(v, "nobody")
      BY <1>2, <2>4 DEF StartsNext
    <3>2. [ui EXCEPT !.queue = Tail(@)] \in Uis
      BY <1>0, <2>2, UiEdits
    <3>3. /\ v.hold = [ui EXCEPT !.queue = Tail(@)].hold /\ v.spot \in {"exit-menu", "gone"}
          /\ v.spot = "exit-menu" => v.queue = [ui EXCEPT !.queue = Tail(@)].queue
      BY <3>2, LeavesTypes
    <3>4. /\ ui'.hold = ui.hold /\ ui'.spot \in {"exit-menu", "gone"}
          /\ ui'.spot = "exit-menu" => ui'.queue = Tail(ui.queue)
      BY <1>0, <3>1, <3>3 DEF Becomes, Uis
    <3>5. ~EarlyUi(ui)
      BY <2>3, <2>4 DEF EarlyUi
    <3>6. OnItsWay(ui) => OnItsWay(ui')
      BY <2>1, <2>3, <2>4, <3>4 DEF OnItsWay
    <3> QED BY <2>1, <3>4, <3>5, <3>6
  <2>5. CASE Head(ui.queue) # "exit"
    <3>1. ui' = [ui EXCEPT !.turn = Head(ui.queue), !.queue = Tail(@)]
      BY <1>0, <1>2, <2>5, StartedUi
    <3>2. /\ ui'.spot = "box" /\ ui'.hold = ui.hold /\ ui'.turn = Head(ui.queue)
          /\ ui'.queue = Tail(ui.queue)
      BY <1>0, <2>1, <3>1 DEF Uis
    <3>3. Busy(ui')
      BY <2>2, <3>2 DEF Busy, Work
    <3>4. EarlyUi(ui) => EarlyUi(ui')
      BY <2>3, <3>2 DEF EarlyUi
    <3>5. OnItsWay(ui) => OnItsWay(ui')
      BY <2>1, <2>3, <3>2 DEF OnItsWay
    <3>6. InLine(ui) => InLine(ui')
      BY <2>1, <3>2 DEF InLine, IsNext
    <3> QED BY <2>1, <3>2, <3>3, <3>4, <3>5, <3>6 DEF Starts
  <2> QED BY <2>4, <2>5
<1>3. CASE SomethingMoves
  <2>1. wrapped' = wrapped /\ due' = (IF ui.queue = <<>> THEN MaxStart ELSE due) /\ Moved(ui)
    BY <1>3 DEF SomethingMoves
  <2>2. CASE ui' = Gone(ui)
    <3>1. ui'.spot = "gone" /\ ui'.turn = "idle" /\ Range(ui'.queue) = {} /\ ui'.hold = ui.hold
      BY <1>0, <2>2, GoneIsEmpty
    <3> QED BY <2>1, <3>1 DEF EarlyUi, OnItsWay, InLine, Starts
  <2>3. CASE /\ ui'.queue = ui.queue \/ (ui.spot = "box" /\ ui'.queue = Append(ui.queue, "theirs"))
             /\ ui'.turn = ui.turn /\ ui'.hold \in {ui.hold, "draft"}
             /\ \/ ui'.spot \in {ui.spot, "box"}
                \/ ui.spot = "box" /\ Busy(ui) /\ ui'.spot \in {"question", "strange"}
    <3>1. Range(ui'.queue) = Range(ui.queue) \/ Range(ui'.queue) = Range(ui.queue) \cup {"theirs"}
      <4>1. Range(Append(ui.queue, "theirs")) = Range(ui.queue) \cup {"theirs"}
        BY <1>0, QueueHas
      <4> QED BY <2>3, <4>1
    <3>2. /\ IsNext(ui) => IsNext(ui')
          /\ IsNext(ui') => IsNext(ui) /\ ui.queue # <<>>
      <4>1. CASE ui'.queue = ui.queue
        BY <4>1 DEF IsNext
      <4>2. CASE ui'.queue = Append(ui.queue, "theirs")
        <5>1. \/ ui.queue # <<>> /\ Append(ui.queue, "theirs") # <<>> /\ Head(Append(ui.queue, "theirs")) = Head(ui.queue)
              \/ ui.queue = <<>> /\ Head(Append(ui.queue, "theirs")) = "theirs"
          BY <1>0, QueueHas
        <5> QED BY <4>2, <5>1 DEF IsNext
      <4> QED BY <2>3, <4>1, <4>2
    <3>3. Busy(ui') <=> Busy(ui)
      BY <2>3 DEF Busy
    <3>4. EarlyUi(ui) => EarlyUi(ui')
      BY <2>3, <3>1, <3>3 DEF EarlyUi
    <3>5. InLine(ui) => InLine(ui') \/ ui.spot = "gone"
      BY <2>3, <3>2, <3>3 DEF InLine
    <3>6. ui.spot # "gone"
      <4>1. CASE ui.spot = "gone"
        BY <2>1, <4>1 DEF Moved
      <4> QED BY <4>1
    <3>7. OnItsWay(ui) => OnItsWay(ui')
      BY <2>3, <3>1, <3>6 DEF OnItsWay
    <3>8. EarlyUi(ui) /\ Starts(ui') => due' = due /\ Starts(ui)
      BY <2>1, <2>3, <3>2, <3>3, <3>6 DEF EarlyUi, Starts
    <3> QED BY <2>1, <2>3, <3>4, <3>5, <3>6, <3>7, <3>8
  <2> QED BY <1>0, <2>1, <2>2, <2>3, MovedParts
<1> QED BY <1>1, <1>2, <1>3

-----------------------------------------------------------------------------
(* Before the exit half of a stop.                                         *)

EarlyKeys(s) == \A i \in 1..Len(s) : StopsKey(s, i) => s[i].key \in {"clear", "prompt", "enter"}
Early == stop.at = "idle" \/ stop.job = "wrap-up"

\* As long as no stop was asked for, or one only waits for its wrap up, nothing
\* that leaves is typed.
EarlyInv ==
  /\ stop.job = "wrap-up" =>
       stop.at \in {"clear", "settle", "look", "queued", "prompt", "enter", "watching", "refused", "failed"}
  /\ stop.job = "exit" => stop.at \notin {"queued", "prompt", "enter", "watching"}
  /\ Early => EarlyUi(ui) /\ EarlyKeys(pty)

\* A key that comes last, or the first that goes.
LEMMA EarlyKeysStep ==
  ASSUME NEW s \in Seq(Sent), NEW t \in Seq(Sent), EarlyKeys(s),
         \/ t = s
         \/ /\ Len(t) = Len(s) + 1 /\ (\A i \in 1..Len(s) : t[i] = s[i])
            /\ t[Len(s) + 1].by # "stop" \/ t[Len(s) + 1].key \in {"clear", "prompt", "enter"}
         \/ Len(s) > 0 /\ Len(t) = Len(s) - 1 /\ \A i \in 1..(Len(s) - 1) : t[i] = s[i + 1]
  PROVE  EarlyKeys(t)
<1>1. Len(s) \in Nat /\ Len(t) \in Nat
  OBVIOUS
<1>2. CASE t = s
  BY <1>2
<1>3. CASE /\ Len(t) = Len(s) + 1 /\ (\A i \in 1..Len(s) : t[i] = s[i])
           /\ t[Len(s) + 1].by # "stop" \/ t[Len(s) + 1].key \in {"clear", "prompt", "enter"}
  <2> SUFFICES ASSUME NEW i \in 1..Len(t), t[i].by = "stop"
        PROVE t[i].key \in {"clear", "prompt", "enter"}
    BY DEF EarlyKeys, StopsKey
  <2>1. CASE i = Len(s) + 1
    BY <1>3, <2>1
  <2>2. CASE i # Len(s) + 1
    <3>1. i \in 1..Len(s)
      BY <1>1, <1>3, <2>2
    <3> QED BY <1>3, <3>1 DEF EarlyKeys, StopsKey
  <2> QED BY <2>1, <2>2
<1>4. CASE Len(s) > 0 /\ Len(t) = Len(s) - 1 /\ \A i \in 1..(Len(s) - 1) : t[i] = s[i + 1]
  <2>1. \A i \in 1..Len(t) : i + 1 \in 1..Len(s) /\ t[i] = s[i + 1]
    BY <1>1, <1>4
  <2> QED BY <2>1 DEF EarlyKeys, StopsKey
<1> QED BY <1>2, <1>3, <1>4

\* What a key that is taken does to what waits, and to the wrap up's turn.
LEMMA TakenWraps ==
  ASSUME KeysTypeOK, TakesKey
  PROVE  \E sent \in Sent : \E to \in Takes(sent.key, ui) :
           /\ sent = pty[1] /\ 1 \in 1..Len(pty) /\ sent.key \in StopKeys \cup {"answer"}
           /\ sent.by = "stop" \/ sent.key = "answer"
           /\ pty' \in Seq(Sent) /\ Len(pty) > 0 /\ Len(pty') = Len(pty) - 1
           /\ \A i \in 1..(Len(pty) - 1) : pty'[i] = pty[i + 1]
           /\ ui' = to.u
           /\ wrapped' = IF "wrap-up" \in Range(to.u.queue) \ Range(ui.queue) THEN "waiting"
                         ELSE IF wrapped = "waiting" /\ to.u.turn # "wrap-up"
                                   /\ "wrap-up" \notin Range(to.u.queue) THEN "over"
                         ELSE wrapped
           /\ due' = (IF ui.queue = <<>> THEN MaxStart ELSE due)
           /\ UNCHANGED <<stop, watch, frame, agent>>
<1>1. pty \in Seq(Sent) /\ pty # <<>>
  BY DEF TakesKey, KeysTypeOK
<1>2. PICK sent : sent = Head(pty)
  OBVIOUS
<1>3. /\ sent = pty[1] /\ sent \in Sent /\ Len(pty) \in Nat /\ Len(pty) > 0
      /\ Tail(pty) \in Seq(Sent) /\ Len(Tail(pty)) = Len(pty) - 1
      /\ \A i \in 1..(Len(pty) - 1) : Tail(pty)[i] = pty[i + 1]
  BY <1>1, <1>2, TailKeys
<1>4. sent.key \in StopKeys \cup {"answer"} /\ (sent.by = "stop" \/ sent.key = "answer")
  BY <1>3 DEF Sent
<1>5. PICK to \in Takes(sent.key, ui) :
        /\ Becomes(to.u, sent.by)
        /\ wrapped' = IF "wrap-up" \in Range(to.u.queue) \ Range(ui.queue) THEN "waiting"
                      ELSE IF wrapped = "waiting" /\ to.u.turn # "wrap-up"
                                /\ "wrap-up" \notin Range(to.u.queue) THEN "over"
                      ELSE wrapped
  BY <1>2 DEF TakesKey
<1>6. ui' = to.u /\ pty' = Tail(pty)
  BY <1>5 DEF Becomes, TakesKey
<1>7. due' = (IF ui.queue = <<>> THEN MaxStart ELSE due) /\ UNCHANGED <<stop, watch, frame, agent>>
  BY DEF TakesKey, callerVars
<1>8. 1 \in 1..Len(pty)
  BY <1>3
<1> QED BY <1>3, <1>4, <1>5, <1>6, <1>7, <1>8

\* Where the request goes, and what it sends on the way.
StopMoves(at, key, next) ==
  /\ stop.at = at /\ Types("stop", <<key>>)
  /\ stop'.at = next /\ stop'.job = stop.job /\ stop'.done = stop.done

\* Every step of a request goes to the next point of it, with one key or none.
LEMMA StopGoes ==
  ASSUME KeysTypeOK, StopStep
  PROVE  \/ StopAsked
         \/ StopMoves("clear", "clear", "settle")
         \/ StopMoves("escape", "escape", "settle-again")
         \/ StopMoves("exit", "exit", "menu") \/ StopMoves("exit", "exit", "asked")
         \/ StopMoves("press", "enter", "asked")
         \/ StopMoves("prompt", "prompt", "enter")
         \/ SendsEnter /\ StopMoves("enter", "enter", "watching")
         \/ Captured
         \/ Observes
         \/ /\ pty' = pty /\ stop'.job = stop.job /\ stop'.done = stop.done
            /\ \/ stop.at # "idle" /\ stop'.at \in {"failed", "refused"}
               \/ stop.at = "settle" /\ stop'.at = "look" /\ Drawn
               \/ stop.at = "settle-again" /\ stop'.at = "look-again" /\ Drawn
               \/ stop.at = "look" /\ stop'.at = "settle"
               \/ stop.at = "look-again" /\ stop'.at = "settle-again"
               \/ stop.at = "look" /\ stop.job = "exit" /\ stop'.at = "escape"
               \/ stop.at = "look" /\ stop.job # "exit" /\ stop'.at = "queued"
               \/ /\ \/ stop.at = "look-again"
                     \/ stop.at = "look" /\ stop.job = "exit"
                  /\ stop'.at = "exit" /\ Empty(frame.of)
               \/ stop.at = "queued" /\ stop'.at = "prompt"
               \/ stop.at = "menu" /\ stop'.at \in {"menu", "press", "asked"}
               \/ stop.at = "press" /\ stop'.at = "asked"
<1>1. CASE StopAsked
  BY <1>1
<1>2. CASE Unreachable
  BY <1>2, StopAtTypes DEF Unreachable, Ats
<1>3. CASE SendsClear
  BY <1>3, SendsTypes DEF SendsClear, StopKeys, Ats, StopMoves
<1>4. CASE Settles
  <2>1. CASE stop.at = "settle"
    <3>1. StopAt("look") /\ pty' = pty /\ Drawn
      BY <1>4, <2>1 DEF Settles
    <3> QED BY <2>1, <3>1, StopAtTypes DEF Ats
  <2>2. CASE stop.at = "settle-again"
    <3>1. StopAt("look-again") /\ pty' = pty /\ Drawn
      BY <1>4, <2>2 DEF Settles
    <3> QED BY <2>2, <3>1, StopAtTypes DEF Ats
  <2> QED BY <1>4, <2>1, <2>2 DEF Settles
<1>5. CASE RequiresClear
  <2>1. PICK rows \in Captures :
       stop' = [stop EXCEPT
         !.tries = @ + 1,
         !.at = IF InputIsClear(agent, rows) = "yes" THEN Cleared
                ELSE IF stop.tries + 1 = SETTLE_TRIES THEN "refused"
                ELSE IF @ = "look" THEN "settle" ELSE "settle-again"]
    BY <1>5 DEF RequiresClear
  <2>2. /\ stop'.job = stop.job /\ stop'.done = stop.done
        /\ stop'.at = IF InputIsClear(agent, rows) = "yes" THEN Cleared
                      ELSE IF stop.tries + 1 = SETTLE_TRIES THEN "refused"
                      ELSE IF stop.at = "look" THEN "settle" ELSE "settle-again"
    BY <2>1 DEF KeysTypeOK
  <2>3. stop.at \in {"look", "look-again"} /\ pty' = pty
    BY <1>5 DEF RequiresClear
  <2>4. InputIsClear(agent, rows) = "yes" => Empty(frame.of)
    BY StopLooks DEF KeysTypeOK
  <2>5. \/ stop.at = "look-again" /\ Cleared = "exit"
        \/ stop.at = "look" /\ stop.job = "exit" /\ Cleared \in {"exit", "escape"}
        \/ stop.at = "look" /\ stop.job # "exit" /\ Cleared = "queued"
    BY <2>3 DEF Cleared
  <2> QED BY <2>2, <2>3, <2>4, <2>5
<1>6. CASE SendsEscape
  BY <1>6, SendsTypes DEF SendsEscape, StopKeys, Ats, StopMoves
<1>7. CASE SendsExit
  <2>1. PICK next \in {"menu", "asked"} : next = IF agent = "claude" THEN "menu" ELSE "asked"
    OBVIOUS
  <2>2. Sends("exit", <<"exit">>, next) /\ next \in Ats
    BY <1>7, <2>1 DEF SendsExit, Ats
  <2>3. StopMoves("exit", "exit", next)
    BY <2>2, SendsTypes DEF StopKeys, StopMoves
  <2> QED BY <2>1, <2>3
<1>8. CASE LooksForMenu
  <2>1. PICK at \in {"asked", "press", "menu"} : stop' = [stop EXCEPT !.tries = @ + 1, !.at = at]
    BY <1>8 DEF LooksForMenu
  <2>2. stop'.at = at /\ stop'.job = stop.job /\ stop'.done = stop.done
    BY <2>1 DEF KeysTypeOK
  <2> QED BY <1>8, <2>2 DEF LooksForMenu
<1>9. CASE Presses
  BY <1>9, SendsTypes DEF Presses, StopKeys, Ats, StopMoves
<1>10. CASE Unanswered
  BY <1>10, StopAtTypes DEF Unanswered, Ats
<1>11. CASE LooksForQueued
  <2>1. PICK at \in {"refused", "prompt"} : StopAt(at)
    BY <1>11 DEF LooksForQueued
  <2> QED BY <1>11, <2>1, StopAtTypes DEF LooksForQueued, Ats
<1>12. CASE SendsPrompt
  BY <1>12, SendsTypes DEF SendsPrompt, StopKeys, Ats, StopMoves
<1>13. CASE SendsEnter
  BY <1>13, StopAtTypes DEF SendsEnter, Ats, StopMoves
<1>14. CASE Captured
  BY <1>14
<1>15. CASE Observes
  BY <1>15
<1> QED BY <1>1, <1>2, <1>3, <1>4, <1>5, <1>6, <1>7, <1>8, <1>9, <1>10, <1>11, <1>12, <1>13,
           <1>14, <1>15 DEF StopStep

\* A key of a stop's comes last.
\* A key of a stop's comes last.
LEMMA KeyComesLast ==
  ASSUME KeysTypeOK, NEW key \in StopKeys, Types("stop", <<key>>)
  PROVE  /\ pty' \in Seq(Sent)
         /\ \/ pty' = pty
            \/ /\ Len(pty') = Len(pty) + 1 /\ (\A i \in 1..Len(pty) : pty'[i] = pty[i])
               /\ pty'[Len(pty) + 1] = [by |-> "stop", key |-> key]
<1>1. [by |-> "stop", key |-> key] \in Sent
  BY DEF Sent
<1> QED BY <1>1, TypesKey DEF KeysTypeOK

\* Every step keeps what leaves from being typed before its time.
LEMMA EarlyStep ==
  ASSUME KeysTypeOK, KeysTypeOK', KeysInOrder, EarlyInv, [KeysNext]_keysVars
  PROVE  EarlyInv'
<1>0. pty \in Seq(Sent) /\ pty' \in Seq(Sent) /\ ui \in Uis /\ stop.job \in {"exit", "wrap-up"}
  BY DEF KeysTypeOK
<1>1. CASE Draws \/ Tick \/ AnswerLooks \/ UNCHANGED keysVars
  <2>1. UNCHANGED <<ui, pty, stop>>
    BY <1>1 DEF Draws, Tick, AnswerLooks, OfAnswer, keysVars, agentVars, callerVars
  <2> QED BY <2>1 DEF EarlyInv, Early
<1>2. CASE TurnEnds \/ StartsNext \/ SomethingMoves
  <2>1. UNCHANGED <<pty, stop>> /\ (EarlyUi(ui) => EarlyUi(ui'))
    BY <1>2, AgentMoves, MovesLeave
  <2> QED BY <2>1 DEF EarlyInv, Early
<1>3. CASE TakesKey
  <2>1. PICK sent \in Sent : \E to \in Takes(sent.key, ui) :
           /\ sent = pty[1] /\ 1 \in 1..Len(pty) /\ sent.key \in StopKeys \cup {"answer"}
           /\ sent.by = "stop" \/ sent.key = "answer"
           /\ Len(pty) > 0 /\ Len(pty') = Len(pty) - 1
           /\ \A i \in 1..(Len(pty) - 1) : pty'[i] = pty[i + 1]
           /\ ui' = to.u /\ UNCHANGED stop
    BY <1>3, TakenWraps
  <2>2. PICK to \in Takes(sent.key, ui) : ui' = to.u
    BY <2>1
  <2>3. EarlyKeys(pty) => EarlyKeys(pty')
    BY <1>0, <2>1, EarlyKeysStep
  <2>4. EarlyKeys(pty) => sent.key \in {"clear", "prompt", "enter", "answer"}
    BY <2>1 DEF EarlyKeys, StopsKey
  <2>5. EarlyKeys(pty) /\ EarlyUi(ui) => EarlyUi(ui')
    BY <1>0, <2>2, <2>4, KeyIsEarly
  <2> QED BY <2>1, <2>3, <2>5 DEF EarlyInv, Early
<1>4. CASE KeyIsLost
  <2>1. UNCHANGED <<ui, stop>> /\ pty' = <<>>
    BY <1>4 DEF KeyIsLost, callerVars
  <2>2. EarlyKeys(pty')
    BY <2>1 DEF EarlyKeys
  <2> QED BY <2>1, <2>2 DEF EarlyInv, Early
<1>5. CASE AnswerSends
  <2>1. UNCHANGED <<ui, stop>> /\ Types("answer", <<"answer">>)
    BY <1>5 DEF AnswerSends, OfAnswer
  <2>2. [by |-> "answer", key |-> "answer"] \in Sent
    BY DEF Sent
  <2>3. \/ pty' = pty
        \/ /\ Len(pty') = Len(pty) + 1 /\ (\A i \in 1..Len(pty) : pty'[i] = pty[i])
           /\ pty'[Len(pty) + 1].by # "stop"
    BY <1>0, <2>1, <2>2, TypesKey
  <2>4. EarlyKeys(pty) => EarlyKeys(pty')
    BY <1>0, <2>3, EarlyKeysStep
  <2> QED BY <2>1, <2>4 DEF EarlyInv, Early
<1>6. CASE StopStep
  <2>1. UNCHANGED ui
    BY <1>6, StopSentKeys
  <2>2. ASSUME NEW key \in {"clear", "prompt", "enter"}, NEW at, NEW next,
               StopMoves(at, key, next), EarlyKeys(pty)
        PROVE  EarlyKeys(pty')
    <3>1. key \in StopKeys /\ Types("stop", <<key>>)
      BY <2>2 DEF StopKeys, StopMoves
    <3>2. \/ pty' = pty
          \/ /\ Len(pty') = Len(pty) + 1 /\ (\A i \in 1..Len(pty) : pty'[i] = pty[i])
             /\ pty'[Len(pty) + 1] = [by |-> "stop", key |-> key]
      BY <3>1, KeyComesLast
    <3> QED BY <1>0, <2>2, <3>2, EarlyKeysStep
  <2>3. CASE StopAsked
    <3>1. pty' = pty /\ Early /\ stop'.at = "clear" /\ stop'.job \in {"exit", "wrap-up"}
      BY <2>3 DEF StopAsked, NotAsked, Early
    <3> QED BY <2>1, <3>1 DEF EarlyInv, Early
  <2>4. CASE Captured
    BY <2>1, <2>4 DEF Captured, EarlyInv, Early
  <2>5. CASE Observes
    <3>1. pty' = pty /\ (stop' = stop \/ (stop'.job = "exit" /\ stop'.at = "clear"))
      BY <2>5 DEF Observes, KeysTypeOK
    <3> QED BY <2>1, <3>1 DEF EarlyInv, Early
  <2>6. CASE \/ StopMoves("escape", "escape", "settle-again")
             \/ StopMoves("exit", "exit", "menu") \/ StopMoves("exit", "exit", "asked")
             \/ StopMoves("press", "enter", "asked")
    <3>1. /\ stop.at \in {"escape", "exit", "press"} /\ stop'.job = stop.job
          /\ stop'.at \in {"settle-again", "menu", "asked"}
      BY <2>6 DEF StopMoves
    <3> QED BY <1>0, <3>1 DEF EarlyInv, Early
  <2>7. CASE \/ StopMoves("clear", "clear", "settle")
             \/ StopMoves("prompt", "prompt", "enter")
             \/ StopMoves("enter", "enter", "watching")
    <3>1. EarlyKeys(pty) => EarlyKeys(pty')
      BY <2>2, <2>7
    <3>2. /\ stop.at \in {"clear", "prompt", "enter"} /\ stop'.job = stop.job
          /\ stop'.at = IF stop.at = "clear" THEN "settle"
               ELSE IF stop.at = "prompt" THEN "enter" ELSE "watching"
      BY <2>7 DEF StopMoves
    <3> QED BY <1>0, <2>1, <3>1, <3>2 DEF EarlyInv, Early
  <2>8. CASE /\ pty' = pty /\ stop'.job = stop.job
             /\ \/ stop.at # "idle" /\ stop'.at \in {"failed", "refused"}
                \/ stop.at = "settle" /\ stop'.at = "look"
                \/ stop.at = "settle-again" /\ stop'.at = "look-again"
                \/ stop.at = "look" /\ stop'.at = "settle"
                \/ stop.at = "look-again" /\ stop'.at = "settle-again"
                \/ stop.at = "look" /\ stop.job = "exit" /\ stop'.at = "escape"
                \/ stop.at = "look" /\ stop.job # "exit" /\ stop'.at = "queued"
                \/ /\ \/ stop.at = "look-again"
                      \/ stop.at = "look" /\ stop.job = "exit"
                   /\ stop'.at = "exit"
                \/ stop.at = "queued" /\ stop'.at = "prompt"
                \/ stop.at = "menu" /\ stop'.at \in {"menu", "press", "asked"}
                \/ stop.at = "press" /\ stop'.at = "asked"
    BY <1>0, <2>1, <2>8 DEF EarlyInv, Early
  <2> QED BY <1>6, <2>3, <2>4, <2>5, <2>6, <2>7, <2>8, StopGoes
<1> QED BY <1>1, <1>2, <1>3, <1>4, <1>5, <1>6 DEF KeysNext, AgentStep, AnswerStep

-----------------------------------------------------------------------------
(* After it: a wrap up that was taken for over starts no other.            *)

DoneKeys(s, u) ==
  \A i \in 1..Len(s) : StopsKey(s, i) =>
    s[i].key # "prompt" /\ (s[i].key = "enter" => u.hold # "prompt")

DoneInv ==
  stop.done =>
    /\ stop.job = "exit" /\ stop.at # "idle" /\ wrapped # "waiting"
    /\ DoneKeys(pty, ui)
    /\ stop.at \in {"look", "look-again"} => (frame.of.hold # "prompt" => ui.hold # "prompt")
    /\ stop.at \in {"exit", "menu", "press"} => ui.hold # "prompt"

\* A key that comes last, or the first that goes, of a request that is done.
LEMMA DoneKeysStep ==
  ASSUME NEW s \in Seq(Sent), NEW t \in Seq(Sent), NEW u, NEW v, DoneKeys(s, u),
         v.hold = "prompt" => u.hold = "prompt",
         \/ t = s
         \/ /\ Len(t) = Len(s) + 1 /\ (\A i \in 1..Len(s) : t[i] = s[i])
            /\ \/ t[Len(s) + 1].by # "stop"
               \/ t[Len(s) + 1].key # "prompt" /\ (t[Len(s) + 1].key = "enter" => v.hold # "prompt")
         \/ Len(s) > 0 /\ Len(t) = Len(s) - 1 /\ \A i \in 1..(Len(s) - 1) : t[i] = s[i + 1]
  PROVE  DoneKeys(t, v)
<1>1. Len(s) \in Nat /\ Len(t) \in Nat
  OBVIOUS
<1>2. CASE t = s
  BY <1>2 DEF DoneKeys
<1>3. CASE /\ Len(t) = Len(s) + 1 /\ (\A i \in 1..Len(s) : t[i] = s[i])
           /\ \/ t[Len(s) + 1].by # "stop"
              \/ t[Len(s) + 1].key # "prompt" /\ (t[Len(s) + 1].key = "enter" => v.hold # "prompt")
  <2> SUFFICES ASSUME NEW i \in 1..Len(t), t[i].by = "stop"
               PROVE  t[i].key # "prompt" /\ (t[i].key = "enter" => v.hold # "prompt")
    BY DEF DoneKeys, StopsKey
  <2>1. CASE i = Len(s) + 1
    BY <1>3, <2>1
  <2>2. CASE i # Len(s) + 1
    <3>1. i \in 1..Len(s)
      BY <1>1, <1>3, <2>2
    <3> QED BY <1>3, <3>1 DEF DoneKeys, StopsKey
  <2> QED BY <2>1, <2>2
<1>4. CASE Len(s) > 0 /\ Len(t) = Len(s) - 1 /\ \A i \in 1..(Len(s) - 1) : t[i] = s[i + 1]
  <2>1. \A i \in 1..Len(t) : i + 1 \in 1..Len(s) /\ t[i] = s[i + 1]
    BY <1>1, <1>4
  <2> QED BY <2>1 DEF DoneKeys, StopsKey
<1> QED BY <1>2, <1>3, <1>4

-----------------------------------------------------------------------------
(* While it is watched.                                                    *)

\* How long the wrap up may still take to start: it was first in line when it
\* was sent, or since a turn ended.
Soon(idle, sent, ticks) ==
  \/ sent + ticks <= MaxStart /\ (idle # -1 => idle + SETTLE_DONE + ticks <= MaxStart)
  \/ ticks <= MaxGap /\ (idle # -1 => idle + ticks <= MaxGap)

Dated(w, drawn, u, ticks) ==
  /\ w.idle # -1 \/ w.read = "yes" \/ Rests(drawn) => InLine(u)
  /\ Starts(u) => Soon(w.idle, w.sent, ticks)
  /\ w.read = "yes" \/ Rests(drawn) => w.idle < SETTLE_DONE

\* A wrap up that is seen at rest but not over is the next to start, and its
\* time is shorter than the one the watch waits for.
WatchInv ==
  /\ wrapped = "waiting" => OnItsWay(ui)
  /\ due <= MaxStart \/ due <= MaxGap
  /\ watch.sent < SETTLE_DONE => watch.idle = -1
  /\ stop.at = "watching" /\ watch.sent > 0 =>
       /\ ~SomeOfStop(pty)
       /\ wrapped = "waiting" => Dated(watch, frame.of, ui, due)

\* What starts so soon was not seen at rest for as long as the watch waits.
LEMMA SoonIsEarly ==
  ASSUME NEW idle \in (-1)..SETTLE_DONE, NEW sent \in Nat, NEW ticks \in Nat, Soon(idle, sent, ticks)
  PROVE  idle < SETTLE_DONE
BY ExitKeysAssumption DEF Soon

\* An answer leaves what is in line, and brings nothing nearer.
LEMMA AnswerKeepsLine ==
  ASSUME NEW u \in Uis, NEW to \in Takes("answer", u), EarlyUi(u), u.spot # "gone"
  PROVE  /\ InLine(u) => InLine(to.u)
         /\ Starts(to.u) => Starts(u) /\ u.queue # <<>>
<1>1. to \in AnswerTakes(u) /\ u.spot # "exit-menu"
  BY Taken DEF EarlyUi
<1>2. to.u \in Answered(u) \/ to.u = u \/ to.u = [u EXCEPT !.hold = "draft"]
  BY <1>1, AnswerTaken
<1>3. to.u.turn = u.turn /\ to.u.queue = u.queue /\ to.u.spot \in {u.spot, "box"}
  <2>1. ASSUME to.u = u \/ to.u = [u EXCEPT !.hold = "draft"]
        PROVE  to.u.turn = u.turn /\ to.u.queue = u.queue /\ to.u.spot \in {u.spot, "box"}
    BY <2>1 DEF Uis
  <2> QED BY <1>1, <1>2, <2>1, AnsweredLeaves
<1> QED BY <1>3 DEF InLine, Starts, IsNext, Busy, EarlyUi

\* A key that goes leaves none of the stop's where there was none.
LEMMA StillNone ==
  ASSUME NEW s \in Seq(Sent), NEW t \in Seq(Sent), ~SomeOfStop(s),
         \/ t = s
         \/ /\ Len(t) = Len(s) + 1 /\ (\A i \in 1..Len(s) : t[i] = s[i])
            /\ t[Len(s) + 1].by # "stop"
         \/ Len(s) > 0 /\ Len(t) = Len(s) - 1 /\ \A i \in 1..(Len(s) - 1) : t[i] = s[i + 1]
  PROVE  ~SomeOfStop(t)
<1>1. Len(s) \in Nat /\ Len(t) \in Nat
  OBVIOUS
<1> SUFFICES ASSUME NEW i \in 1..Len(t), t[i].by = "stop" PROVE FALSE
  BY DEF SomeOfStop
<1>2. CASE t = s
  BY <1>2 DEF SomeOfStop
<1>3. CASE /\ Len(t) = Len(s) + 1 /\ (\A j \in 1..Len(s) : t[j] = s[j])
           /\ t[Len(s) + 1].by # "stop"
  <2>1. i # Len(s) + 1
    BY <1>3
  <2>2. i \in 1..Len(s) /\ s[i].by = "stop"
    BY <1>1, <1>3, <2>1
  <2> QED BY <2>2 DEF SomeOfStop
<1>4. CASE Len(s) > 0 /\ Len(t) = Len(s) - 1 /\ \A j \in 1..(Len(s) - 1) : t[j] = s[j + 1]
  <2>1. i + 1 \in 1..Len(s) /\ s[i + 1].by = "stop"
    BY <1>1, <1>4
  <2> QED BY <2>1 DEF SomeOfStop
<1> QED BY <1>2, <1>3, <1>4

\* The agent's own steps, while a wrap up is watched.
LEMMA AgentIsWatched ==
  ASSUME KeysTypeOK, KeysTypeOK', EarlyInv, WatchInv, AgentStep
  PROVE  WatchInv'
<1>0. /\ pty \in Seq(Sent) /\ pty' \in Seq(Sent) /\ ui \in Uis /\ ui' \in Uis
      /\ watch.idle \in (-1)..SETTLE_DONE /\ watch.sent \in Nat /\ due \in Nat /\ due' \in Nat
  BY ExitKeysAssumption DEF KeysTypeOK
<1>1. stop.at = "watching" => EarlyUi(ui)
  BY DEF EarlyInv, Early, KeysTypeOK
<1>2. CASE Draws
  <2>1. UNCHANGED <<ui, pty, stop, watch, wrapped, due>> /\ frame'.of = ui
    BY <1>2 DEF Draws, callerVars, historyVars
  <2>2. ASSUME stop.at = "watching" /\ watch.sent > 0, wrapped = "waiting"
        PROVE  Dated(watch, ui, ui, due)
    <3>1. Dated(watch, frame.of, ui, due) /\ OnItsWay(ui)
      BY <2>2 DEF WatchInv
    <3>2. Rests(ui) => Starts(ui) /\ InLine(ui)
      BY <1>0, <3>1, RestsInLine
    <3>3. Starts(ui) => watch.idle < SETTLE_DONE
      BY <1>0, <3>1, SoonIsEarly DEF Dated
    <3> QED BY <3>1, <3>2, <3>3 DEF Dated
  <2> QED BY <2>1, <2>2 DEF WatchInv
<1>3. CASE TurnEnds \/ StartsNext \/ SomethingMoves
  <2>1. UNCHANGED <<pty, frame, stop, watch>>
    BY <1>3, AgentMoves
  <2>2. /\ wrapped' = "waiting" => wrapped = "waiting" /\ (OnItsWay(ui) => OnItsWay(ui'))
        /\ EarlyUi(ui) /\ wrapped' = "waiting" /\ InLine(ui) => InLine(ui')
        /\ due' \in {due, MaxStart, MaxGap}
        /\ EarlyUi(ui) /\ Starts(ui') =>
             \/ due' = due /\ Starts(ui)
             \/ due' = MaxGap /\ (wrapped' = "waiting" => ~InLine(ui))
    BY <1>3, MovesLeave
  <2>3. ASSUME stop.at = "watching" /\ watch.sent > 0, wrapped' = "waiting"
        PROVE  Dated(watch, frame.of, ui', due')
    <3>1. Dated(watch, frame.of, ui, due) /\ EarlyUi(ui)
      BY <1>1, <2>2, <2>3 DEF WatchInv
    <3>2. Starts(ui') => Soon(watch.idle, watch.sent, due')
      <4>1. CASE due' = MaxGap /\ ~InLine(ui)
        <5>1. watch.idle = -1
          BY <3>1, <4>1 DEF Dated
        <5> QED BY <4>1, <5>1, ExitKeysAssumption DEF Soon
      <4>2. CASE due' = due /\ Starts(ui)
        BY <3>1, <4>2 DEF Dated
      <4> QED BY <2>2, <2>3, <3>1, <4>1, <4>2
    <3> QED BY <2>2, <2>3, <3>1, <3>2 DEF Dated
  <2>4. due' <= MaxStart \/ due' <= MaxGap
    BY <2>2, ExitKeysAssumption DEF WatchInv
  <2> QED BY <2>1, <2>2, <2>3, <2>4 DEF WatchInv
<1>4. CASE TakesKey
  <2>1. PICK sent \in Sent : \E to \in Takes(sent.key, ui) :
           /\ sent = pty[1] /\ 1 \in 1..Len(pty)
           /\ sent.by = "stop" \/ sent.key = "answer"
           /\ Len(pty) > 0 /\ Len(pty') = Len(pty) - 1
           /\ \A i \in 1..(Len(pty) - 1) : pty'[i] = pty[i + 1]
           /\ ui' = to.u
           /\ wrapped' = IF "wrap-up" \in Range(to.u.queue) \ Range(ui.queue) THEN "waiting"
                         ELSE IF wrapped = "waiting" /\ to.u.turn # "wrap-up"
                                   /\ "wrap-up" \notin Range(to.u.queue) THEN "over"
                         ELSE wrapped
           /\ due' = (IF ui.queue = <<>> THEN MaxStart ELSE due)
           /\ UNCHANGED <<stop, watch, frame, agent>>
    BY <1>4, TakenWraps
  <2>2. PICK to \in Takes(sent.key, ui) :
           /\ ui' = to.u
           /\ wrapped' = IF "wrap-up" \in Range(to.u.queue) \ Range(ui.queue) THEN "waiting"
                         ELSE IF wrapped = "waiting" /\ to.u.turn # "wrap-up"
                                   /\ "wrap-up" \notin Range(to.u.queue) THEN "over"
                         ELSE wrapped
    BY <2>1
  <2>3. UNCHANGED <<stop, watch, frame>> /\ due' = (IF ui.queue = <<>> THEN MaxStart ELSE due)
    BY <2>1
  <2>4. wrapped' = "waiting" => OnItsWay(ui')
    BY <2>2 DEF OnItsWay
  <2>5. ASSUME stop.at = "watching" /\ watch.sent > 0
        PROVE  ~SomeOfStop(pty') /\ (wrapped' = "waiting" => Dated(watch, frame.of, ui', due'))
    <3>1. ~SomeOfStop(pty)
      BY <2>5 DEF WatchInv
    <3>2. ~SomeOfStop(pty')
      BY <1>0, <2>1, <3>1, StillNone
    <3>3. sent.key = "answer" /\ ui.spot # "gone"
      BY <1>4, <2>1, <3>1 DEF SomeOfStop, TakesKey
    <3>4. /\ InLine(ui) => InLine(ui')
          /\ Starts(ui') => Starts(ui) /\ ui.queue # <<>>
      BY <1>0, <1>1, <2>2, <2>5, <3>3, AnswerKeepsLine
    <3>5. wrapped' = "waiting" => wrapped = "waiting"
      <4>1. "wrap-up" \in Range(to.u.queue) => "wrap-up" \in Range(ui.queue)
        BY <1>0, <2>2, <3>3, KeyLeaves
      <4> QED BY <2>2, <4>1
    <3>6. wrapped' = "waiting" => Dated(watch, frame.of, ui, due)
      BY <2>5, <3>5 DEF WatchInv
    <3> QED BY <2>3, <3>2, <3>4, <3>6 DEF Dated
  <2>6. due' <= MaxStart \/ due' <= MaxGap
    BY <2>3, ExitKeysAssumption DEF WatchInv
  <2> QED BY <2>3, <2>4, <2>5, <2>6 DEF WatchInv
<1>5. CASE KeyIsLost
  <2>1. UNCHANGED <<ui, stop, watch, frame, wrapped, due>> /\ pty' = <<>>
    BY <1>5 DEF KeyIsLost, callerVars, historyVars
  <2>2. ~SomeOfStop(pty')
    BY <2>1 DEF SomeOfStop
  <2> QED BY <2>1, <2>2 DEF WatchInv
<1> QED BY <1>2, <1>3, <1>4, <1>5 DEF AgentStep

\* A reading says yes only of what rests.
LEMMA WatchReads ==
  ASSUME KeysTypeOK, NEW rows \in Captures, WrapUpReading(agent, rows) = "yes"
  PROVE  Rests(frame.of)
<1>1. frame.of \in Uis /\ frame.torn \in BOOLEAN /\ agent \in {"claude", "agy"}
  BY DEF KeysTypeOK
<1>2. CASE rows = Pane(frame)
  BY <1>1, <1>2, FrameReads
<1>3. CASE rows = <<>>
  BY <1>1, <1>3, NoPaneReads
<1> QED BY <1>2, <1>3 DEF Captures

\* Time brings what rests nearer to its start.
LEMMA TimeIsWatched ==
  ASSUME SlowCaptures = FALSE, KeysTypeOK, WatchInv, Tick
  PROVE  WatchInv'
<1>0. /\ ui \in Uis /\ due \in Nat /\ SETTLE_DONE \in Nat /\ SETTLE_DONE > 0
      /\ watch.idle \in (-1)..SETTLE_DONE /\ watch.sent \in 0..SETTLE_DONE
  BY ExitKeysAssumption DEF KeysTypeOK
<1>1. /\ stop.at = "watching" /\ pty = <<>> /\ frame.of = ui /\ watch.read = "none"
      /\ UNCHANGED <<ui, pty, frame, stop, wrapped>>
  BY DEF Tick, Drawn, agentVars, historyVars
<1>2. PICK soon \in BOOLEAN : soon = Starts(ui)
  BY DEF Starts
<1>3. /\ soon => due > 0 /\ due' = due - 1
      /\ due' = due \/ (due' = due - 1 /\ due > 0)
  <2>1. PICK work : /\ work = (ui.spot = "box" /\ ~Busy(ui) /\ ui.queue # <<>>)
                    /\ (work => due > 0) /\ due' = IF work THEN due - 1 ELSE due
    BY DEF Tick
  <2>2. Starts(ui) => ui.spot = "box" /\ ~Busy(ui) /\ ui.queue # <<>>
    BY DEF Starts, IsNext
  <2> QED BY <1>2, <2>1, <2>2
<1>4. /\ watch'.sent = Later(watch.sent) /\ watch'.read = "none"
      /\ watch'.idle = IF watch.idle = -1 THEN -1 ELSE Later(watch.idle)
  BY <1>1 DEF Tick, KeysTypeOK
<1>5. /\ watch'.sent \in {watch.sent, watch.sent + 1} /\ watch'.sent > 0
      /\ watch'.sent < SETTLE_DONE => watch.sent < SETTLE_DONE
      /\ watch.idle = -1 <=> watch'.idle = -1
      /\ watch.idle # -1 => watch'.idle \in {watch.idle, watch.idle + 1}
      /\ watch'.idle \in (-1)..SETTLE_DONE
  BY <1>0, <1>4 DEF Later
<1>6. ~SomeOfStop(pty')
  BY <1>1 DEF SomeOfStop
<1>7. ASSUME wrapped = "waiting" PROVE Dated(watch', ui, ui, due')
  <2>1. Rests(ui) => Starts(ui) /\ InLine(ui)
    BY <1>0, <1>7, RestsInLine DEF WatchInv
  <2>2. watch'.idle # -1 => InLine(ui)
    <3>1. watch'.idle # -1 => watch.idle # -1 /\ watch.sent > 0
      BY <1>0, <1>5 DEF WatchInv
    <3> QED BY <1>1, <1>7, <3>1 DEF WatchInv, Dated
  <2>3. soon => Soon(watch'.idle, watch'.sent, due')
    <3>1. CASE watch.sent = 0
      <4>1. watch.idle = -1 /\ (due <= MaxStart \/ due <= MaxGap)
        BY <1>0, <3>1 DEF WatchInv
      <4> QED BY <1>0, <1>3, <1>5, <3>1, <4>1, ExitKeysAssumption DEF Soon
    <3>2. CASE watch.sent > 0
      <4>1. soon => Soon(watch.idle, watch.sent, due)
        BY <1>1, <1>2, <1>7, <3>2 DEF WatchInv, Dated
      <4> QED BY <1>0, <1>3, <1>5, <4>1, ExitKeysAssumption DEF Soon
    <3> QED BY <1>0, <3>1, <3>2
  <2>4. Rests(ui) => watch'.idle < SETTLE_DONE
    <3>1. due' \in Nat /\ watch'.sent \in Nat
      BY <1>0, <1>3, <1>5
    <3> QED BY <1>2, <1>5, <2>1, <2>3, <3>1, SoonIsEarly
  <2> QED BY <1>2, <1>4, <2>1, <2>2, <2>3, <2>4 DEF Dated
<1>8. due' <= MaxStart \/ due' <= MaxGap
  BY <1>0, <1>3, ExitKeysAssumption DEF WatchInv
<1>9. watch'.sent < SETTLE_DONE => watch'.idle = -1
  BY <1>5 DEF WatchInv
<1> QED BY <1>1, <1>6, <1>7, <1>8, <1>9 DEF WatchInv

\* The looks of the watch itself.
LEMMA LooksAreWatched ==
  ASSUME KeysTypeOK, WatchInv, Captured \/ Observes
  PROVE  /\ WatchInv'
         /\ Observes /\ Finished(watch) => wrapped # "waiting" /\ ~SomeOfStop(pty)
<1>0. /\ due \in Nat /\ SETTLE_DONE \in Nat /\ SETTLE_DONE > 0
      /\ watch.idle \in (-1)..SETTLE_DONE /\ watch.sent \in 0..SETTLE_DONE
  BY ExitKeysAssumption DEF KeysTypeOK
<1>1. stop.at = "watching" /\ UNCHANGED <<ui, pty, frame, wrapped, due>>
  BY DEF Captured, Observes, OfStop
<1>2. CASE Captured
  <2>1. stop' = stop
    BY <1>2 DEF Captured
  <2>2. PICK rows \in Captures : watch' = [watch EXCEPT !.read = WrapUpReading(agent, rows)]
    BY <1>2 DEF Captured
  <2>3. watch'.sent = watch.sent /\ watch'.idle = watch.idle /\ watch'.read = WrapUpReading(agent, rows)
    BY <2>2 DEF KeysTypeOK
  <2>4. watch'.read = "yes" => Rests(frame.of)
    BY <2>3, WatchReads
  <2>5. ASSUME Dated(watch, frame.of, ui, due) PROVE Dated(watch', frame.of, ui, due)
    BY <2>3, <2>4, <2>5 DEF Dated
  <2>6. ~Observes
    BY <1>2 DEF Captured, Observes
  <2> QED BY <1>1, <2>1, <2>3, <2>5, <2>6 DEF WatchInv
<1>3. CASE Observes
  <2>1. watch' = [watch EXCEPT !.read = "none", !.idle = Observed(watch)]
    BY <1>3 DEF Observes
  <2>2. watch'.sent = watch.sent /\ watch'.read = "none" /\ watch'.idle = Observed(watch)
    BY <2>1 DEF KeysTypeOK
  <2>3. /\ watch.sent < SETTLE_DONE => watch'.idle = watch.idle
        /\ watch.sent >= SETTLE_DONE => \/ watch'.idle = -1
                                        \/ watch.read = "yes" /\ watch.idle = -1 /\ watch'.idle = 0
                                        \/ watch.read = "yes" /\ watch'.idle = watch.idle
    BY <1>0, <2>2 DEF Observed
  <2>4. ASSUME watch.sent > 0, Dated(watch, frame.of, ui, due) PROVE Dated(watch', frame.of, ui, due)
    <3>1. watch'.idle # -1 => InLine(ui)
      BY <1>0, <2>3, <2>4 DEF Dated
    <3>2. Starts(ui) => Soon(watch'.idle, watch'.sent, due)
      BY <1>0, <2>2, <2>3, <2>4, ExitKeysAssumption DEF Dated, Soon
    <3>3. Rests(frame.of) => watch'.idle < SETTLE_DONE
      BY <1>0, <2>3, <2>4 DEF Dated
    <3> QED BY <2>2, <2>4, <3>1, <3>2, <3>3 DEF Dated
  <2>5. watch'.sent < SETTLE_DONE => watch'.idle = -1
    BY <1>0, <2>2, <2>3 DEF WatchInv
  <2>6. Finished(watch) => wrapped # "waiting" /\ ~SomeOfStop(pty)
    <3>1. Finished(watch) => watch.sent > 0 /\ watch.read = "yes" /\ ~(watch.idle < SETTLE_DONE)
      BY <1>0 DEF Finished
    <3> QED BY <1>1, <3>1 DEF WatchInv, Dated
  <2> QED BY <1>1, <2>2, <2>4, <2>5, <2>6 DEF WatchInv
<1> QED BY <1>2, <1>3

\* Every step keeps what the watch may conclude.
LEMMA WatchStep ==
  ASSUME SlowCaptures = FALSE, KeysTypeOK, KeysTypeOK', EarlyInv, WatchInv, [KeysNext]_keysVars
  PROVE  WatchInv'
<1>0. pty \in Seq(Sent) /\ pty' \in Seq(Sent) /\ SETTLE_DONE \in Nat /\ SETTLE_DONE > 0
  BY ExitKeysAssumption DEF KeysTypeOK
<1>1. CASE AgentStep
  BY <1>1, AgentIsWatched
<1>2. CASE Tick
  BY <1>2, TimeIsWatched
<1>3. CASE AnswerLooks \/ UNCHANGED keysVars
  <2>1. UNCHANGED <<ui, pty, frame, stop, watch, wrapped, due>>
    BY <1>3 DEF AnswerLooks, OfAnswer, keysVars, agentVars, callerVars, historyVars
  <2> QED BY <2>1 DEF WatchInv
<1>4. CASE AnswerSends
  <2>1. UNCHANGED <<ui, frame, stop, watch, wrapped, due>> /\ Types("answer", <<"answer">>)
    BY <1>4 DEF AnswerSends, OfAnswer
  <2>2. [by |-> "answer", key |-> "answer"] \in Sent
    BY DEF Sent
  <2>3. \/ pty' = pty
        \/ /\ Len(pty') = Len(pty) + 1 /\ (\A i \in 1..Len(pty) : pty'[i] = pty[i])
           /\ pty'[Len(pty) + 1].by # "stop"
    BY <1>0, <2>1, <2>2, TypesKey
  <2>4. ~SomeOfStop(pty) => ~SomeOfStop(pty')
    BY <1>0, <2>3, StillNone
  <2> QED BY <2>1, <2>4 DEF WatchInv
<1>5. CASE StopStep
  <2>1. UNCHANGED <<ui, frame, wrapped, due>>
    BY <1>5, StopSentKeys
  <2>2. CASE Captured \/ Observes
    BY <2>2, LooksAreWatched
  <2>3. CASE SendsEnter
    <3>1. watch'.sent = 0 /\ watch'.idle = -1
      BY <2>3 DEF SendsEnter, NoWatch
    <3> QED BY <1>0, <2>1, <3>1 DEF WatchInv
  <2>4. CASE ~(Captured \/ Observes \/ SendsEnter)
    <3>1. watch' = watch
      BY <1>5, <2>4 DEF StopStep, StopAsked, Unreachable, SendsClear, Settles, RequiresClear,
        SendsEscape,
         SendsExit, LooksForMenu, Presses, Unanswered, LooksForQueued, SendsPrompt, Sends
    <3>2. stop'.at # "watching"
      <4>1. CASE StopAsked
        BY <4>1 DEF StopAsked, NotAsked
      <4> QED BY <1>5, <2>4, <4>1, StopGoes DEF StopMoves
    <3> QED BY <2>1, <3>1, <3>2 DEF WatchInv
  <2> QED BY <2>2, <2>3, <2>4
<1> QED BY <1>1, <1>2, <1>3, <1>4, <1>5 DEF KeysNext, AnswerStep

\* And what a request that is done may still do.
LEMMA DoneStep ==
  ASSUME KeysTypeOK, KeysTypeOK', EarlyInv, WatchInv, DoneInv, [KeysNext]_keysVars
  PROVE  DoneInv'
<1>0. pty \in Seq(Sent) /\ pty' \in Seq(Sent) /\ ui \in Uis
  BY DEF KeysTypeOK
<1>1. CASE Tick \/ AnswerLooks \/ UNCHANGED keysVars
  <2>1. UNCHANGED <<ui, pty, frame, stop, wrapped>>
    BY <1>1 DEF Tick, AnswerLooks, OfAnswer, keysVars, agentVars, callerVars, historyVars
  <2> QED BY <2>1 DEF DoneInv
<1>2. CASE Draws
  <2>1. UNCHANGED <<ui, pty, stop, wrapped>> /\ frame'.of = ui
    BY <1>2 DEF Draws, callerVars, historyVars
  <2> QED BY <2>1 DEF DoneInv
<1>3. CASE TurnEnds \/ StartsNext \/ SomethingMoves
  <2>1. UNCHANGED <<pty, frame, stop>>
    BY <1>3, AgentMoves
  <2>2. (ui'.hold = "prompt" => ui.hold = "prompt") /\ (wrapped' = "waiting" => wrapped = "waiting")
    BY <1>3, MovesLeave
  <2>3. DoneKeys(pty, ui) => DoneKeys(pty', ui')
    BY <1>0, <2>1, <2>2, DoneKeysStep
  <2> QED BY <2>1, <2>2, <2>3 DEF DoneInv
<1>4. CASE TakesKey
  <2>1. PICK sent \in Sent : \E to \in Takes(sent.key, ui) :
           /\ sent = pty[1] /\ 1 \in 1..Len(pty) /\ sent.key \in StopKeys \cup {"answer"}
           /\ sent.by = "stop" \/ sent.key = "answer"
           /\ Len(pty) > 0 /\ Len(pty') = Len(pty) - 1
           /\ \A i \in 1..(Len(pty) - 1) : pty'[i] = pty[i + 1]
           /\ ui' = to.u
           /\ wrapped' = IF "wrap-up" \in Range(to.u.queue) \ Range(ui.queue) THEN "waiting"
                         ELSE IF wrapped = "waiting" /\ to.u.turn # "wrap-up"
                                   /\ "wrap-up" \notin Range(to.u.queue) THEN "over"
                         ELSE wrapped
           /\ UNCHANGED <<stop, watch, frame, agent>>
    BY <1>4, TakenWraps
  <2>2. PICK to \in Takes(sent.key, ui) :
           /\ ui' = to.u
           /\ wrapped' = IF "wrap-up" \in Range(to.u.queue) \ Range(ui.queue) THEN "waiting"
                         ELSE IF wrapped = "waiting" /\ to.u.turn # "wrap-up"
                                   /\ "wrap-up" \notin Range(to.u.queue) THEN "over"
                         ELSE wrapped
    BY <2>1
  <2>3. UNCHANGED <<stop, frame>>
    BY <2>1
  <2>4. ASSUME DoneKeys(pty, ui), wrapped # "waiting"
        PROVE  DoneKeys(pty', ui') /\ wrapped' # "waiting" /\ (ui'.hold = "prompt" => ui.hold = "prompt")
    <3>1. sent.key # "prompt" /\ (sent.key = "enter" => ui.hold # "prompt")
      BY <2>1, <2>4 DEF DoneKeys, StopsKey
    <3>2. /\ ui'.hold = "prompt" => ui.hold = "prompt"
          /\ "wrap-up" \in Range(to.u.queue) => "wrap-up" \in Range(ui.queue)
      BY <1>0, <2>1, <2>2, <3>1, KeyLeaves
    <3>3. DoneKeys(pty', ui')
      BY <1>0, <2>1, <2>4, <3>2, DoneKeysStep
    <3> QED BY <2>2, <2>4, <3>2, <3>3
  <2> QED BY <2>3, <2>4 DEF DoneInv
<1>5. CASE KeyIsLost
  <2>1. UNCHANGED <<ui, stop, frame, wrapped>> /\ pty' = <<>>
    BY <1>5 DEF KeyIsLost, callerVars, historyVars
  <2>2. DoneKeys(pty', ui')
    BY <2>1 DEF DoneKeys
  <2> QED BY <2>1, <2>2 DEF DoneInv
<1>6. CASE AnswerSends
  <2>1. UNCHANGED <<ui, frame, stop, wrapped>> /\ Types("answer", <<"answer">>)
    BY <1>6 DEF AnswerSends, OfAnswer
  <2>2. [by |-> "answer", key |-> "answer"] \in Sent
    BY DEF Sent
  <2>3. \/ pty' = pty
        \/ /\ Len(pty') = Len(pty) + 1 /\ (\A i \in 1..Len(pty) : pty'[i] = pty[i])
           /\ pty'[Len(pty) + 1].by # "stop"
    BY <1>0, <2>1, <2>2, TypesKey
  <2>4. DoneKeys(pty, ui) => DoneKeys(pty', ui')
    BY <1>0, <2>1, <2>3, DoneKeysStep
  <2> QED BY <2>1, <2>4 DEF DoneInv
<1>7. CASE StopStep
  <2>1. UNCHANGED <<ui, frame, wrapped>>
    BY <1>7, StopSentKeys
  <2>2. ASSUME NEW key \in StopKeys, NEW at, NEW next, StopMoves(at, key, next),
               key # "prompt", key = "enter" => ui.hold # "prompt", DoneKeys(pty, ui)
        PROVE  DoneKeys(pty', ui')
    <3>1. \/ pty' = pty
          \/ /\ Len(pty') = Len(pty) + 1 /\ (\A i \in 1..Len(pty) : pty'[i] = pty[i])
             /\ pty'[Len(pty) + 1] = [by |-> "stop", key |-> key]
      BY <2>2, KeyComesLast DEF StopMoves
    <3>2. \/ pty' = pty
          \/ /\ Len(pty') = Len(pty) + 1 /\ (\A i \in 1..Len(pty) : pty'[i] = pty[i])
             /\ pty'[Len(pty) + 1].key = key
      BY <3>1
    <3>3. ui'.hold = "prompt" => ui.hold = "prompt"
      BY <2>1
    <3>4. key = "enter" => ui'.hold # "prompt"
      BY <2>1, <2>2
    <3> QED BY <1>0, <2>2, <3>2, <3>3, <3>4, DoneKeysStep
  <2>3. CASE StopAsked
    <3>1. ~stop'.done
      BY <2>3 DEF StopAsked, NotAsked
    <3> QED BY <3>1 DEF DoneInv
  <2>4. CASE Captured
    BY <2>1, <2>4 DEF Captured, DoneInv
  <2>5. CASE Observes
    <3>1. PICK over \in BOOLEAN : over = Finished(watch)
      BY DEF Finished
    <3>2. /\ pty' = pty /\ stop.at = "watching"
          /\ stop' = stop \/ stop' = [stop EXCEPT !.job = "exit", !.at = "clear", !.done = over]
      BY <2>5, <3>1 DEF Observes
    <3>3. ASSUME stop' = [stop EXCEPT !.job = "exit", !.at = "clear", !.done = over]
          PROVE  stop'.job = "exit" /\ stop'.at = "clear" /\ stop'.done = over
      BY <3>3 DEF KeysTypeOK
    <3>4. over => wrapped # "waiting" /\ ~SomeOfStop(pty)
      BY <2>5, <3>1, LooksAreWatched
    <3>5. over => DoneKeys(pty, ui)
      BY <3>4 DEF DoneKeys, SomeOfStop, StopsKey
    <3>6. CASE stop' = stop
      BY <2>1, <3>2, <3>6 DEF DoneInv
    <3>7. CASE stop' = [stop EXCEPT !.job = "exit", !.at = "clear", !.done = over]
      BY <2>1, <3>2, <3>3, <3>4, <3>5, <3>7 DEF DoneInv
    <3> QED BY <3>2, <3>6, <3>7
  <2>6. CASE StopMoves("prompt", "prompt", "enter") \/ StopMoves("enter", "enter", "watching")
    <3>1. ~stop.done /\ stop'.done = stop.done
      <4>1. stop.at \in {"prompt", "enter"} /\ stop'.done = stop.done
        BY <2>6 DEF StopMoves
      <4>2. stop.job = "exit" => FALSE
        BY <4>1 DEF EarlyInv
      <4> QED BY <4>1, <4>2 DEF DoneInv
    <3>2. ~stop'.done
      BY <3>1
    <3> QED BY <3>2 DEF DoneInv
  <2>7. CASE \/ StopMoves("clear", "clear", "settle")
             \/ StopMoves("escape", "escape", "settle-again")
             \/ StopMoves("exit", "exit", "menu") \/ StopMoves("exit", "exit", "asked")
             \/ StopMoves("press", "enter", "asked")
    <3>1. DoneInv /\ stop.done => DoneKeys(pty', ui')
      <4>1. stop.done /\ stop.at = "press" => ui.hold # "prompt"
        BY DEF DoneInv
      <4>2. CASE StopMoves("clear", "clear", "settle")
        BY <2>2, <4>2 DEF StopKeys, DoneInv
      <4>3. CASE StopMoves("escape", "escape", "settle-again")
        BY <2>2, <4>3 DEF StopKeys, DoneInv
      <4>4. CASE StopMoves("exit", "exit", "menu") \/ StopMoves("exit", "exit", "asked")
        BY <2>2, <4>4 DEF StopKeys, DoneInv
      <4>5. CASE StopMoves("press", "enter", "asked")
        <5>1. stop.at = "press"
          BY <4>5 DEF StopMoves
        <5> QED BY <2>2, <4>1, <4>5, <5>1 DEF StopKeys, DoneInv
      <4> QED BY <2>7, <4>2, <4>3, <4>4, <4>5
    <3>2. /\ stop'.at \in {"settle", "settle-again", "menu", "asked"}
          /\ stop'.at = "menu" => stop.at = "exit"
          /\ stop'.job = stop.job /\ stop'.done = stop.done
      BY <2>7 DEF StopMoves
    <3> QED BY <2>1, <3>1, <3>2 DEF DoneInv
  <2>8. CASE /\ pty' = pty /\ stop'.job = stop.job /\ stop'.done = stop.done
             /\ \/ stop.at # "idle" /\ stop'.at \in {"failed", "refused"}
                \/ stop.at = "settle" /\ stop'.at = "look" /\ Drawn
                \/ stop.at = "settle-again" /\ stop'.at = "look-again" /\ Drawn
                \/ stop.at = "look" /\ stop'.at = "settle"
                \/ stop.at = "look-again" /\ stop'.at = "settle-again"
                \/ stop.at = "look" /\ stop.job = "exit" /\ stop'.at = "escape"
                \/ stop.at = "look" /\ stop.job # "exit" /\ stop'.at = "queued"
                \/ /\ \/ stop.at = "look-again"
                      \/ stop.at = "look" /\ stop.job = "exit"
                   /\ stop'.at = "exit" /\ Empty(frame.of)
                \/ stop.at = "queued" /\ stop'.at = "prompt"
                \/ stop.at = "menu" /\ stop'.at \in {"menu", "press", "asked"}
                \/ stop.at = "press" /\ stop'.at = "asked"
    <3>1. DoneKeys(pty, ui) => DoneKeys(pty', ui')
      BY <2>1, <2>8
    <3>2. stop'.at # "idle"
      BY <2>8
    <3>3. stop.done /\ stop'.at \in {"look", "look-again"} =>
            (frame'.of.hold # "prompt" => ui'.hold # "prompt")
      BY <2>1, <2>8 DEF Drawn
    <3>4. stop.done /\ stop'.at \in {"exit", "menu", "press"} => ui'.hold # "prompt"
      <4>1. stop'.at \in {"exit", "menu", "press"} =>
              \/ stop.at = "menu"
              \/ stop.at \in {"look", "look-again"} /\ Empty(frame.of)
        BY <2>8
      <4> QED BY <2>1, <4>1 DEF DoneInv, Empty
    <3> QED BY <2>1, <2>8, <3>1, <3>2, <3>3, <3>4 DEF DoneInv
  <2> QED BY <1>7, <2>3, <2>4, <2>5, <2>6, <2>7, <2>8, StopGoes
<1> QED BY <1>1, <1>2, <1>3, <1>4, <1>5, <1>6, <1>7 DEF KeysNext, AgentStep, AnswerStep

\* At the start nothing is watched and nothing is done.
LEMMA WrapInit == KeysInit => EarlyInv /\ WatchInv /\ DoneInv
<1> SUFFICES ASSUME KeysInit PROVE EarlyInv /\ WatchInv /\ DoneInv
  OBVIOUS
<1>1. /\ pty = <<>> /\ stop = NotAsked /\ watch = NoWatch /\ wrapped = "no" /\ due = MaxStart
  BY DEF KeysInit
<1>2. ui.spot = "box" /\ ui.queue = <<>>
  BY DEF KeysInit, AtRest
<1>3. EarlyUi(ui) /\ EarlyKeys(pty)
  BY <1>1, <1>2 DEF EarlyUi, EarlyKeys, Range
<1>4. EarlyInv
  BY <1>1, <1>3 DEF EarlyInv, Early, NotAsked
<1>5. WatchInv
  BY <1>1, ExitKeysAssumption DEF WatchInv, NoWatch, NotAsked
<1>6. DoneInv
  BY <1>1 DEF DoneInv, NotAsked
<1> QED BY <1>4, <1>5, <1>6

\* What the sweep's `observe` takes for the end of a wrap up is one, where a
\* capture is no older than its time stamp: neither the moment before its turn
\* begins nor the gap after the turn it waited for lasts two idle looks as far
\* apart as `_SETTLE_DONE_S`.
THEOREM WrapUpSeenOver ==
  ASSUME SlowCaptures = FALSE
  PROVE  KeysSpec => []WrapUpIsOver
<1> DEFINE WrapInv == EarlyInv /\ WatchInv /\ DoneInv
<1>1. KeysInit => WrapInv
  BY WrapInit
<1>2. KeysTypeOK /\ KeysInv /\ WrapInv /\ [KeysNext]_keysVars => WrapInv'
  BY KeysStepTypes, EarlyStep, WatchStep, DoneStep DEF KeysInv
<1>3. WrapInv => WrapUpIsOver
  BY DEF DoneInv, WrapUpIsOver
<1> QED BY <1>1, <1>2, <1>3, KeysAlways, PTL DEF KeysSpec

-----------------------------------------------------------------------------
(* A signal to a number.                                                   *)

USE ActorsAssumption, PidsAssumption, BoundsAssumption

Live(a) == handle[a] = "live"

(* A live handle is of the process that has the number now: one that exits *)
(* leaves the handle dead, whoever is given the number next.               *)
LiveHasNumber ==
  \A a \in Actors : Live(a) =>
    /\ pc[a] \in {"verifyPs", "verify", "cwd", "send"}
    /\ target[a] \in Pids /\ proc[target[a]] # "none"

PaneHoldsAgent ==
  /\ ~session => pane = NoPid
  /\ pane # NoPid => proc[pane] \in Agents

\* What `ps` read of a process whose handle was open by then stays true of it,
\* but for the terminal that held it.
ReadAfterHandle ==
  \A a \in Actors : pc[a] = "verify" /\ Live(a) =>
    LET p == target[a]
    IN  \/ snap[a][p] = proc[p]
        \/ snap[a][p] = "held" /\ proc[p] = "ours"

CheckedIsDetached ==
  \A t \in Threads : pc[t] \in {"cwd", "send"} /\ Live(t) =>
    /\ proc[target[t]] \in {"ours", "other"}
    /\ pane # target[t]
    /\ pc[t] = "send" => proc[target[t]] = "ours"

HandleInv ==
  LiveHasNumber /\ PaneHoldsAgent /\ ReadAfterHandle /\ CheckedIsDetached

(* While the agent the expiry began with is in the pane, what the two looks *)
(* saw there was that agent.  It needs a start that cannot be given the     *)
(* number of an agent that is being looked at.                              *)
LooksAreTheTargets ==
  LET p == target[Ticker]
  IN  /\ pc[Ticker] \in {"firstPs", "firstPid", "firstScreen"} =>
           \A q \in Pids : looks[q] = {}
      /\ pc[Ticker] \in {"settle", "secondPid", "secondScreen"} /\ pane = p =>
           looks[p] = {"first"}
      /\ pc[Ticker] \in {"open", "verifyPs", "verify"} /\ pane = p =>
           looks[p] = {"first", "second"}
      /\ pc[Ticker] = "send" /\ Live(Ticker) =>
           looks[p] = {"first", "second"} /\ proc[p] \in Agents

-----------------------------------------------------------------------------
(* Types.                                                                  *)

\* A call that returns leaves every type.
LEMMA ReturnTypes ==
  ASSUME TypeOK, NEW a \in Actors, Return(a)
  PROVE  /\ pc' \in [Actors -> PCs]
         /\ snap' \in [Actors -> [Pids -> Kinds]]
         /\ target' \in [Actors -> Pids \cup {NoPid}]
         /\ confirm' \in [Actors -> Pids \cup {NoPid}]
         /\ handle' \in [Actors -> {"none", "live", "dead"}]
         /\ requests' \in Nat
         /\ \A b \in Actors : pc'[b] \in HasTarget => target'[b] \in Pids
<1>1. "idle" \in PCs /\ "idle" \notin HasTarget
  BY DEF PCs, HasTarget
<1>2. pc' = [pc EXCEPT ![a] = "idle"] /\ target' = [target EXCEPT ![a] = NoPid]
  BY DEF Return, Goto
<1>3. [p \in Pids |-> "none"] \in [Pids -> Kinds]
  BY DEF Kinds
<1>4. snap' \in [Actors -> [Pids -> Kinds]]
  BY <1>3 DEF Return, TypeOK
<1>5. confirm' \in [Actors -> Pids \cup {NoPid}]
  BY DEF Return, TypeOK
<1>6. handle' \in [Actors -> {"none", "live", "dead"}]
  BY DEF Return, TypeOK
<1>7. requests' \in Nat
  BY DEF Return, TypeOK
<1> QED
  BY <1>1, <1>2, <1>4, <1>5, <1>6, <1>7 DEF TypeOK

\* Every step leaves every type.
LEMMA TypeStep ==
  ASSUME TypeOK, [Next]_vars
  PROVE  TypeOK'
<1> USE DEF TypeOK
<1>u. Ticker \in Actors /\ \A t \in Threads : t \in Actors
  BY DEF Actors
<1>0. CASE UNCHANGED vars
  BY <1>0 DEF vars, machineVars, signalVars, localVars
<1>1. ASSUME NEW p \in Pids, Exits(p)
      PROVE  TypeOK'
  BY <1>1, <1>u DEF Exits, Kinds, PCs, HasTarget
<1>2. ASSUME NEW p \in Pids, Start(p)
      PROVE  TypeOK'
  BY <1>2, <1>u DEF Start, Born, signalVars, localVars, Kinds, PCs, HasTarget
<1>3. ASSUME NEW p \in Pids, HolderCloses(p)
      PROVE  TypeOK'
  BY <1>3, <1>u DEF HolderCloses, signalVars, localVars, Kinds, PCs, HasTarget
<1>4. ASSUME NEW p \in Pids, NEW kind \in {"held", "other", "stranger"},
               Appears(p, kind)
      PROVE  TypeOK'
  BY <1>4, <1>u DEF Appears, Born, signalVars, localVars, Kinds, PCs, HasTarget
<1>5. CASE PaneCloses
  BY <1>5, <1>u DEF PaneCloses, signalVars, localVars, Kinds, PCs, HasTarget
<1>6. CASE ScreenChanges
  BY <1>6, <1>u DEF ScreenChanges, signalVars, localVars, Kinds, PCs, HasTarget
<1>7. ASSUME NEW t \in Threads, Request(t)
      PROVE  TypeOK'
  BY <1>7, <1>u DEF Request, Goto, machineVars, signalVars, DetachedPids,
     Kinds, PCs, HasTarget
<1>8. ASSUME NEW t \in Threads, Derive(t)
      PROVE  TypeOK'
  BY <1>8, <1>u DEF Derive, Goto, machineVars, signalVars, Kinds, PCs,
     HasTarget
<1>9. ASSUME NEW t \in Threads, VerifyDetached(t)
      PROVE  TypeOK'
  BY <1>9, <1>u DEF VerifyDetached, Goto, machineVars, signalVars, localVars,
     Kinds, PCs, HasTarget
<1>10. ASSUME NEW t \in Threads, CheckCwd(t)
      PROVE  TypeOK'
  BY <1>10, <1>u DEF CheckCwd, Goto, machineVars, signalVars, localVars,
     Kinds, PCs, HasTarget
<1>11. ASSUME NEW t \in Threads, Send(t)
      PROVE  TypeOK'
  BY <1>11, <1>u, ReturnTypes DEF Send, machineVars
<1>12. CASE Expire
  BY <1>12, <1>u DEF Expire, Goto, machineVars, Kinds, PCs, HasTarget
<1>13. CASE FirstPs
  BY <1>13, <1>u DEF FirstPs, ReadPs, Goto, machineVars, signalVars, Kinds,
     PCs, HasTarget
<1>14. CASE FirstPid
  BY <1>14, <1>u DEF FirstPid, RunningPids, Goto, machineVars, signalVars,
     Kinds, PCs, HasTarget
<1>15. CASE FirstScreen
  BY <1>15, <1>u DEF FirstScreen, ScreenAsks, Goto, machineVars, localVars,
     Kinds, PCs, HasTarget
<1>16. CASE SecondPs
  BY <1>16, <1>u DEF SecondPs, ReadPs, Goto, machineVars, signalVars, Kinds,
     PCs, HasTarget
<1>17. CASE SecondPid
  BY <1>17, <1>u DEF SecondPid, Goto, machineVars, signalVars, localVars,
     Kinds, PCs, HasTarget
<1>18. CASE SecondScreen
  BY <1>18, <1>u DEF SecondScreen, ScreenAsks, Goto, machineVars, localVars,
     Kinds, PCs, HasTarget
<1>19. CASE VerifyRunning
  BY <1>19, <1>u DEF VerifyRunning, Goto, machineVars, signalVars, localVars,
     Kinds, PCs, HasTarget
<1>20. CASE SendHangup
  BY <1>20, <1>u, ReturnTypes DEF SendHangup, machineVars
<1>21. ASSUME NEW a \in Actors, Open(a)
      PROVE  TypeOK'
  BY <1>21, <1>u DEF Open, Goto, machineVars, signalVars, Kinds, PCs, HasTarget
<1>22. ASSUME NEW a \in Actors, VerifyPs(a)
      PROVE  TypeOK'
  BY <1>22, <1>u DEF VerifyPs, ReadPs, Goto, machineVars, signalVars, Kinds,
     PCs, HasTarget
<1>23. ASSUME NEW a \in Actors, Refused(a)
      PROVE  TypeOK'
  BY <1>23, <1>u, ReturnTypes DEF Refused, machineVars, signalVars
<1> QED
  BY <1>0, <1>1, <1>2, <1>3, <1>4, <1>5, <1>6, <1>7, <1>8, <1>9, <1>10,
     <1>11, <1>12, <1>13, <1>14, <1>15, <1>16, <1>17, <1>18, <1>19, <1>20,
     <1>21, <1>22, <1>23
  DEF Next, MachineStep, SignalStep, ExpiryStep

\* Every variable keeps its type, and nobody acts on a pid it did not read.
THEOREM TypeCorrect == Spec => []TypeOK
<1>1. Init => TypeOK
  BY DEF Init, TypeOK, Kinds, Actors, PCs, HasTarget
<1> QED
  BY <1>1, TypeStep, PTL DEF Spec

-----------------------------------------------------------------------------
(* Handles.                                                                *)

\* An agent that exits takes its session along if it was the one in the pane.
LEMMA ExitsPane ==
  ASSUME NEW p \in Pids, Exits(p)
  PROVE  \/ pane = p /\ pane' = NoPid
         \/ pane # p /\ pane' = pane /\ session' = session
<1>1. CASE pane = p
  BY <1>1 DEF Exits
<1>2. CASE pane # p
  BY <1>2 DEF Exits
<1> QED
  BY <1>1, <1>2

\* No step, of a thread, of the sweep or of the machine, breaks what a handle says.
LEMMA HandleStep ==
  ASSUME TypeOK, HandleInv, [Next]_vars
  PROVE  HandleInv'
<1> USE DEF TypeOK, Live, Goto, HandleInv, LiveHasNumber, PaneHoldsAgent,
           ReadAfterHandle, CheckedIsDetached, HasTarget, Agents
<1>u. Ticker \in Actors /\ \A t \in Threads : t \in Actors /\ t # Ticker
  BY DEF Actors
<1>0. CASE UNCHANGED vars
  BY <1>0 DEF vars, machineVars, signalVars, localVars
<1>1. ASSUME NEW p \in Pids, Exits(p)
      PROVE  HandleInv'
  <2>a. /\ \A q \in Pids : q # p => proc'[q] = proc[q]
        /\ proc'[p] = "none" /\ proc[p] # "none"
    BY <1>1 DEF Exits
  <2>b. \A a \in Actors : handle'[a] = "live" =>
           handle[a] = "live" /\ target[a] # p
    BY <1>1 DEF Exits
  <2>c. pc' = pc /\ snap' = snap /\ target' = target
    BY <1>1 DEF Exits
  <2>1. /\ \A q \in Pids : q # p => proc'[q] = proc[q]
        /\ proc'[p] = "none" /\ proc[p] # "none"
        /\ \A a \in Actors : handle'[a] = "live" =>
             handle[a] = "live" /\ target[a] # p
        /\ pc' = pc /\ snap' = snap /\ target' = target
    BY <2>a, <2>b, <2>c
  <2>2. \/ pane = p /\ pane' = NoPid
        \/ pane # p /\ pane' = pane /\ session' = session
    BY <1>1, ExitsPane
  <2>3. LiveHasNumber'
    BY <2>1
  <2>4. PaneHoldsAgent'
    BY <2>1, <2>2
  <2>5. ReadAfterHandle'
    BY <2>1
  <2>6. CheckedIsDetached'
    BY <2>1, <2>2, <1>u
  <2> QED
    BY <2>3, <2>4, <2>5, <2>6
<1>2. ASSUME NEW p \in Pids, Start(p)
      PROVE  HandleInv'
  BY <1>2, <1>u DEF Start, Born, signalVars, localVars
<1>3. ASSUME NEW p \in Pids, HolderCloses(p)
      PROVE  HandleInv'
  BY <1>3, <1>u DEF HolderCloses, signalVars, localVars
<1>4. ASSUME NEW p \in Pids, NEW kind \in {"held", "other", "stranger"},
               Appears(p, kind)
      PROVE  HandleInv'
  BY <1>4, <1>u DEF Appears, Born, signalVars, localVars
<1>5. CASE PaneCloses
  BY <1>5, <1>u DEF PaneCloses, signalVars, localVars
<1>6. CASE ScreenChanges
  BY <1>6, <1>u DEF ScreenChanges, signalVars, localVars
<1>7. ASSUME NEW t \in Threads, Request(t)
      PROVE  HandleInv'
  BY <1>7, <1>u DEF Request, machineVars, signalVars, DetachedPids
<1>8. ASSUME NEW t \in Threads, Derive(t)
      PROVE  HandleInv'
  <2>1. UNCHANGED <<proc, session, pane, handle, snap>>
    BY <1>8 DEF Derive, machineVars
  <2>2. PICK p \in Pids : target' = [target EXCEPT ![t] = p]
    BY <1>8 DEF Derive
  <2>3. ~Live(t) /\ pc' = [pc EXCEPT ![t] = "open"]
    BY <1>8, <1>u DEF Derive
  <2> QED
    BY <2>1, <2>2, <2>3, <1>u
<1>9. ASSUME NEW t \in Threads, VerifyDetached(t)
      PROVE  HandleInv'
  BY <1>9, <1>u DEF VerifyDetached, machineVars, signalVars, localVars,
     DetachedPids, HeldElsewhere
<1>10. ASSUME NEW t \in Threads, CheckCwd(t)
      PROVE  HandleInv'
  BY <1>10, <1>u DEF CheckCwd, machineVars, signalVars, localVars
<1>11. ASSUME NEW t \in Threads, Send(t)
      PROVE  HandleInv'
  BY <1>11, <1>u DEF Send, machineVars, Return, SignalReaches
<1>12. CASE Expire
  BY <1>12, <1>u DEF Expire, machineVars
<1>13. CASE FirstPs
  BY <1>13, <1>u DEF FirstPs, ReadPs, machineVars, signalVars
<1>14. CASE FirstPid
  BY <1>14, <1>u DEF FirstPid, RunningPids, machineVars, signalVars
<1>15. CASE FirstScreen
  BY <1>15, <1>u DEF FirstScreen, ScreenAsks, machineVars, localVars
<1>16. CASE SecondPs
  BY <1>16, <1>u DEF SecondPs, ReadPs, machineVars, signalVars
<1>17. CASE SecondPid
  BY <1>17, <1>u DEF SecondPid, machineVars, signalVars, localVars
<1>18. CASE SecondScreen
  BY <1>18, <1>u DEF SecondScreen, ScreenAsks, machineVars, localVars
<1>19. CASE VerifyRunning
  BY <1>19, <1>u DEF VerifyRunning, machineVars, signalVars, localVars,
     StillTheRows, RunningPids
<1>20. CASE SendHangup
  BY <1>20, <1>u DEF SendHangup, machineVars, Return, SignalReaches
<1>21. ASSUME NEW a \in Actors, Open(a)
      PROVE  HandleInv'
  BY <1>21, <1>u DEF Open, machineVars, signalVars
<1>22. ASSUME NEW a \in Actors, VerifyPs(a)
      PROVE  HandleInv'
  BY <1>22, <1>u DEF VerifyPs, ReadPs, machineVars, signalVars
<1>23. ASSUME NEW a \in Actors, Refused(a)
      PROVE  HandleInv'
  BY <1>23, <1>u DEF Refused, machineVars, signalVars, Return
<1> QED
  BY <1>0, <1>1, <1>2, <1>3, <1>4, <1>5, <1>6, <1>7, <1>8, <1>9, <1>10,
     <1>11, <1>12, <1>13, <1>14, <1>15, <1>16, <1>17, <1>18, <1>19, <1>20,
     <1>21, <1>22, <1>23
  DEF Next, MachineStep, SignalStep, ExpiryStep

\* A live handle is of the process whose number it was opened for, and what was
\* verified after it was opened stays verified.
THEOREM HandlesHold == Spec => [](TypeOK /\ HandleInv)
<1>1. Init => HandleInv
  BY DEF Init, HandleInv, LiveHasNumber, PaneHoldsAgent, ReadAfterHandle,
     CheckedIsDetached, Live, Actors, Agents
<1> QED
  BY <1>1, HandleStep, TypeCorrect, PTL DEF Spec

\* Where no number goes to another agent during an expiry, no step breaks what its
\* looks say.
LEMMA LooksStep ==
  ASSUME ~AgentsReusePids, TypeOK, HandleInv, LooksAreTheTargets, [Next]_vars
  PROVE  LooksAreTheTargets'
<1> USE DEF TypeOK, Live, Goto, HandleInv, LiveHasNumber, PaneHoldsAgent,
           ReadAfterHandle, LooksAreTheTargets, HasTarget, Agents
<1>u. Ticker \in Actors /\ \A t \in Threads : t \in Actors /\ t # Ticker
  BY DEF Actors
<1>0. CASE UNCHANGED vars
  BY <1>0 DEF vars, machineVars, signalVars, localVars
<1>1. ASSUME NEW p \in Pids, Exits(p)
      PROVE  LooksAreTheTargets'
  <2>a. /\ \A q \in Pids : q # p => proc'[q] = proc[q] /\ looks'[q] = looks[q]
        /\ looks'[p] = {}
        /\ pc' = pc /\ target' = target
    BY <1>1 DEF Exits
  <2>b. handle'[Ticker] = "live" =>
          handle[Ticker] = "live" /\ target[Ticker] # p
    BY <1>1, <1>u DEF Exits
  <2>c. pane' = NoPid \/ (pane # p /\ pane' = pane)
    BY <1>1, ExitsPane
  <2>1. pc[Ticker] \in {"firstPs", "firstPid", "firstScreen"} =>
          \A q \in Pids : looks'[q] = {}
    BY <2>a
  <2>2. pc[Ticker] \in HasTarget /\ pane' = target[Ticker] =>
          pane = target[Ticker] /\ looks'[target[Ticker]] = looks[target[Ticker]]
    BY <2>a, <2>c, <1>u
  <2>3. pc[Ticker] = "send" /\ handle'[Ticker] = "live" =>
          /\ looks'[target[Ticker]] = looks[target[Ticker]]
          /\ proc'[target[Ticker]] = proc[target[Ticker]]
    BY <2>a, <2>b, <1>u
  <2> QED
    BY <2>a, <2>b, <2>1, <2>2, <2>3
<1>2. ASSUME NEW p \in Pids, Start(p)
      PROVE  LooksAreTheTargets'
  BY <1>2, <1>u DEF Start, Born, signalVars, localVars
<1>3. ASSUME NEW p \in Pids, HolderCloses(p)
      PROVE  LooksAreTheTargets'
  BY <1>3, <1>u DEF HolderCloses, signalVars, localVars
<1>4. ASSUME NEW p \in Pids, NEW kind \in {"held", "other", "stranger"},
               Appears(p, kind)
      PROVE  LooksAreTheTargets'
  BY <1>4, <1>u DEF Appears, Born, signalVars, localVars
<1>5. CASE PaneCloses
  BY <1>5, <1>u DEF PaneCloses, signalVars, localVars
<1>6. CASE ScreenChanges
  BY <1>6, <1>u DEF ScreenChanges, signalVars, localVars
<1>7. ASSUME NEW t \in Threads, Request(t)
      PROVE  LooksAreTheTargets'
  BY <1>7, <1>u DEF Request, machineVars, signalVars, DetachedPids
<1>8. ASSUME NEW t \in Threads, Derive(t)
      PROVE  LooksAreTheTargets'
  BY <1>8, <1>u DEF Derive, machineVars, signalVars
<1>9. ASSUME NEW t \in Threads, VerifyDetached(t)
      PROVE  LooksAreTheTargets'
  BY <1>9, <1>u DEF VerifyDetached, machineVars, signalVars, localVars
<1>10. ASSUME NEW t \in Threads, CheckCwd(t)
      PROVE  LooksAreTheTargets'
  BY <1>10, <1>u DEF CheckCwd, machineVars, signalVars, localVars
<1>11. ASSUME NEW t \in Threads, Send(t)
      PROVE  LooksAreTheTargets'
  BY <1>11, <1>u DEF Send, machineVars, Return, SignalReaches
<1>12. CASE Expire
  BY <1>12, <1>u DEF Expire, machineVars
<1>13. CASE FirstPs
  BY <1>13, <1>u DEF FirstPs, ReadPs, machineVars, signalVars
<1>14. CASE FirstPid
  BY <1>14, <1>u DEF FirstPid, RunningPids, machineVars, signalVars
<1>15. CASE FirstScreen
  BY <1>15, <1>u DEF FirstScreen, ScreenAsks, machineVars, localVars
<1>16. CASE SecondPs
  BY <1>16, <1>u DEF SecondPs, ReadPs, machineVars, signalVars
<1>17. CASE SecondPid
  BY <1>17, <1>u DEF SecondPid, machineVars, signalVars, localVars
<1>18. CASE SecondScreen
  BY <1>18, <1>u DEF SecondScreen, ScreenAsks, machineVars, localVars
<1>19. CASE VerifyRunning
  BY <1>19, <1>u DEF VerifyRunning, machineVars, signalVars, localVars,
     StillTheRows, RunningPids
<1>20. CASE SendHangup
  BY <1>20, <1>u DEF SendHangup, machineVars, Return, SignalReaches
<1>21. ASSUME NEW a \in Actors, Open(a)
      PROVE  LooksAreTheTargets'
  BY <1>21, <1>u DEF Open, machineVars, signalVars
<1>22. ASSUME NEW a \in Actors, VerifyPs(a)
      PROVE  LooksAreTheTargets'
  BY <1>22, <1>u DEF VerifyPs, ReadPs, machineVars, signalVars
<1>23. ASSUME NEW a \in Actors, Refused(a)
      PROVE  LooksAreTheTargets'
  BY <1>23, <1>u DEF Refused, machineVars, signalVars, Return
<1> QED
  BY <1>0, <1>1, <1>2, <1>3, <1>4, <1>5, <1>6, <1>7, <1>8, <1>9, <1>10,
     <1>11, <1>12, <1>13, <1>14, <1>15, <1>16, <1>17, <1>18, <1>19, <1>20,
     <1>21, <1>22, <1>23
  DEF Next, MachineStep, SignalStep, ExpiryStep

-----------------------------------------------------------------------------
(* Signals.                                                                *)

\* Whatever the threads and the sweep do at once, a /signal reaches only an
\* agent of the row, under its root, that no screen has open.
THEOREM SignalsReachDetached == Spec => OnlyDetachedAgentsAreSignalled
<1>1. ASSUME TypeOK, HandleInv, [Next]_vars, NEW p \in Pids, hit'[p], ~hit[p]
      PROVE  proc[p] = "ours" /\ pane # p
  <2> USE DEF TypeOK
  <2>1. ASSUME NEW t \in Threads, Send(t)
        PROVE  proc[p] = "ours" /\ pane # p
    <3>1. target[t] = p /\ Live(t) /\ pc[t] = "send"
      BY <1>1, <2>1 DEF Send, SignalReaches, Live
    <3> QED
      BY <1>1, <3>1 DEF HandleInv, CheckedIsDetached
  <2>2. ASSUME NEW q \in Pids, Exits(q)
        PROVE  FALSE
    BY <1>1, <2>2 DEF Exits
  <2>3. ASSUME UNCHANGED hit
        PROVE  FALSE
    BY <1>1, <2>3
  <2> QED
    BY <1>1, <2>1, <2>2, <2>3 DEF Next, vars, MachineStep, SignalStep,
       ExpiryStep, Start, HolderCloses, Appears, PaneCloses, ScreenChanges,
       Request, Derive, VerifyDetached, CheckCwd, Expire, FirstPs, FirstPid,
       FirstScreen, SecondPs, SecondPid, SecondScreen, VerifyRunning,
       SendHangup, Open, VerifyPs, Refused, ReadPs, signalVars
<1>2. TypeOK /\ HandleInv /\ [Next]_vars =>
        [\A p \in Pids : hit'[p] /\ ~hit[p] => proc[p] = "ours" /\ pane # p]_vars
  BY <1>1
<1> QED
  BY <1>2, HandlesHold, PTL DEF Spec, OnlyDetachedAgentsAreSignalled

\* An expired stop ends the agent both its looks saw asking, where no start is
\* given the number of an agent that is being looked at.
THEOREM ExpiryEndsWhoAsked ==
  ~AgentsReusePids => (Spec => EndAnywayEndsWhoAsked)
<1> SUFFICES ASSUME ~AgentsReusePids PROVE Spec => EndAnywayEndsWhoAsked
  OBVIOUS
<1>1. Init => LooksAreTheTargets
  BY DEF Init, LooksAreTheTargets, Actors, Live
<1>2. TypeOK /\ HandleInv /\ LooksAreTheTargets /\ [Next]_vars =>
        LooksAreTheTargets'
  BY LooksStep
<1>3. ASSUME TypeOK, HandleInv, LooksAreTheTargets, [Next]_vars,
             NEW p \in Pids, hung'[p], ~hung[p]
      PROVE  proc[p] \in Agents /\ looks[p] = {"first", "second"}
  <2> USE DEF TypeOK
  <2>1. ASSUME SendHangup
        PROVE  proc[p] \in Agents /\ looks[p] = {"first", "second"}
    <3>1. target[Ticker] = p /\ Live(Ticker) /\ pc[Ticker] = "send"
      BY <1>3, <2>1 DEF SendHangup, SignalReaches, Live, Actors
    <3> QED
      BY <1>3, <3>1 DEF LooksAreTheTargets
  <2>2. ASSUME NEW q \in Pids, Exits(q)
        PROVE  FALSE
    BY <1>3, <2>2 DEF Exits
  <2>3. ASSUME UNCHANGED hung
        PROVE  FALSE
    BY <1>3, <2>3
  <2> QED
    BY <1>3, <2>1, <2>2, <2>3 DEF Next, vars, MachineStep, SignalStep,
       ExpiryStep, Start, HolderCloses, Appears, PaneCloses, ScreenChanges,
       Request, Derive, VerifyDetached, CheckCwd, Send, Expire, FirstPs,
       FirstPid, FirstScreen, SecondPs, SecondPid, SecondScreen,
       VerifyRunning, Open, VerifyPs, Refused, ReadPs, signalVars
<1>4. TypeOK /\ HandleInv /\ LooksAreTheTargets /\ [Next]_vars =>
        [\A p \in Pids : hung'[p] /\ ~hung[p] =>
           proc[p] \in Agents /\ looks[p] = {"first", "second"}]_vars
  BY <1>3
<1> QED
  BY <1>1, <1>2, <1>4, HandlesHold, PTL DEF Spec, EndAnywayEndsWhoAsked
=============================================================================
