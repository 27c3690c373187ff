----------------------------- MODULE PagesProofs -----------------------------
(***************************************************************************)
(* What the two documents promise, for any number of listings, requests,   *)
(* events and restarts, and for a queue of any size: of the list, that a   *)
(* listing which lands takes nothing back, that a later one wins, and that *)
(* a dead stream is never said live; of the settings page, that the record *)
(* on screen never goes back.                                              *)
(*                                                                         *)
(* Each rests on what may still be on its way: which listing owns the page *)
(* and what is held for it (ListInv), and which processes the records come *)
(* from and when they arrived (PageInv).                                   *)
(***************************************************************************)
EXTENDS MCPages, SequenceTheorems, TLAPS

-----------------------------------------------------------------------------
(* Sequences.                                                              *)

LEMMA Front ==
  ASSUME NEW S, NEW s \in Seq(S), s # <<>>
  PROVE  Head(s) \in S /\ Tail(s) \in Seq(S)
  OBVIOUS

LEMMA Longer ==
  ASSUME NEW S, NEW s \in Seq(S), NEW e \in S
  PROVE  Append(s, e) \in Seq(S)
  OBVIOUS

LEMMA Wider ==
  ASSUME NEW S, NEW T, S \subseteq T
  PROVE  Seq(S) \subseteq Seq(T)
  OBVIOUS

(* What the bus does to the two queues, whatever S the events are of.      *)
LEMMA ListDelivers ==
  ASSUME NEW S, listScheduled \in Seq(S), listQueue \in Seq(S), List!Delivers
  PROVE  listScheduled' \in Seq(S) /\ listQueue' \in Seq(S)
  BY Front, Longer DEF List!Delivers

LEMMA PageDelivers ==
  ASSUME NEW S, scheduled \in Seq(S), queue \in Seq(S), Delivers
  PROVE  scheduled' \in Seq(S) /\ queue' \in Seq(S)
  BY Front, Longer DEF Delivers

-----------------------------------------------------------------------------
(* The listings out, the row they carry, and the event held for them.      *)

Fetch ==
  [generation : Nat \ {0}, at : {"asked", "read", "unreadable", "refused", "unreachable"},
   row : Nat, fresh : BOOLEAN]

(* What is announced is a row that exists, and every row on its way is one *)
(* the server has had.                                                     *)
OnTheWay ==
  /\ version \in Nat /\ announcing \in Nat
  /\ announcing > 0 => version > 0
  /\ listUnsent \subseteq 1..version
  /\ listScheduled \in Seq(1..version) /\ listQueue \in Seq(1..version)

(* So is every row that is held, shown or read.                            *)
RowsKnown ==
  /\ generation \in Nat \ {0}
  /\ held \in [generation : Nat, row : Nat]
  /\ held.generation > 0 => held.row \in 1..version
  /\ listed \in Nat /\ listed <= version
  /\ fetches \subseteq Fetch
  /\ \A f \in fetches : f.row <= version

(* A listing is known by its generation, and none is of one to come.       *)
Generations ==
  /\ held.generation <= generation
  /\ \A f \in fetches : f.generation <= generation
  /\ \A f, g \in fetches : f.generation = g.generation => f = g

(* The listing that owns the page: what came while it was out is held for  *)
(* it, and it is itself no older than what it was asked over.              *)
OwnerOfThePage ==
  \A f \in fetches : f.generation = generation =>
    /\ held.generation = generation => listed = 0 \/ listed = held.row
    /\ f.at = "read" /\ held.generation # generation => listed <= f.row
    /\ f.at = "read" /\ f.row = 0 => listed = 0

HeldWasHeard == held.generation = generation => heardSince

ListInv == OnTheWay /\ RowsKnown /\ Generations /\ OwnerOfThePage /\ HeldWasHeard

-----------------------------------------------------------------------------
(* Steps of the list.                                                      *)

(* The listings out are those that were, some of them no longer fresh.     *)
Aged ==
  /\ fetches' \subseteq Fetch
  /\ \A g \in fetches' : \E f \in fetches :
       g.generation = f.generation /\ g.at = f.at /\ g.row = f.row
  /\ \A f \in fetches : \E g \in fetches' : g.generation = f.generation
  /\ \A g, h \in fetches' : g.generation = h.generation => g = h

LEMMA Older ==
  ASSUME Generations, NEW older \in [fetches -> Fetch],
         \A f \in fetches : /\ older[f].generation = f.generation
                            /\ older[f].at = f.at /\ older[f].row = f.row,
         fetches' = {older[f] : f \in fetches}
  PROVE  Aged
<1>1. \A g \in fetches' : \E f \in fetches : g = older[f]
  OBVIOUS
<1>2. \A f \in fetches : older[f] \in fetches'
  OBVIOUS
<1>3. fetches' \subseteq Fetch
  BY <1>1
<1>4. \A g, h \in fetches' : g.generation = h.generation => g = h
  BY <1>1 DEF Generations
<1> QED
  BY <1>1, <1>2, <1>3, <1>4 DEF Aged

LEMMA SomeAge ==
  ASSUME RowsKnown, Generations,
         \/ UNCHANGED fetches
         \/ fetches' = {[f EXCEPT !.fresh = @ /\ f.at = "asked"] : f \in fetches}
         \/ fetches' = {[f EXCEPT !.fresh = FALSE] : f \in fetches}
  PROVE  Aged
<1>1. CASE UNCHANGED fetches
  BY <1>1 DEF RowsKnown, Generations, Aged
<1>2. ASSUME NEW f \in fetches, NEW still \in BOOLEAN
      PROVE  LET g == [f EXCEPT !.fresh = still]
             IN  g \in Fetch /\ g.generation = f.generation /\ g.at = f.at /\ g.row = f.row
  BY DEF RowsKnown, Fetch
<1>3. CASE fetches' = {[f EXCEPT !.fresh = @ /\ f.at = "asked"] : f \in fetches}
  <2> DEFINE still(f) == f.fresh /\ f.at = "asked"
             older == [f \in fetches |-> [f EXCEPT !.fresh = still(f)]]
  <2>1. \A f \in fetches : still(f) \in BOOLEAN
    OBVIOUS
  <2>2. fetches' = {[f EXCEPT !.fresh = still(f)] : f \in fetches}
    BY <1>3
  <2> HIDE DEF still
  <2>3. fetches' = {older[f] : f \in fetches}
    BY <2>2
  <2>4. older \in [fetches -> Fetch]
    BY <1>2, <2>1
  <2>5. \A f \in fetches : /\ older[f].generation = f.generation
                           /\ older[f].at = f.at /\ older[f].row = f.row
    BY <1>2, <2>1
  <2> HIDE DEF older
  <2> QED
    BY <2>3, <2>4, <2>5, Older
<1>4. CASE fetches' = {[f EXCEPT !.fresh = FALSE] : f \in fetches}
  <2> DEFINE older == [f \in fetches |-> [f EXCEPT !.fresh = FALSE]]
  <2>1. fetches' = {older[f] : f \in fetches}
    BY <1>4
  <2>2. older \in [fetches -> Fetch]
    BY <1>2
  <2>3. \A f \in fetches : /\ older[f].generation = f.generation
                           /\ older[f].at = f.at /\ older[f].row = f.row
    BY <1>2
  <2> HIDE DEF older
  <2> QED
    BY <2>1, <2>2, <2>3, Older
<1> QED
  BY <1>1, <1>3, <1>4

LEMMA AgedKeeps ==
  ASSUME ListInv, Aged, UNCHANGED <<generation, held, listed, heardSince>>,
         OnTheWay', version <= version'
  PROVE  ListInv'
<1>1. version \in Nat /\ version' \in Nat
  BY DEF ListInv, OnTheWay
<1>2. RowsKnown'
  BY <1>1 DEF ListInv, RowsKnown, Aged, Fetch
<1>3. Generations'
  BY DEF ListInv, Generations, Aged
<1>4. OwnerOfThePage'
  BY DEF ListInv, OwnerOfThePage, Aged
<1> QED
  BY <1>2, <1>3, <1>4 DEF ListInv, HeldWasHeard

LEMMA RefreshKeeps ==
  ASSUME ListInv, List!Refresh, UNCHANGED <<held, listed, version>>, OnTheWay'
  PROVE  ListInv'
<1>1. /\ generation' = generation + 1 /\ generation \in Nat \ {0}
      /\ fetches' = fetches \cup {List!Asked(generation + 1)}
      /\ heardSince' = FALSE /\ version \in Nat
      /\ \A f \in fetches : f \in Fetch
  BY DEF ListInv, OnTheWay, RowsKnown, List!Refresh, List!RefreshOver
<1>2. /\ List!Asked(generation + 1) \in Fetch
      /\ List!Asked(generation + 1).generation = generation + 1
      /\ List!Asked(generation + 1).at = "asked"
      /\ List!Asked(generation + 1).row = 0
  BY <1>1 DEF Fetch, List!Asked
<1>3. \A f \in fetches : f.generation <= generation /\ f.generation \in Nat
  BY <1>1 DEF ListInv, Generations, Fetch
<1>4. held.generation \in Nat /\ held.generation <= generation
  BY DEF ListInv, RowsKnown, Generations
<1>5. RowsKnown'
  BY <1>1, <1>2 DEF ListInv, RowsKnown
<1>6. Generations'
  <2>1. ASSUME NEW f \in fetches', NEW g \in fetches', f.generation = g.generation
        PROVE  f = g
    <3>1. f.generation = generation + 1 \/ g.generation = generation + 1 =>
            f = List!Asked(generation + 1) /\ g = List!Asked(generation + 1)
      BY <1>1, <1>2, <1>3, <2>1
    <3>2. f \in fetches /\ g \in fetches => f = g
      BY <2>1 DEF ListInv, Generations
    <3> QED
      BY <1>1, <1>2, <3>1, <3>2
  <2> QED
    BY <1>1, <1>2, <1>3, <1>4, <2>1 DEF Generations
<1>7. OwnerOfThePage'
  <2>1. ASSUME NEW f \in fetches', f.generation = generation'
        PROVE  f = List!Asked(generation + 1)
    BY <1>1, <1>3, <2>1
  <2> QED
    BY <1>1, <1>2, <1>4, <2>1 DEF OwnerOfThePage
<1>8. HeldWasHeard'
  BY <1>1, <1>4 DEF HeldWasHeard
<1> QED
  BY <1>5, <1>6, <1>7, <1>8 DEF ListInv

(* One listing out is answered, well or badly, or not at all.              *)
LEMMA AnswerKeeps ==
  ASSUME ListInv, NEW f \in fetches,
         NEW at \in {"read", "unreadable", "refused", "unreachable"}, NEW row,
         row = IF at = "read" THEN version ELSE 0,
         fetches' = (fetches \ {f}) \cup {[f EXCEPT !.at = at, !.row = row]},
         UNCHANGED <<version, announcing, listUnsent, listScheduled, listQueue,
                     generation, held, listed, heardSince>>
  PROVE  ListInv'
<1> DEFINE a == [f EXCEPT !.at = at, !.row = row]
<1>a. version \in Nat /\ listed <= version /\ f \in Fetch
  BY DEF ListInv, RowsKnown, OnTheWay
<1>b. row \in Nat /\ row <= version
  BY <1>a
<1>1. /\ a \in Fetch /\ a.generation = f.generation /\ a.at = at /\ a.row = row
      /\ row \in Nat /\ row <= version /\ listed <= version
      /\ version \in Nat
  BY <1>a, <1>b DEF Fetch
<1> HIDE DEF a
<1>2. fetches' = (fetches \ {f}) \cup {a}
  BY DEF a
<1>3. OnTheWay'
  BY DEF ListInv, OnTheWay
<1>4. RowsKnown'
  BY <1>1, <1>2 DEF ListInv, RowsKnown
<1>5. Generations'
  BY <1>1, <1>2 DEF ListInv, Generations
<1>6. OwnerOfThePage'
  <2>1. ASSUME NEW g \in fetches', g.generation = generation
        PROVE  /\ held.generation = generation => listed = 0 \/ listed = held.row
               /\ g.at = "read" /\ held.generation # generation => listed <= g.row
               /\ g.at = "read" /\ g.row = 0 => listed = 0
    <3>1. CASE g \in fetches
      BY <2>1, <3>1 DEF ListInv, OwnerOfThePage
    <3>2. CASE g = a
      <4>1. held.generation = generation => listed = 0 \/ listed = held.row
        BY <1>1, <2>1, <3>2 DEF ListInv, OwnerOfThePage
      <4>2. at = "read" => row = version
        OBVIOUS
      <4>3. listed \in Nat
        BY DEF ListInv, RowsKnown
      <4> QED
        BY <1>1, <3>2, <4>1, <4>2, <4>3
    <3> QED
      BY <1>2, <3>1, <3>2
  <2> QED
    BY <2>1 DEF OwnerOfThePage
<1> QED
  BY <1>3, <1>4, <1>5, <1>6 DEF ListInv, HeldWasHeard

(* What lands for the page: the event held for it, or what it read.        *)
LEMMA LandingShows ==
  ASSUME ListInv, NEW f \in fetches, f.at = "read", f.generation = generation,
         listed' = IF List!Owed(f) /\ f.row # 0 THEN held.row ELSE f.row
  PROVE  listed' \in Nat /\ listed' >= listed /\ listed' <= version
<1>1. /\ generation \in Nat \ {0} /\ held.generation \in Nat /\ held.generation <= generation
      /\ listed \in Nat /\ f.row \in Nat /\ f.row <= version
      /\ held.generation > 0 => held.row \in 1..version
      /\ version \in Nat
  BY DEF ListInv, OnTheWay, RowsKnown, Generations, Fetch
<1>2. List!Owed(f) => held.generation = generation
  BY <1>1 DEF List!Owed
<1>3. held.generation = generation => List!Owed(f)
  BY <1>1 DEF List!Owed, List!NotHeld
<1>4. CASE List!Owed(f) /\ f.row # 0
  BY <1>1, <1>2, <1>4 DEF ListInv, OwnerOfThePage
<1>5. CASE ~ List!Owed(f)
  BY <1>1, <1>3, <1>5 DEF ListInv, OwnerOfThePage
<1>6. CASE f.row = 0
  BY <1>1, <1>6 DEF ListInv, OwnerOfThePage
<1> QED
  BY <1>4, <1>5, <1>6

LEMMA LandsKeeps ==
  ASSUME ListInv, NEW f \in fetches, List!Lands(f)
  PROVE  ListInv'
<1>1. /\ fetches' = fetches \ {f}
      /\ UNCHANGED <<version, announcing, listUnsent, listScheduled, listQueue,
                     generation, heardSince>>
  BY DEF List!Lands, List!serverVars, List!busVars
<1>2. OnTheWay'
  BY <1>1 DEF ListInv, OnTheWay
<1>3. CASE List!Superseded(f)
  <2>1. UNCHANGED <<held, listed>>
    BY <1>3 DEF List!Lands
  <2>2. RowsKnown' /\ Generations' /\ OwnerOfThePage'
    BY <1>1, <2>1 DEF ListInv, RowsKnown, Generations, OwnerOfThePage
  <2> QED
    BY <1>1, <1>2, <2>1, <2>2 DEF ListInv, HeldWasHeard
<1>4. CASE ~ List!Superseded(f)
  <2>1. /\ f.generation = generation /\ held' = List!NotHeld
        /\ listed' = IF f.at # "read" THEN listed
                     ELSE IF List!Owed(f) /\ f.row # 0 THEN held.row ELSE f.row
    BY <1>4 DEF List!Lands, List!Superseded
  <2>2. listed' \in Nat /\ listed' <= version
    BY <2>1, LandingShows DEF ListInv, RowsKnown
  <2>3. held' \in [generation : Nat, row : Nat] /\ held'.generation = 0
    BY <2>1 DEF List!NotHeld
  <2>4. RowsKnown'
    BY <1>1, <2>2, <2>3 DEF ListInv, RowsKnown
  <2>5. generation \in Nat \ {0}
    BY DEF ListInv, RowsKnown
  <2>6. Generations'
    BY <1>1, <2>3, <2>5 DEF ListInv, Generations
  <2>7. OwnerOfThePage'
    <3>1. \A g \in fetches' : g.generation # generation
      BY <1>1, <2>1 DEF ListInv, Generations
    <3> QED
      BY <1>1, <3>1 DEF OwnerOfThePage
  <2> QED
    BY <1>1, <1>2, <2>3, <2>4, <2>5, <2>6, <2>7 DEF ListInv, HeldWasHeard
<1> QED
  BY <1>3, <1>4

LEMMA EventKeeps ==
  ASSUME ListInv, List!EventArrives
  PROVE  ListInv'
<1> DEFINE row == Head(listQueue)
<1>1. /\ row \in 1..version /\ listQueue' \in Seq(1..version)
      /\ UNCHANGED <<version, announcing, listUnsent, listScheduled, generation>>
      /\ heardSince' = TRUE
  BY Front DEF ListInv, OnTheWay, List!EventArrives, List!Streams, List!serverVars
<1>2. Aged
  <2>1. UNCHANGED fetches \/ fetches' = {[f EXCEPT !.fresh = FALSE] : f \in fetches}
    BY DEF List!EventArrives, List!LastIsOld
  <2> QED
    BY <2>1, SomeAge DEF ListInv
<1>3. held' = IF fetches # {} THEN [generation |-> generation, row |-> row] ELSE held
  BY DEF List!EventArrives, List!Holds
<1>4. listed' = IF listed # 0 THEN row ELSE 0
  BY DEF List!EventArrives
<1> HIDE DEF row
<1>5. /\ generation \in Nat \ {0} /\ version \in Nat /\ listed \in Nat
      /\ held \in [generation : Nat, row : Nat]
      /\ held.generation > 0 => held.row \in 1..version
      /\ held.generation <= generation
  BY DEF ListInv, OnTheWay, RowsKnown, Generations
<1>6. OnTheWay'
  BY <1>1 DEF ListInv, OnTheWay
<1>7. RowsKnown'
  <2>1. listed' \in Nat /\ listed' <= version
    BY <1>1, <1>4, <1>5
  <2>2. held' \in [generation : Nat, row : Nat] /\ (held'.generation > 0 => held'.row \in 1..version)
    BY <1>1, <1>3, <1>5
  <2>3. fetches' \subseteq Fetch /\ \A g \in fetches' : g.row <= version
    BY <1>2 DEF Aged, ListInv, RowsKnown
  <2> QED
    BY <1>1, <1>5, <2>1, <2>2, <2>3 DEF RowsKnown
<1>8. Generations'
  <2>1. held'.generation <= generation
    BY <1>3, <1>5
  <2> QED
    BY <1>1, <1>2, <2>1 DEF ListInv, Generations, Aged
<1>9. OwnerOfThePage'
  <2>1. ASSUME NEW g \in fetches'
        PROVE  /\ held'.generation = generation /\ held'.row = row
               /\ g.at = "read" /\ g.row = 0 /\ g.generation = generation => listed = 0
    <3>1. PICK f \in fetches : g.generation = f.generation /\ g.at = f.at /\ g.row = f.row
      BY <1>2, <2>1 DEF Aged
    <3> QED
      BY <1>3, <3>1 DEF ListInv, OwnerOfThePage
  <2> QED
    BY <1>1, <1>4, <2>1 DEF OwnerOfThePage
<1> QED
  BY <1>1, <1>6, <1>7, <1>8, <1>9 DEF ListInv, HeldWasHeard

LEMMA ListStep ==
  ASSUME ListInv, List!Next \/ UNCHANGED listVars
  PROVE  ListInv'
<1> USE DEF List!serverVars, List!busVars, List!streamVars, List!listVars
<1>1. OnTheWay /\ RowsKnown /\ Generations
  BY DEF ListInv
<1>2. version \in Nat /\ announcing \in Nat
  BY <1>1 DEF OnTheWay
<1>3. CASE List!Changes
  <2>1. /\ version' = version + 1
        /\ announcing' \in IF version = 0 THEN {1} ELSE {announcing, announcing + 1}
        /\ UNCHANGED <<listUnsent, listScheduled, listQueue, fetches, generation, held, listed,
                       heardSince>>
    BY <1>3 DEF List!Changes
  <2>2. Seq(1..version) \subseteq Seq(1..version')
    BY <1>2, <2>1, Wider
  <2>3. OnTheWay'
    BY <1>1, <1>2, <2>1, <2>2 DEF OnTheWay
  <2> QED
    BY <1>1, <1>2, <2>1, <2>3, SomeAge, AgedKeeps
<1>4. CASE List!Deliver
  <2>1. /\ List!Delivers
        /\ UNCHANGED <<version, announcing, listUnsent, generation, held, listed, heardSince>>
    BY <1>4 DEF List!Deliver
  <2>2. OnTheWay'
    BY <1>1, <2>1, ListDelivers DEF OnTheWay
  <2>3. Aged
    BY <1>1, <1>4, SomeAge DEF List!Deliver, List!Loses
  <2> QED
    BY <1>2, <2>1, <2>2, <2>3, AgedKeeps
<1>5. CASE List!Gets
  <2>1. OnTheWay'
    BY <1>1, <1>2, <1>5 DEF List!Gets, OnTheWay
  <2> QED
    BY <1>1, <1>2, <1>5, <2>1, SomeAge, AgedKeeps DEF List!Gets
<1>6. ASSUME NEW row \in listUnsent, List!Publish(row) PROVE ListInv'
  <2>1. row \in 1..version
    BY <1>1 DEF OnTheWay
  <2>2. OnTheWay'
    <3>1. /\ UNCHANGED <<version, announcing, listQueue>>
          /\ listUnsent' = listUnsent \ {row}
          /\ listScheduled' = listScheduled \/ listScheduled' = Append(listScheduled, row)
      BY <1>6 DEF List!Publish, List!Published
    <3>2. listScheduled' \in Seq(1..version)
      BY <1>1, <2>1, <3>1, Longer DEF OnTheWay
    <3> QED
      BY <1>1, <3>1, <3>2 DEF OnTheWay
  <2>3. Aged
    BY <1>1, <1>6, SomeAge DEF List!Publish, List!Loses
  <2> QED
    BY <1>2, <1>6, <2>2, <2>3, AgedKeeps DEF List!Publish
<1>7. ASSUME NEW f \in fetches, List!Answers(f) PROVE ListInv'
  <2>1. PICK at \in {"read", "unreadable", "refused"} :
          fetches' = (fetches \ {f}) \cup
            {[f EXCEPT !.at = at, !.row = IF at = "read" THEN version ELSE 0]}
    BY <1>7 DEF List!Answers
  <2> QED
    BY <1>7, <2>1, AnswerKeeps DEF List!Answers
<1>8. ASSUME NEW f \in fetches, List!NoAnswer(f) PROVE ListInv'
  BY <1>8, AnswerKeeps DEF List!NoAnswer
<1>9. CASE List!EventArrives
  BY <1>9, EventKeeps
<1>10. ASSUME NEW f \in fetches, List!Lands(f) PROVE ListInv'
  BY <1>10, LandsKeeps
<1>11. ASSUME UNCHANGED <<version, announcing, listUnsent, listScheduled, listQueue, held, listed>>,
              List!Refresh \/ UNCHANGED <<generation, fetches, heardSince>>
       PROVE  ListInv'
  <2>1. OnTheWay'
    BY <1>1, <1>11 DEF OnTheWay
  <2> QED
    BY <1>1, <1>2, <1>11, <2>1, SomeAge, AgedKeeps, RefreshKeeps
<1>12. CASE List!RefreshDue
  BY <1>11, <1>12 DEF List!RefreshDue
<1>13. CASE List!Opens
  BY <1>11, <1>13 DEF List!Opens, List!Subscribes, List!AsksAgain
<1>14. CASE List!Breaks
  <2>1. /\ listScheduled' = <<>> /\ listQueue' = <<>>
        /\ UNCHANGED <<version, announcing, listUnsent, generation, held, listed, heardSince>>
    BY <1>14 DEF List!Breaks, List!Unsubscribes
  <2>2. OnTheWay'
    BY <1>1, <2>1 DEF OnTheWay
  <2>3. Aged
    BY <1>1, <1>14, SomeAge DEF List!Breaks, List!Loses
  <2> QED
    BY <1>2, <2>1, <2>2, <2>3, AgedKeeps
<1>15. CASE List!RetryFails
  BY <1>11, <1>15 DEF List!RetryFails
<1>16. CASE List!IsRefused
  BY <1>11, <1>16 DEF List!IsRefused
<1>17. CASE List!TimerReopens
  BY <1>11, <1>17 DEF List!TimerReopens
<1>18. CASE List!ComesBack
  BY <1>11, <1>18 DEF List!ComesBack
<1>19. CASE UNCHANGED listVars
  BY <1>11, <1>19 DEF listVars
<1> QED
  BY <1>3, <1>4, <1>5, <1>6, <1>7, <1>8, <1>9, <1>10, <1>12, <1>13, <1>14, <1>15, <1>16, <1>17,
     <1>18, <1>19
     DEF List!Next, List!ServerStep, List!PageStep

(* Every other step leaves a listing of its generation out: only what      *)
(* lands is gone.                                                          *)
LEMMA OnlyLandingTakes ==
  ASSUME ListInv, List!Next, NEW f \in fetches, List!LandsRead(f)
  PROVE  List!Lands(f)
<1> USE DEF List!serverVars, List!busVars, List!streamVars, List!listVars
<1>1. /\ fetches' = fetches \ {f} /\ f.at = "read"
      /\ RowsKnown /\ Generations
  BY DEF List!LandsRead, ListInv
<1>2. \A g \in fetches' : g.generation # f.generation
  BY <1>1 DEF Generations
<1>3. ~ Aged
  BY <1>2 DEF Aged
<1>4. \A new : fetches' # fetches \cup {new}
  BY <1>1
<1>5. ~ List!Refresh /\ ~ UNCHANGED fetches
  BY <1>1, <1>4 DEF List!Refresh, List!RefreshOver
<1>6. \A lost \in BOOLEAN : ~ List!Loses(lost) /\ ~ List!LastIsOld(lost)
  BY <1>1, <1>3, SomeAge DEF List!Loses, List!LastIsOld
<1>7. ASSUME NEW g \in fetches, NEW at, NEW row,
             fetches' = (fetches \ {g}) \cup {[g EXCEPT !.at = at, !.row = row]}
      PROVE  g # f
  <2>1. [g EXCEPT !.at = at, !.row = row].generation = g.generation
    BY <1>1 DEF RowsKnown, Fetch
  <2> QED
    BY <1>2, <1>7, <2>1
<1>8. ASSUME NEW g \in fetches, List!Answers(g) \/ List!NoAnswer(g) PROVE FALSE
  <2>1. PICK at, row : fetches' = (fetches \ {g}) \cup {[g EXCEPT !.at = at, !.row = row]}
    BY <1>8 DEF List!Answers, List!NoAnswer
  <2>2. g # f
    BY <1>7, <2>1
  <2> QED
    BY <1>1, <2>1, <2>2
<1>9. ASSUME NEW g \in fetches, List!Lands(g) PROVE g = f
  BY <1>1, <1>9 DEF List!Lands
<1>10. CASE List!Changes \/ List!Gets \/ List!RetryFails \/ List!TimerReopens
  BY <1>5, <1>10 DEF List!Changes, List!Gets, List!RetryFails, List!TimerReopens
<1>11. CASE List!RefreshDue \/ List!Opens \/ List!IsRefused \/ List!ComesBack
  BY <1>5, <1>11 DEF List!RefreshDue, List!Opens, List!AsksAgain, List!IsRefused, List!ComesBack
<1>12. CASE List!Deliver
  BY <1>6, <1>12 DEF List!Deliver, List!Fits
<1>13. ASSUME NEW row \in listUnsent, List!Publish(row) PROVE FALSE
  <2>1. List!Loses(TRUE) \/ List!Loses(FALSE)
    BY <1>13 DEF List!Publish, List!Loses
  <2> QED
    BY <1>6, <2>1
<1>14. CASE List!Breaks
  <2>1. List!Loses(TRUE) \/ List!Loses(FALSE)
    BY <1>14 DEF List!Breaks, List!Loses
  <2> QED
    BY <1>6, <2>1
<1>15. CASE List!EventArrives
  <2>1. List!LastIsOld(TRUE) \/ List!LastIsOld(FALSE)
    BY <1>3, <1>1, <1>15, SomeAge DEF List!EventArrives, List!LastIsOld
  <2> QED
    BY <1>6, <2>1
<1> QED
  BY <1>8, <1>9, <1>10, <1>11, <1>12, <1>13, <1>14, <1>15
     DEF List!Next, List!ServerStep, List!PageStep

LEMMA Landing ==
  ASSUME ListInv, List!Next, NEW f \in fetches, List!LandsRead(f)
  PROVE  listed' >= listed /\ (~heardSince => listed' = f.row)
<1>1. /\ List!Lands(f) /\ f.at = "read" /\ f.generation = generation /\ ~List!Superseded(f)
  BY OnlyLandingTakes DEF List!LandsRead, List!Superseded
<1>2. listed' = IF List!Owed(f) /\ f.row # 0 THEN held.row ELSE f.row
  BY <1>1 DEF List!Lands
<1>3. listed' >= listed
  BY <1>1, <1>2, LandingShows
<1>4. ~heardSince => ~List!Owed(f)
  <2>1. held.generation \in Nat /\ generation \in Nat /\ held.generation <= generation
    BY DEF ListInv, RowsKnown, Generations
  <2> QED
    BY <1>1, <2>1 DEF ListInv, HeldWasHeard, List!Owed
<1> QED
  BY <1>2, <1>3, <1>4

LEMMA SilentStep ==
  ASSUME ListInv, SilentOnlyWhenLive, List!Next \/ UNCHANGED listVars
  PROVE  SilentOnlyWhenLive'
<1> USE DEF SilentOnlyWhenLive, List!SilentOnlyWhenLive, List!busVars
<1>1. CASE UNCHANGED listVars
  BY <1>1 DEF listVars
<1>2. CASE List!Changes \/ List!Gets \/ List!RefreshDue \/ List!TimerReopens \/ List!ComesBack
  BY <1>2 DEF List!Changes, List!Gets, List!RefreshDue, List!TimerReopens, List!ComesBack
<1>3. CASE List!Deliver
  BY <1>3 DEF List!Deliver, List!Delivers
<1>4. ASSUME NEW row \in listUnsent, List!Publish(row) PROVE SilentOnlyWhenLive'
  BY <1>4 DEF List!Publish, List!Published
<1>5. ASSUME NEW f \in fetches, List!Answers(f) \/ List!NoAnswer(f) PROVE SilentOnlyWhenLive'
  BY <1>5 DEF List!Answers, List!NoAnswer
<1>6. CASE List!EventArrives
  BY <1>6 DEF List!EventArrives, List!Streams
<1>7. ASSUME NEW f \in fetches, List!Lands(f) PROVE SilentOnlyWhenLive'
  <2>1. UNCHANGED listSubscribed
    BY <1>7 DEF List!Lands
  <2>2. strip' = strip \/ strip' = List!StripAfter(f)
    BY <1>7 DEF List!Lands
  <2>3. List!StripAfter(f) = "open" => strip = "open" \/ listSubscribed
    <3>1. f.at \in {"read", "unreadable", "refused", "unreachable"}
      BY <1>7 DEF List!Lands, ListInv, RowsKnown, Fetch
    <3>2. List!StripAfter(f) \in {strip, "down", "blind"} \/ (listSubscribed /\ List!StripAfter(f) = "open")
      BY <3>1 DEF List!StripAfter
    <3> QED
      BY <3>2
  <2> QED
    BY <2>1, <2>2, <2>3
<1>8. CASE List!Opens \/ List!Breaks \/ List!RetryFails \/ List!IsRefused
  BY <1>8 DEF List!Opens, List!Subscribes, List!Breaks, List!RetryFails, List!IsRefused
<1> QED
  BY <1>1, <1>2, <1>3, <1>4, <1>5, <1>6, <1>7, <1>8
     DEF List!Next, List!ServerStep, List!PageStep

-----------------------------------------------------------------------------
(* The processes whose records are about, and when those arrived.          *)

Stamp == [epoch : Nat, boot : Nat, since : Nat]
StampedRecord == [rec : Record, by : Stamp]
Current == {r \in StampedRecord : r.by = process}

PageTypes ==
  /\ run \in Record /\ unsent \subseteq Record
  /\ process \in Stamp
  /\ scheduled \in Seq(Current) /\ queue \in Seq(Current)
  /\ asked \in [Requests -> {"none", "get", "post", "begun", "refused", "answered"}]
  /\ answer \in [Requests -> StampedRecord]
  /\ awaiting \subseteq [of : StampedRecord, arrival : Nat]
  /\ shown \in [rec : Record, by : Stamp, arrival : Nat]
  /\ arrivals \in Nat

(* One process before another: in an earlier boot, or earlier in the same. *)
Before(b, c) ==
  b.epoch < c.epoch /\ b.boot <= c.boot /\ (b.boot = c.boot => b.since < c.since)

(* What has arrived and may still be compared: by whom, and when.          *)
Arrived ==
  {[by |-> a.of.by, arrival |-> a.arrival] : a \in awaiting} \cup
  {[by |-> s.by, arrival |-> s.arrival] : s \in {shown} \ {Nothing}}

Stamps ==
  {process} \cup {a.by : a \in Arrived} \cup
  {answer[q].by : q \in {p \in Requests : asked[p] = "answered"}}

StampsOrdered ==
  /\ \A b, c \in Stamps : b = c \/ Before(b, c) \/ Before(c, b)
  /\ \A b \in Stamps : b = process \/ Before(b, process)

(* A reboot lets nothing through: what arrives is of this boot, so a later *)
(* arrival is of no earlier one.                                           *)
ArrivalsFollowBoots ==
  /\ \A q \in Requests : asked[q] = "answered" => answer[q].by.boot = process.boot
  /\ \A a \in Arrived : a.arrival <= arrivals
  /\ \A a, b \in Arrived : a.by.boot < b.by.boot => a.arrival < b.arrival

PageInv == PageTypes /\ StampsOrdered /\ ArrivalsFollowBoots

-----------------------------------------------------------------------------
(* Steps of the settings page.                                             *)

(* The record and what is unsent keep their types.                         *)
LEMMA RecordTypes ==
  ASSUME run \in Record, unsent \subseteq Record,
         Begins \/ Hears \/ Ends \/ UNCHANGED recordVars
  PROVE  run' \in Record /\ unsent' \subseteq Record
<1> USE DEF Record, States
<1>1. run.heard + 1 \in Nat /\ run.seq + 1 \in Nat /\ run.heard \in Nat /\ run.state \in States
  OBVIOUS
<1>2. ASSUME NEW state \in States, NEW heard \in Nat, Changes(state, heard)
      PROVE  run' \in Record /\ unsent' \subseteq Record
  BY <1>1, <1>2 DEF Changes
<1>3. CASE Begins
  BY <1>2, <1>3 DEF Begins
<1>4. CASE Hears
  BY <1>1, <1>2, <1>4 DEF Hears
<1>5. CASE Ends
  BY <1>1, <1>2, <1>5 DEF Ends
<1>6. CASE UNCHANGED recordVars
  BY <1>6 DEF recordVars
<1> QED
  BY <1>3, <1>4, <1>5, <1>6

(* Nothing has arrived that had not, and an answer is one there was or is  *)
(* of the process that serves.                                             *)
AnswersKnown ==
  \A q \in Requests : asked'[q] = "answered" =>
    \/ asked[q] = "answered" /\ answer'[q] = answer[q]
    \/ answer'[q].by = process

LEMMA NothingNew ==
  ASSUME PageInv, PageTypes', UNCHANGED <<process, arrivals>>, AnswersKnown, Arrived' \subseteq Arrived
  PROVE  PageInv'
<1>1. Stamps' \subseteq Stamps
  BY DEF Stamps, AnswersKnown
<1>2. StampsOrdered'
  BY <1>1 DEF PageInv, StampsOrdered, Before
<1>3. ArrivalsFollowBoots'
  BY DEF PageInv, ArrivalsFollowBoots, AnswersKnown
<1> QED
  BY <1>2, <1>3 DEF PageInv

LEMMA ArrivedTypes ==
  ASSUME PageTypes
  PROVE  /\ Arrived \subseteq [by : Stamp, arrival : Nat]
         /\ Stamps \subseteq Stamp
<1>1. Arrived \subseteq [by : Stamp, arrival : Nat]
  BY DEF PageTypes, Arrived, StampedRecord
<1>2. \A q \in Requests : answer[q].by \in Stamp
  BY DEF PageTypes, StampedRecord
<1> QED
  BY <1>1, <1>2 DEF PageTypes, Stamps

(* A record comes to the page, off the stream or as an answer.             *)
LEMMA ArrivalKeeps ==
  ASSUME PageInv, NEW record \in StampedRecord, record.by \in Stamps,
         record.by.boot = process.boot, Arrives(record),
         PageTypes', UNCHANGED process, AnswersKnown
  PROVE  PageInv'
<1> DEFINE new == [by |-> record.by, arrival |-> arrivals + 1]
<1>1. CASE UNCHANGED <<arrivals, awaiting, shown>>
  BY <1>1, NothingNew DEF Arrived
<1>2. CASE ~ UNCHANGED <<arrivals, awaiting, shown>>
  <2>1. arrivals' = arrivals + 1 /\ arrivals \in Nat
    BY <1>2 DEF Arrives, PageInv, PageTypes
  <2>2. Arrived' \subseteq Arrived \cup {new}
    <3>1. CASE Shows(record, arrivals + 1) /\ UNCHANGED awaiting
      BY <3>1 DEF Shows, Arrived
    <3>2. CASE awaiting' = awaiting \cup {[of |-> record, arrival |-> arrivals + 1]} /\ UNCHANGED shown
      BY <3>2 DEF Arrived
    <3> QED
      BY <1>2, <3>1, <3>2 DEF Arrives
  <2>3. Stamps' \subseteq Stamps
    <3>1. \A a \in Arrived' : a.by \in Stamps
      BY <2>2 DEF Stamps
    <3>2. \A q \in Requests : asked'[q] = "answered" => answer'[q].by \in Stamps
      BY DEF AnswersKnown, Stamps
    <3>3. process' \in Stamps
      BY DEF Stamps
    <3> QED
      BY <3>1, <3>2, <3>3 DEF Stamps
  <2>4. StampsOrdered'
    BY <2>3 DEF PageInv, StampsOrdered, Before
  <2>5. \A a \in Arrived : a \in [by : Stamp, arrival : Nat] /\ a.arrival <= arrivals
    BY ArrivedTypes DEF PageInv, ArrivalsFollowBoots
  <2>6. \A a \in Arrived : a.by.boot <= process.boot
    <3>1. \A a \in Arrived : a.by \in Stamps
      BY DEF Stamps
    <3>2. process.boot \in Nat
      BY DEF PageInv, PageTypes, Stamp
    <3> QED
      BY <3>1, <3>2 DEF PageInv, StampsOrdered, Before
  <2>7. process.boot \in Nat /\ \A a \in Arrived : a.by.boot \in Nat
    BY <2>5 DEF PageInv, PageTypes, Stamp
  <2>8. ASSUME NEW a \in Arrived', NEW b \in Arrived', a.by.boot < b.by.boot
        PROVE  a.arrival < b.arrival
    <3>1. a \in Arrived \/ a = new
      BY <2>2
    <3>2. b \in Arrived \/ b = new
      BY <2>2
    <3>3. CASE a \in Arrived /\ b \in Arrived
      BY <2>8, <3>3 DEF PageInv, ArrivalsFollowBoots
    <3>4. CASE a \in Arrived /\ b = new
      BY <2>1, <2>5, <3>4
    <3>5. CASE a = new
      <4>1. a.by.boot = process.boot
        BY <3>5
      <4> QED
        BY <2>6, <2>7, <2>8, <3>2, <4>1
    <3> QED
      BY <3>1, <3>2, <3>3, <3>4, <3>5
  <2>9. \A a \in Arrived' : a.arrival <= arrivals'
    BY <2>1, <2>2, <2>5
  <2>10. \A q \in Requests : asked'[q] = "answered" => answer'[q].by.boot = process'.boot
    BY DEF AnswersKnown, PageInv, ArrivalsFollowBoots
  <2>11. ArrivalsFollowBoots'
    BY <2>8, <2>9, <2>10 DEF ArrivalsFollowBoots
  <2> QED
    BY <2>4, <2>11 DEF PageInv
<1> QED
  BY <1>1, <1>2

LEMMA ArrivalTypes ==
  ASSUME PageTypes, NEW record \in StampedRecord, Arrives(record)
  PROVE  /\ awaiting' \subseteq [of : StampedRecord, arrival : Nat]
         /\ shown' \in [rec : Record, by : Stamp, arrival : Nat]
         /\ arrivals' \in Nat
<1>1. arrivals + 1 \in Nat
  BY DEF PageTypes
<1> QED
  BY <1>1 DEF PageTypes, Arrives, Shows, StampedRecord

(* A new process serves: nothing is queued any more, and it comes after    *)
(* every process there was.                                                *)
LEMMA NewProcessKeeps ==
  ASSUME PageInv, NEW rebooted \in BOOLEAN, NewProcess(rebooted), process' \in Stamp,
         Before(process, process'),
         ~rebooted => process'.boot = process.boot
  PROVE  PageInv'
<1>1. /\ run' = Idle /\ unsent' = {} /\ scheduled' = <<>> /\ queue' = <<>>
      /\ UNCHANGED <<awaiting, shown, arrivals>>
      /\ asked' = [q \in Requests |-> IF Gone(q, rebooted) THEN "none" ELSE asked[q]]
      /\ answer' = [q \in Requests |-> IF Gone(q, rebooted) THEN NoAnswer ELSE answer[q]]
  BY DEF NewProcess, Unsubscribes
<1>2. PageTypes'
  <2>1. Idle \in Record /\ NoAnswer \in StampedRecord
    BY DEF Idle, Record, States, NoAnswer, Nothing, Stamped, StampedRecord, Stamp
  <2>2. asked' \in [Requests -> {"none", "get", "post", "begun", "refused", "answered"}]
    BY <1>1 DEF PageInv, PageTypes
  <2>3. answer' \in [Requests -> StampedRecord]
    BY <1>1, <2>1 DEF PageInv, PageTypes
  <2>4. scheduled' \in Seq(Current') /\ queue' \in Seq(Current')
    BY <1>1
  <2> QED
    BY <1>1, <2>1, <2>2, <2>3, <2>4 DEF PageInv, PageTypes
<1>3. \A q \in Requests : asked'[q] = "answered" =>
        ~rebooted /\ asked[q] = "answered" /\ answer'[q] = answer[q]
  BY <1>1 DEF Gone
<1>4. Arrived' = Arrived
  BY <1>1 DEF Arrived
<1>5. Stamps' \subseteq Stamps \cup {process'}
  BY <1>3, <1>4 DEF Stamps
<1>6. Stamps \subseteq Stamp /\ process \in Stamp
  BY ArrivedTypes DEF PageInv, PageTypes
<1>7. \A b \in Stamps : Before(b, process')
  <2>1. ASSUME NEW b \in Stamps PROVE Before(b, process')
    <3>1. b = process \/ Before(b, process)
      BY DEF PageInv, StampsOrdered
    <3> QED
      BY <1>6, <3>1 DEF Before, Stamp
  <2> QED
    BY <2>1
<1>8. StampsOrdered'
  <2>1. ASSUME NEW b \in Stamps', NEW c \in Stamps'
        PROVE  b = c \/ Before(b, c) \/ Before(c, b)
    BY <1>5, <1>7 DEF PageInv, StampsOrdered
  <2> QED
    BY <1>5, <1>7, <2>1 DEF StampsOrdered, Before
<1>9. ArrivalsFollowBoots'
  BY <1>1, <1>3, <1>4 DEF PageInv, ArrivalsFollowBoots
<1> QED
  BY <1>2, <1>8, <1>9 DEF PageInv

LEMMA PageStepKeeps ==
  ASSUME PageInv, Next \/ UNCHANGED vars
  PROVE  PageInv'
<1> USE DEF serverVars, busVars, pageVars, bounds, recordVars
<1>1. PageTypes
  BY DEF PageInv
<1>2. CASE RunMoves
  <2>1. Hears \/ Ends
    BY <1>2 DEF RunMoves
  <2>2. UNCHANGED <<process, scheduled, queue, asked, answer, awaiting, shown, arrivals>>
    BY <1>2 DEF RunMoves
  <2>3. PageTypes'
    BY <1>1, <2>1, <2>2, RecordTypes DEF PageTypes, Current
  <2> QED
    BY <2>2, <2>3, NothingNew DEF AnswersKnown, Arrived
<1>3. CASE Deliver
  <2>1. /\ UNCHANGED <<run, unsent, process, asked, answer, awaiting, shown, arrivals>>
        /\ Delivers
    BY <1>3 DEF Deliver
  <2>2. scheduled' \in Seq(Current) /\ queue' \in Seq(Current)
    BY <1>1, <2>1, PageDelivers DEF PageTypes
  <2>3. PageTypes'
    BY <1>1, <2>1, <2>2 DEF PageTypes, Current
  <2> QED
    BY <2>1, <2>3, NothingNew DEF AnswersKnown, Arrived
<1>4. ASSUME NEW record \in unsent, Publish(record) PROVE PageInv'
  <2>1. /\ UNCHANGED <<run, process, queue, asked, answer, awaiting, shown, arrivals>>
        /\ unsent' = unsent \ {record}
        /\ scheduled' = scheduled \/ scheduled' = Append(scheduled, Stamped(record, process))
    BY <1>4 DEF Publish, Publishes, Published
  <2>2. Stamped(record, process) \in Current
    BY <1>1 DEF PageTypes, Stamped, Current, StampedRecord
  <2>3. scheduled' \in Seq(Current)
    BY <1>1, <2>1, <2>2, Longer DEF PageTypes
  <2>4. PageTypes'
    BY <1>1, <2>1, <2>3 DEF PageTypes, Current
  <2> QED
    BY <2>1, <2>4, NothingNew DEF AnswersKnown, Arrived
<1>5. ASSUME UNCHANGED <<process, awaiting, shown, arrivals>>,
             run' \in Record, unsent' \subseteq Record,
             \/ UNCHANGED <<scheduled, queue>>
             \/ scheduled' = <<>> /\ queue' = <<>>,
             asked' \in [Requests -> {"none", "get", "post", "begun", "refused", "answered"}],
             answer' \in [Requests -> StampedRecord],
             AnswersKnown
      PROVE  PageInv'
  <2>1. scheduled' \in Seq(Current) /\ queue' \in Seq(Current)
    <3>1. <<>> \in Seq(Current)
      OBVIOUS
    <3> QED
      BY <1>1, <1>5, <3>1 DEF PageTypes
  <2>2. PageTypes'
    BY <1>1, <1>5, <2>1 DEF PageTypes, Current
  <2> QED
    BY <1>5, <2>2, NothingNew DEF Arrived
<1>6. ASSUME NEW q \in Requests, AnswersPost(q) PROVE PageInv'
  <2>1. run' \in Record /\ unsent' \subseteq Record
    BY <1>1, <1>6, RecordTypes DEF AnswersPost, PageTypes
  <2>2. asked' \in [Requests -> {"none", "get", "post", "begun", "refused", "answered"}]
    BY <1>1, <1>6 DEF AnswersPost, PageTypes
  <2>3. AnswersKnown
    BY <1>1, <1>6 DEF AnswersPost, AnswersKnown, PageTypes
  <2> QED
    BY <1>1, <1>5, <1>6, <2>1, <2>2, <2>3 DEF AnswersPost, PageTypes
<1>7. ASSUME NEW q \in Requests, AnswersGet(q) PROVE PageInv'
  <2>1. Stamped(run, process) \in StampedRecord /\ Stamped(run, process).by = process
    BY <1>1 DEF PageTypes, Stamped, StampedRecord
  <2>2. AnswersKnown
    BY <1>1, <1>7, <2>1 DEF AnswersGet, AnswersKnown, PageTypes
  <2> QED
    BY <1>1, <1>5, <1>7, <2>1, <2>2 DEF AnswersGet, PageTypes
<1>8. CASE Restart
  <2>1. /\ NewProcess(FALSE) /\ process \in Stamp
        /\ process' = [process EXCEPT !.epoch = @ + 1, !.since = @ + 1]
    BY <1>1, <1>8 DEF Restart, PageTypes
  <2>2. /\ process'.epoch = process.epoch + 1 /\ process'.boot = process.boot
        /\ process'.since = process.since + 1 /\ process' \in Stamp
        /\ process.epoch \in Nat /\ process.boot \in Nat /\ process.since \in Nat
    <3>1. process.epoch \in Nat /\ process.boot \in Nat /\ process.since \in Nat
      BY <2>1 DEF Stamp
    <3>2. process'.epoch = process.epoch + 1
      BY <2>1, <3>1 DEF Stamp
    <3>3. process'.boot = process.boot
      BY <2>1, <3>1 DEF Stamp
    <3>4. process'.since = process.since + 1
      BY <2>1, <3>1 DEF Stamp
    <3>5. process' \in Stamp
      <4>1. DOMAIN process' = DOMAIN process /\ process' = [x \in DOMAIN process |-> process'[x]]
        BY <2>1
      <4>2. DOMAIN process = {"epoch", "boot", "since"}
        BY <2>1 DEF Stamp
      <4>3. process' = [epoch |-> process'.epoch, boot |-> process'.boot, since |-> process'.since]
        BY <4>1, <4>2
      <4> QED
        BY <3>1, <3>2, <3>3, <3>4, <4>3 DEF Stamp
    <3> QED
      BY <3>1, <3>2, <3>3, <3>4, <3>5
  <2>3. Before(process, process')
    BY <2>2 DEF Before
  <2> QED
    BY <2>1, <2>2, <2>3, NewProcessKeeps
<1>9. CASE Reboot
  <2>1. /\ NewProcess(TRUE) /\ process \in Stamp
    BY <1>1, <1>9 DEF Reboot, PageTypes
  <2>2. PICK since \in 1..2 :
          process' = [epoch |-> process.epoch + 1, boot |-> process.boot + 1, since |-> since]
    BY <1>9 DEF Reboot
  <2>3. process.epoch \in Nat /\ process.boot \in Nat
    BY <2>1 DEF Stamp
  <2>4. process' \in Stamp /\ Before(process, process')
    BY <2>2, <2>3 DEF Stamp, Before
  <2> QED
    BY <2>1, <2>4, NewProcessKeeps
<1>10. ASSUME NEW q \in Requests, NEW what \in {"get", "post"}, Asks(q, what),
              UNCHANGED <<scheduled, queue>>
       PROVE  PageInv'
  <2>1. AnswersKnown
    BY <1>1, <1>10 DEF Asks, AnswersKnown, PageTypes
  <2> QED
    BY <1>1, <1>5, <1>10, <2>1 DEF Asks, PageTypes
<1>11. ASSUME NEW q \in Requests, Connects(q) \/ ComesBack(q) \/ Presses(q) PROVE PageInv'
  BY <1>10, <1>11 DEF Connects, Subscribes, ComesBack, Presses
<1>12. CASE Disconnects
  <2>1. AnswersKnown
    BY <1>12 DEF Disconnects, AnswersKnown
  <2> QED
    BY <1>1, <1>5, <1>12, <2>1 DEF Disconnects, Unsubscribes, PageTypes
<1>13. NoAnswer \in StampedRecord
  BY DEF Idle, Record, States, NoAnswer, Nothing, Stamped, StampedRecord, Stamp
<1>14. ASSUME NEW q \in Requests, Fails(q) PROVE PageInv'
  <2>1. AnswersKnown
    BY <1>1, <1>14 DEF Fails, AnswersKnown, PageTypes
  <2> QED
    BY <1>1, <1>5, <1>13, <1>14, <2>1 DEF Fails, PageTypes
<1>15. ASSUME NEW q \in Requests, AsksInstead(q) PROVE PageInv'
  <2>1. AnswersKnown
    BY <1>1, <1>15 DEF AsksInstead, AnswersKnown, PageTypes
  <2> QED
    BY <1>1, <1>5, <1>15, <2>1 DEF AsksInstead, PageTypes
<1>16. CASE EventArrives
  <2>1. /\ Head(queue) \in Current /\ queue' \in Seq(Current)
        /\ UNCHANGED <<run, unsent, process, scheduled, asked, answer>>
        /\ Arrives(Head(queue))
    BY <1>1, <1>16, Front DEF EventArrives, Streams, PageTypes
  <2>2. Head(queue) \in StampedRecord /\ Head(queue).by = process
    BY <2>1 DEF Current
  <2>3. PageTypes'
    BY <1>1, <2>1, <2>2, ArrivalTypes DEF PageTypes, Current
  <2> QED
    BY <2>1, <2>2, <2>3, ArrivalKeeps DEF AnswersKnown, Stamps
<1>17. ASSUME NEW q \in Requests, AnswerArrives(q) PROVE PageInv'
  <2>1. /\ asked[q] = "answered" /\ Arrives(answer[q])
        /\ UNCHANGED <<run, unsent, process, scheduled, queue>>
        /\ answer[q] \in StampedRecord
        /\ asked' = [asked EXCEPT ![q] = "none"]
        /\ answer' = [answer EXCEPT ![q] = NoAnswer]
    BY <1>1, <1>17 DEF AnswerArrives, PageTypes
  <2>2. answer[q].by \in Stamps /\ answer[q].by.boot = process.boot
    BY <2>1 DEF Stamps, PageInv, ArrivalsFollowBoots
  <2>3. asked' \in [Requests -> {"none", "get", "post", "begun", "refused", "answered"}]
    BY <1>1, <2>1 DEF PageTypes
  <2>4. answer' \in [Requests -> StampedRecord]
    BY <1>1, <1>13, <2>1 DEF PageTypes
  <2>5. PageTypes'
    BY <1>1, <2>1, <2>3, <2>4, ArrivalTypes DEF PageTypes, Current
  <2>6. AnswersKnown
    BY <1>1, <2>1 DEF AnswersKnown, PageTypes
  <2> QED
    BY <2>1, <2>2, <2>5, <2>6, ArrivalKeeps
<1>18. ASSUME NEW a \in awaiting, Resumes(a) PROVE PageInv'
  <2>1. /\ UNCHANGED <<run, unsent, process, scheduled, queue, asked, answer, arrivals>>
        /\ awaiting' = awaiting \ {a}
        /\ Shows(a.of, a.arrival) \/ UNCHANGED shown
    BY <1>18 DEF Resumes, TakenUp
  <2>2. a \in [of : StampedRecord, arrival : Nat]
    BY <1>1 DEF PageTypes
  <2>3. PageTypes'
    BY <1>1, <2>1, <2>2 DEF PageTypes, Current, Shows, StampedRecord
  <2>4. Arrived' \subseteq Arrived
    BY <2>1 DEF Arrived, Shows
  <2> QED
    BY <2>1, <2>3, <2>4, NothingNew DEF AnswersKnown
<1>19. CASE UNCHANGED vars
  <2>1. AnswersKnown
    BY <1>19 DEF vars, AnswersKnown
  <2> QED
    BY <1>1, <1>5, <1>19, <2>1 DEF vars, PageTypes
<1> QED
  BY <1>2, <1>3, <1>4, <1>6, <1>7, <1>8, <1>9, <1>11, <1>12, <1>14, <1>15, <1>16, <1>17, <1>18,
     <1>19
     DEF Next, ServerStep, PageStep

(* What `isNewer` calls newer is: of the same process and not older, or of *)
(* a process that started later.                                           *)
NotBack(by, rec) ==
  by.epoch > shown.by.epoch \/ (by = shown.by /\ rec.seq >= shown.rec.seq)

LEMMA NewerIsLater ==
  ASSUME PageInv, shown # Nothing, NEW record \in StampedRecord, NEW arrival \in Nat,
         record.by \in Stamps,
         record.by.boot < shown.by.boot => arrival < shown.arrival,
         IsNewer(record, arrival)
  PROVE  NotBack(record.by, record.rec)
<1>1. shown.by \in Stamps
  <2>1. [by |-> shown.by, arrival |-> shown.arrival] \in Arrived
    BY DEF Arrived
  <2> QED
    BY <2>1 DEF Stamps
<1>2. record.by \in Stamp /\ shown.by \in Stamp /\ shown.arrival \in Nat
  BY DEF PageInv, PageTypes, StampedRecord
<1>3. record.by = shown.by \/ Before(record.by, shown.by) \/ Before(shown.by, record.by)
  BY <1>1 DEF PageInv, StampsOrdered
<1> QED
  BY <1>2, <1>3 DEF IsNewer, NotBack, Before, Stamp

LEMMA ShownStep ==
  ASSUME PageInv, Next, shown # Nothing, shown' # shown
  PROVE  NotBack(shown'.by, shown'.rec)
<1> USE DEF serverVars, busVars, pageVars, bounds
<1>1. PageTypes
  BY DEF PageInv
<1>2. ASSUME NEW record \in StampedRecord, record.by \in Stamps,
             record.by.boot = process.boot, Arrives(record)
      PROVE  NotBack(shown'.by, shown'.rec)
  <2>1. Shows(record, arrivals + 1) /\ IsNewer(record, arrivals + 1)
    BY <1>2 DEF Arrives
  <2>2. ~(process.boot < shown.by.boot)
    <3>1. [by |-> shown.by, arrival |-> shown.arrival] \in Arrived
      BY DEF Arrived
    <3>2. shown.by \in Stamps
      BY <3>1 DEF Stamps
    <3>3. shown.by \in Stamp /\ process \in Stamp
      BY <1>1 DEF PageTypes
    <3> QED
      BY <3>2, <3>3 DEF PageInv, StampsOrdered, Before, Stamp
  <2>3. NotBack(record.by, record.rec)
    BY <1>1, <1>2, <2>1, <2>2, NewerIsLater DEF PageTypes
  <2> QED
    BY <2>1, <2>3 DEF Shows
<1>3. CASE EventArrives
  <2>1. Head(queue) \in Current /\ Arrives(Head(queue))
    BY <1>1, <1>3, Front DEF EventArrives, Streams, PageTypes
  <2> QED
    BY <1>2, <2>1 DEF Current, Stamps
<1>4. ASSUME NEW q \in Requests, AnswerArrives(q) PROVE NotBack(shown'.by, shown'.rec)
  <2>1. asked[q] = "answered" /\ Arrives(answer[q]) /\ answer[q] \in StampedRecord
    BY <1>1, <1>4 DEF AnswerArrives, PageTypes
  <2>2. answer[q].by \in Stamps /\ answer[q].by.boot = process.boot
    BY <2>1 DEF Stamps, PageInv, ArrivalsFollowBoots
  <2> QED
    BY <1>2, <2>1, <2>2
<1>5. ASSUME NEW a \in awaiting, Resumes(a) PROVE NotBack(shown'.by, shown'.rec)
  <2>1. Shows(a.of, a.arrival) /\ IsNewer(a.of, a.arrival)
    BY <1>5 DEF Resumes, TakenUp
  <2>2. a.of \in StampedRecord /\ a.arrival \in Nat /\ shown.arrival \in Nat
    BY <1>1 DEF PageTypes
  <2>3. /\ [by |-> shown.by, arrival |-> shown.arrival] \in Arrived
        /\ [by |-> a.of.by, arrival |-> a.arrival] \in Arrived
    BY DEF Arrived
  <2>4. a.of.by \in Stamps
    BY <2>3 DEF Stamps
  <2>5. a.of.by.boot < shown.by.boot => a.arrival < shown.arrival
    BY <2>3 DEF PageInv, ArrivalsFollowBoots
  <2>6. NotBack(a.of.by, a.of.rec)
    BY <2>1, <2>2, <2>4, <2>5, NewerIsLater
  <2> QED
    BY <2>1, <2>6 DEF Shows
<1>6. CASE UNCHANGED shown
  BY <1>6
<1>7. CASE RunMoves \/ Deliver \/ (\E record \in unsent : Publish(record)) \/ Disconnects
  BY <1>6, <1>7 DEF RunMoves, Deliver, Publish, Disconnects
<1>8. CASE Restart \/ Reboot
  BY <1>6, <1>8 DEF Restart, Reboot, NewProcess
<1>9. ASSUME NEW q \in Requests,
             \/ AnswersPost(q) \/ AnswersGet(q) \/ AsksInstead(q)
             \/ Connects(q) \/ ComesBack(q) \/ Presses(q) \/ Fails(q)
      PROVE  FALSE
  BY <1>6, <1>9 DEF AnswersPost, AnswersGet, AsksInstead, Connects, ComesBack, Presses, Asks, Fails
<1> QED
  BY <1>3, <1>4, <1>5, <1>7, <1>8, <1>9 DEF Next, ServerStep, PageStep

-----------------------------------------------------------------------------
(* The two documents.                                                      *)

PagesInv == ListInv /\ PageInv /\ SilentOnlyWhenLive

pagesVars == <<document, vars, listVars>>

LEMMA InitPages ==
  ASSUME PagesInit
  PROVE  PagesInv
<1>1. ListInv /\ SilentOnlyWhenLive
  <2>1. /\ List!BusInit /\ listUnsent = {} /\ listed = 0
        /\ version \in Nat /\ announcing = 0 /\ strip = "connecting"
        /\ fetches \subseteq {List!Asked(1)} /\ generation = 1
        /\ held = List!NotHeld
    BY DEF PagesInit, NoList, List!Init
  <2>2. listScheduled = <<>> /\ listQueue = <<>>
    BY <2>1 DEF List!BusInit
  <2>3. /\ List!Asked(1) \in Fetch /\ List!Asked(1).at = "asked"
        /\ List!Asked(1).row = 0 /\ List!Asked(1).generation = 1
    BY DEF Fetch, List!Asked
  <2>4. held \in [generation : Nat, row : Nat] /\ held.generation = 0
    BY <2>1 DEF List!NotHeld
  <2>5. OnTheWay
    BY <2>1, <2>2 DEF OnTheWay
  <2>6. RowsKnown
    BY <2>1, <2>3, <2>4 DEF RowsKnown
  <2>7. Generations /\ OwnerOfThePage /\ HeldWasHeard
    BY <2>1, <2>3, <2>4 DEF Generations, OwnerOfThePage, HeldWasHeard
  <2> QED
    BY <2>1, <2>5, <2>6, <2>7 DEF ListInv, SilentOnlyWhenLive, List!SilentOnlyWhenLive
<1>2. PageInv
  <2>1. Init
    BY DEF PagesInit
  <2>2. Idle \in Record /\ NoAnswer \in StampedRecord
        /\ Nothing \in [rec : Record, by : Stamp, arrival : Nat]
    BY DEF Idle, Record, States, NoAnswer, Nothing, Stamped, StampedRecord, Stamp
  <2>3. PageTypes
    BY <2>1, <2>2 DEF Init, RecordInit, BusInit, PageTypes, Stamp
  <2>4. Arrived = {}
    BY <2>1 DEF Init, Arrived
  <2>5. \A q \in Requests : asked[q] # "answered"
    BY <2>1 DEF Init
  <2>6. Stamps = {process}
    BY <2>4, <2>5 DEF Stamps
  <2> QED
    BY <2>3, <2>4, <2>5, <2>6 DEF PageInv, StampsOrdered, ArrivalsFollowBoots
<1> QED
  BY <1>1, <1>2 DEF PagesInv

LEMMA PagesStep ==
  ASSUME PagesInv, [PagesNext]_pagesVars
  PROVE  PagesInv'
<1>1. List!Next \/ UNCHANGED listVars
  BY DEF PagesNext, pagesVars
<1>2. Next \/ UNCHANGED vars
  BY DEF PagesNext, pagesVars
<1> QED
  BY <1>1, <1>2, ListStep, PageStepKeeps, SilentStep DEF PagesInv

LEMMA AlwaysPages == PagesSpec => []PagesInv
<1>1. PagesSpec => PagesInit /\ [][PagesNext]_pagesVars
  BY DEF PagesSpec, pagesVars
<1> QED
  BY <1>1, InitPages, PagesStep, PTL

(* A strip that says nothing stands over a stream that is open: a dead one *)
(* is never said live (listing.js, refresh; #72).                          *)
THEOREM SilentIsLive == PagesSpec => []SilentOnlyWhenLive
<1>1. PagesInv => SilentOnlyWhenLive
  BY DEF PagesInv
<1> QED
  BY <1>1, AlwaysPages, PTL

(* A listing that lands takes nothing back, however listings and events    *)
(* cross (listing.js, takeHeld).                                           *)
THEOREM LandingKeeps == PagesSpec => LandingNeverGoesBack
<1>1. PagesInv /\ [PagesNext]_pagesVars =>
        [\A f \in fetches : List!LandsRead(f) => listed' >= listed]_(List!vars)
  <2>1. PagesInv /\ PagesNext /\ ~ UNCHANGED listVars => List!Next
    BY DEF PagesNext
  <2>2. UNCHANGED listVars => UNCHANGED List!vars
    BY DEF listVars, List!vars, List!serverVars, List!busVars, List!streamVars, List!listVars
  <2> QED
    BY <2>1, <2>2, Landing DEF PagesInv, pagesVars
<1>2. PagesSpec => [][PagesNext]_pagesVars
  BY DEF PagesSpec, pagesVars
<1> QED
  BY <1>1, <1>2, AlwaysPages, PTL DEF LandingNeverGoesBack, List!LandingNeverGoesBack

(* A listing asked for after the last event is what the page shows         *)
(* (listing.js, takeHeld).                                                 *)
THEOREM LaterWins == PagesSpec => LaterListingWins
<1>1. PagesInv /\ [PagesNext]_pagesVars =>
        [\A f \in fetches : List!LandsRead(f) /\ ~heardSince => listed' = f.row]_(List!vars)
  <2>1. PagesInv /\ PagesNext /\ ~ UNCHANGED listVars => List!Next
    BY DEF PagesNext
  <2>2. UNCHANGED listVars => UNCHANGED List!vars
    BY DEF listVars, List!vars, List!serverVars, List!busVars, List!streamVars, List!listVars
  <2> QED
    BY <2>1, <2>2, Landing DEF PagesInv, pagesVars
<1>2. PagesSpec => [][PagesNext]_pagesVars
  BY DEF PagesSpec, pagesVars
<1> QED
  BY <1>1, <1>2, AlwaysPages, PTL DEF LaterListingWins, List!LaterListingWins

(* What replaces a record on screen is of the same process and not older,  *)
(* or of a process that started later (plugins.js, isNewer; #314, #348).   *)
THEOREM ShownMovesOn == PagesSpec => ShownNeverGoesBack
<1>1. PagesInv /\ [PagesNext]_pagesVars =>
        [shown # Nothing /\ shown' # shown =>
           \/ shown'.by.epoch > shown.by.epoch
           \/ shown'.by = shown.by /\ shown'.rec.seq >= shown.rec.seq]_vars
  <2>1. PagesInv /\ PagesNext /\ ~ UNCHANGED vars => Next
    BY DEF PagesNext
  <2> QED
    BY <2>1, ShownStep DEF PagesInv, pagesVars, NotBack
<1>2. PagesSpec => [][PagesNext]_pagesVars
  BY DEF PagesSpec, pagesVars
<1> QED
  BY <1>1, <1>2, AlwaysPages, PTL DEF ShownNeverGoesBack
=============================================================================
