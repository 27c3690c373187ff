----------------------------- MODULE FoldersProofs -----------------------------
(***************************************************************************)
(* What a scan, a start and a create promise of the folders, for every     *)
(* tree, every set of roots and every number of requests and changes: the  *)
(* five properties of Folders.                                             *)
(*                                                                         *)
(* A walk along the links is a recursive function, Hops; what it computes  *)
(* is established from the least number that would refute it (UpTo), once  *)
(* for each fact: that it has the values its definition gives (Walk), stays*)
(* among the places, ends behind a link, and is the same walk as long as   *)
(* nothing on it changes (SameWalk).                                       *)
(***************************************************************************)
EXTENDS Folders, FiniteSetTheorems, WellFoundedInduction, TLAPS

-----------------------------------------------------------------------------
(* Walks along the links.                                                  *)

\* A set of numbers has a least one.
LEMMA Least ==
  ASSUME NEW S \in SUBSET Nat, S # {}
  PROVE  \E x \in S : \A y \in S : x <= y
<1>1. \E x \in S : \A y \in S : ~ (<<y, x>> \in OpToRel(<,Nat))
  BY NatLessThanWellFounded, WFMin
<1>2. PICK x \in S : \A y \in S : ~ (<<y, x>> \in OpToRel(<,Nat))
  BY <1>1
<1>3. ASSUME NEW y \in S PROVE x <= y
  <2>1. x \in Nat /\ y \in Nat
    OBVIOUS
  <2>2. ~(y < x)
    BY <1>2, <2>1 DEF OpToRel
  <2> QED BY <2>1, <2>2
<1> QED BY <1>3

\* What holds of 0 and of every next number holds up to the last.
LEMMA UpTo ==
  ASSUME NEW N \in Nat, NEW T, 0 \in T, \A n \in 0..N : n < N /\ n \in T => n + 1 \in T
  PROVE  \A n \in 0..N : n \in T
<1> SUFFICES ASSUME {n \in 0..N : n \notin T} # {} PROVE FALSE
  OBVIOUS
<1>1. PICK m \in {n \in 0..N : n \notin T} : \A k \in {n \in 0..N : n \notin T} : m <= k
  <2> DEFINE S == {n \in 0..N : n \notin T}
  <2>1. S \in SUBSET Nat /\ S # {}
    OBVIOUS
  <2> HIDE DEF S
  <2>2. \E m \in S : \A k \in S : m <= k
    BY <2>1, Least
  <2> QED BY <2>2 DEF S
<1>2. m - 1 \in 0..N /\ m - 1 < N /\ m - 1 \in T
  BY <1>1
<1> QED BY <1>1, <1>2

\* The shape of every request, agent and entry.

Ends == Places \cup {Outside}

ScanReq ==
    [op : {"start", "list"}, at : {"root", "entries", "listed"}, asked : Places,
     roots : Seq(Roots), todo : Seq(Places),
     projects : SUBSET [name : Places, dir : Places],
     unsupported : SUBSET [name : Places,
                           why : {"broken", "name", "outside", "alias", "unreadable"},
                           dir : Ends],
     disturbed : SUBSET Places]
HeldReq == [op : {"start"}, at : {"lock", "look", "spawn"}, asked : Places, dir : Places]
CreateReq == [op : {"create"}, at : {"create", "mkdir"}, asked : Places]
Answers ==
    {"none", "listing", "root_unavailable", "unknown_project", "operator_disabled", "locked",
     "already_running", "started", "invalid_name", "internal_error", "already_exists", "created"}
DoneReq == [op : {"none", "start", "list", "create"}, at : {"idle"}, answer : Answers]

TypeOK ==
    /\ entry \in [Places -> Makeable]
    /\ up \subseteq Roots
    /\ agents \subseteq [name : Places, dir : Places]
    /\ req \in [Threads -> ScanReq \cup HeldReq \cup CreateReq \cup DoneReq]

Step(q) == IF At(q).kind = "link" THEN At(q).to ELSE q
MaxHops == Cardinality(Places)

\* A walk has as many hops as there are places, at most.
LEMMA MaxHopsNat == MaxHops \in Nat
BY FS_CardinalityType, FoldersAssumption DEF MaxHops

\* Hops(p) is the function its recursion describes.
LEMMA Walk == \A p : Hops(p) = [n \in 0..MaxHops |-> IF n = 0 THEN p ELSE Step(Hops(p)[n-1])]
<1> TAKE p
<1> DEFINE IsWalk(f, k) == f = [n \in 0..k |-> IF n = 0 THEN p ELSE Step(f[n-1])]
           T == {k \in Nat : \E f : IsWalk(f, k)}
<1>1. 0 \in T
  <2>1. IsWalk([n \in 0..0 |-> p], 0)
    OBVIOUS
  <2> QED BY <2>1
<1>2. ASSUME NEW k \in 0..MaxHops, k < MaxHops, k \in T PROVE k + 1 \in T
  <2>1. PICK f : IsWalk(f, k)
    BY <1>2
  <2> DEFINE g == [n \in 0..(k+1) |-> IF n = k + 1 THEN Step(f[k]) ELSE f[n]]
  <2>0. k \in Nat
    BY MaxHopsNat
  <2>3. f = [n \in 0..k |-> IF n = 0 THEN p ELSE Step(f[n-1])]
    BY <2>1
  <2>2. ASSUME NEW n \in 0..(k+1) PROVE g[n] = IF n = 0 THEN p ELSE Step(g[n-1])
    <3>1. CASE n = k + 1
      <4>1. g[n] = Step(f[k]) /\ g[n-1] = f[k] /\ n # 0
        BY <3>1, <2>0
      <4> QED BY <4>1
    <3>2. CASE n # k + 1 /\ n # 0
      <4>1. n \in 0..k /\ n - 1 \in 0..k /\ n-1 # k+1
        BY <3>2, <2>0
      <4>2. g[n] = f[n] /\ g[n-1] = f[n-1]
        BY <4>1, <2>0, <3>2
      <4>3. f[n] = Step(f[n-1])
        BY <2>3, <4>1, <3>2
      <4> QED BY <4>2, <4>3, <3>2
    <3>3. CASE n = 0
      <4>1. f[0] = p
        BY <2>3, <2>0
      <4> QED BY <4>1, <3>3, <2>0
    <3> QED BY <3>1, <3>2, <3>3
  <2>4. IsWalk(g, k + 1)
    BY <2>2
  <2>5. \E f1 : IsWalk(f1, k + 1)
    <3> HIDE DEF g, IsWalk
    <3> QED BY <2>4
  <2>6. k + 1 \in Nat
    BY <2>0
  <2> HIDE DEF IsWalk
  <2> QED BY <2>5, <2>6
<1>3. MaxHops \in T
  <2> HIDE DEF T
  <2> QED BY MaxHopsNat, <1>1, <1>2, UpTo
<1>4. PICK f : IsWalk(f, MaxHops)
  BY <1>3
<1>5. Hops(p) = CHOOSE h : IsWalk(h, MaxHops)
  BY DEF Hops, Step, MaxHops
<1> QED BY <1>4, <1>5

\* What a walk along the links is, step by step.
WalkLaws(p) ==
    /\ Hops(p) = [n \in 0..MaxHops |-> Hops(p)[n]]
    /\ Hops(p)[0] = p
    /\ \A n \in 0..MaxHops : n < MaxHops => n + 1 \in 0..MaxHops /\ Hops(p)[n + 1] = Step(Hops(p)[n])
    /\ Real(p) = Hops(p)[MaxHops] /\ p \in Chain(p) /\ Real(p) \in Chain(p)
    /\ \A q \in Chain(p) : \E n \in 0..MaxHops : q = Hops(p)[n]
    /\ \A n \in 0..MaxHops : Hops(p)[n] \in Chain(p)

\* Every walk follows these laws.
LEMMA WalkIs == \A p : WalkLaws(p)
<1> TAKE p
<1>1. Hops(p) = [n \in 0..MaxHops |-> IF n = 0 THEN p ELSE Step(Hops(p)[n-1])]
  BY Walk
<1>2. DOMAIN Hops(p) = 0..MaxHops
  BY <1>1
<1>3. Hops(p)[0] = p
  BY <1>1, MaxHopsNat
<1>4. ASSUME NEW n \in 0..MaxHops, n < MaxHops
      PROVE n + 1 \in 0..MaxHops /\ Hops(p)[n + 1] = Step(Hops(p)[n])
  <2>1. n + 1 \in 0..MaxHops /\ n + 1 # 0 /\ (n + 1) - 1 = n
    BY <1>4, MaxHopsNat
  <2> QED BY <2>1, <1>1
<1>5. Real(p) = Hops(p)[MaxHops] /\ MaxHops \in 0..MaxHops /\ 0 \in 0..MaxHops
  BY MaxHopsNat DEF Real, MaxHops
<1>6. Hops(p) = [n \in 0..MaxHops |-> Hops(p)[n]]
  BY <1>1
<1> QED BY <1>2, <1>3, <1>4, <1>5, <1>6 DEF Chain, WalkLaws

\* And so it does in the next state.
LEMMA WalkIsNext == (\A p : WalkLaws(p))'
BY WalkIs, PTL

USE DEF WalkLaws

\* What a walk through the links meets.
LEMMA AtIs ==
  ASSUME TypeOK, NEW q \in Ends
  PROVE  /\ At(q) \in Makeable
         /\ Step(q) \in Ends
         /\ At(q).kind = "link" =>
              /\ q \in Places /\ q[1] \in up /\ entry[q] = At(q)
              /\ At(q) = LinkTo(At(q).to) /\ At(q).to \in Ends
              /\ UnlistedTargets \/ At(q).to = Outside \/ At(q).to[2] \in Proper
         /\ At(q).kind = "dir" => At(q) = Folder
<1>1. At(q) \in Makeable
  BY DEF TypeOK, At, Ends, Makeable
<1>2. ASSUME At(q).kind = "link"
      PROVE /\ q \in Places /\ q[1] \in up /\ entry[q] = At(q)
            /\ At(q) = LinkTo(At(q).to) /\ At(q).to \in Ends
            /\ UnlistedTargets \/ At(q).to = Outside \/ At(q).to[2] \in Proper
  <2>1. At(q) # Folder /\ At(q) # Nothing
    BY <1>2 DEF Folder, Nothing
  <2>2. q \in Places /\ q[1] \in up /\ entry[q] = At(q)
    BY <2>1 DEF At, Ends
  <2>3. \/ At(q) = LinkTo(Outside)
        \/ \E x \in Places : At(q) = LinkTo(x) /\ (UnlistedTargets \/ x[2] \in Proper)
    BY <1>1, <1>2 DEF Makeable, Nothing, File, Folder
  <2> QED BY <2>2, <2>3 DEF LinkTo, Ends
<1>3. At(q).kind = "dir" => At(q) = Folder
  BY <1>1 DEF Makeable, Nothing, File, Folder, LinkTo
<1> QED BY <1>1, <1>2, <1>3 DEF Step

\* A walk stays among the places and the directory outside.
LEMMA WalkStays ==
  ASSUME TypeOK, NEW p \in Ends
  PROVE  Chain(p) \subseteq Ends /\ Real(p) \in Ends
<1> DEFINE T == {n \in 0..MaxHops : Hops(p)[n] \in Ends}
<1>1. 0 \in T
  BY WalkIs, MaxHopsNat
<1>2. ASSUME NEW n \in 0..MaxHops, n < MaxHops, n \in T PROVE n + 1 \in T
  BY <1>2, WalkIs, AtIs
<1>3. \A n \in 0..MaxHops : n \in T
  <2> HIDE DEF T
  <2> QED BY <1>1, <1>2, UpTo, MaxHopsNat
<1> QED BY <1>3, WalkIs

\* What is no link is where its own walk ends.
LEMMA NoLink ==
  ASSUME NEW p, At(p).kind # "link"
  PROVE  Real(p) = p /\ Chain(p) = {p}
<1> DEFINE T == {n \in 0..MaxHops : Hops(p)[n] = p}
<1>1. 0 \in T
  BY WalkIs, MaxHopsNat
<1>2. ASSUME NEW n \in 0..MaxHops, n < MaxHops, n \in T PROVE n + 1 \in T
  BY <1>2, WalkIs DEF Step
<1>3. \A n \in 0..MaxHops : n \in T
  <2> HIDE DEF T
  <2> QED BY <1>1, <1>2, UpTo, MaxHopsNat
<1>4. \A n \in 0..MaxHops : Hops(p)[n] = p
  BY <1>3
<1> QED BY <1>4, WalkIs, MaxHopsNat

\* A walk that ends elsewhere ends behind a link.
LEMMA LastLink ==
  ASSUME TypeOK, NEW p \in Ends, Real(p) # p
  PROVE  \E y \in Chain(p) : At(y) = LinkTo(Real(p)) /\ y \in Ends
<1> DEFINE T == {n \in 0..MaxHops : Hops(p)[n] = p \/ \E y \in Chain(p) : At(y) = LinkTo(Hops(p)[n])}
<1>1. 0 \in T
  BY WalkIs, MaxHopsNat
<1>2. ASSUME NEW n \in 0..MaxHops, n < MaxHops, n \in T PROVE n + 1 \in T
  <2>1. Hops(p)[n] \in Chain(p)
    BY WalkIs DEF Chain
  <2>2. n + 1 \in 0..MaxHops /\ Hops(p)[n + 1] = Step(Hops(p)[n])
    BY <1>2, WalkIs
  <2>3. CASE At(Hops(p)[n]).kind = "link"
    <3>1. At(Hops(p)[n]) = LinkTo(Hops(p)[n + 1])
      BY <2>1, <2>2, <2>3, WalkStays, AtIs DEF Step
    <3> QED BY <3>1, <2>1, <2>2
  <2>4. CASE At(Hops(p)[n]).kind # "link"
    BY <2>2, <2>4, <1>2 DEF Step
  <2> QED BY <2>3, <2>4
<1>3. \A n \in 0..MaxHops : n \in T
  <2> HIDE DEF T
  <2> QED BY <1>1, <1>2, UpTo, MaxHopsNat
<1>4. MaxHops \in T
  BY <1>3, MaxHopsNat
<1> QED BY <1>4, WalkIs, WalkStays

\* On the way to what is no link, every place is a link to the next.
LEMMA Onward ==
  ASSUME NEW p, At(Real(p)).kind # "link", NEW y \in Chain(p), y # Real(p)
  PROVE  At(y).kind = "link" /\ At(y).to \in Chain(p) /\ At(y).to # y
<1>1. PICK k \in 0..MaxHops : y = Hops(p)[k]
  BY WalkIs
<1>2. ASSUME Step(y) = y PROVE FALSE
  <2> DEFINE T == {n \in 0..MaxHops : n >= k => Hops(p)[n] = y}
  <2>1. 0 \in T
    BY <1>1, MaxHopsNat
  <2>2. ASSUME NEW n \in 0..MaxHops, n < MaxHops, n \in T PROVE n + 1 \in T
    <3>1. n + 1 \in 0..MaxHops /\ Hops(p)[n + 1] = Step(Hops(p)[n])
      BY <2>2, WalkIs
    <3> QED BY <3>1, <2>2, <1>1, <1>2
  <2>3. \A n \in 0..MaxHops : n \in T
    <3> HIDE DEF T
    <3> QED BY <2>1, <2>2, UpTo, MaxHopsNat
  <2>4. MaxHops \in T /\ MaxHops >= k
    BY <2>3, MaxHopsNat
  <2> QED BY <2>4, WalkIs
<1>3. At(y).kind = "link" /\ At(y).to # y
  BY <1>2 DEF Step
<1>4. k < MaxHops
  BY <1>1, WalkIs, MaxHopsNat
<1>5. k + 1 \in 0..MaxHops /\ Hops(p)[k + 1] = At(y).to
  BY <1>1, <1>3, <1>4, WalkIs DEF Step
<1> QED BY <1>3, <1>5, WalkIs DEF Chain

\* A walk nobody touched is the walk it was.
LEMMA SameWalk ==
  ASSUME NEW p, (\A q \in Chain(p) : At(q)' = At(q)) \/ (\A q \in Chain(p)' : At(q)' = At(q))
  PROVE  Hops(p)' = Hops(p) /\ Real(p)' = Real(p) /\ Chain(p)' = Chain(p)
<1> DEFINE T == {n \in 0..MaxHops : (Hops(p)[n])' = Hops(p)[n]}
<1>0. /\ (Hops(p)[0])' = p
      /\ \A n \in 0..MaxHops : n < MaxHops => n + 1 \in 0..MaxHops /\ (Hops(p)[n + 1])' = Step(Hops(p)[n])'
      /\ \A n \in 0..MaxHops : (Hops(p)[n])' \in Chain(p)'
  BY WalkIsNext DEF Chain
<1>1. 0 \in T
  BY <1>0, WalkIs, MaxHopsNat
<1>2. ASSUME NEW n \in 0..MaxHops, n < MaxHops, n \in T PROVE n + 1 \in T
  <2>1. Hops(p)[n] \in Chain(p) /\ (Hops(p)[n])' \in Chain(p)'
    BY <1>0, WalkIs DEF Chain
  <2>2. At(Hops(p)[n])' = At(Hops(p)[n])
    BY <2>1, <1>2
  <2> QED BY <2>2, <1>0, <1>2, WalkIs DEF Step
<1>3. \A n \in 0..MaxHops : n \in T
  <2> HIDE DEF T
  <2> QED BY <1>1, <1>2, UpTo, MaxHopsNat
<1>4. \A n \in 0..MaxHops : (Hops(p)[n])' = Hops(p)[n]
  BY <1>3
<1>5. Hops(p)' = [n \in 0..MaxHops |-> (Hops(p)[n])'] /\ Hops(p) = [n \in 0..MaxHops |-> Hops(p)[n]]
  BY WalkIsNext, WalkIs
<1>6. Hops(p)' = Hops(p)
  BY <1>4, <1>5
<1> QED BY <1>6 DEF Real, Chain

-----------------------------------------------------------------------------
(* Every kind of request keeps its shape.                                  *)

Among(x, s) == \E i \in DOMAIN s : s[i] = x
Apart(s) == \A i, j \in DOMAIN s : s[i] = s[j] => i = j

\* Every member of a finite set is in an ordering of it, once.
LEMMA Orderings ==
  ASSUME NEW S, IsFiniteSet(S), NEW s \in SetToSeqs(S)
  PROVE  s \in Seq(S) /\ Apart(s) /\ \A x \in S : Among(x, s)
<1>1. Cardinality(S) \in Nat
  BY FS_CardinalityType
<1>2. s \in [1..Cardinality(S) -> S] /\ \A i, j \in 1..Cardinality(S) : i # j => s[i] # s[j]
  BY DEF SetToSeqs
<1>3. s \in Injection(1..Cardinality(S), S)
  BY <1>2 DEF Injection, IsInjective
<1>4. IsFiniteSet(1..Cardinality(S)) /\ Cardinality(1..Cardinality(S)) = Cardinality(S)
  BY <1>1, FS_Interval
<1>5. s \in Surjection(1..Cardinality(S), S)
  BY <1>3, <1>4, FS_Injection
<1>6. \A x \in S : Among(x, s)
  BY <1>2, <1>5 DEF Surjection, Among
<1>7. Apart(s)
  BY <1>2 DEF Apart
<1>8. s \in Seq(S)
  BY <1>1, <1>2
<1> QED BY <1>6, <1>7, <1>8

\* Which kind a request is of shows in where it is, and in its fields.
LEMMA Kinds ==
  ASSUME NEW r \in ScanReq \cup HeldReq \cup CreateReq \cup DoneReq
  PROVE  /\ r \in ScanReq <=> r.at \in {"root", "entries", "listed"}
         /\ r \in HeldReq <=> r.at \in {"lock", "look", "spawn"}
         /\ r \in CreateReq <=> r.at \in {"create", "mkdir"}
         /\ r \in DoneReq <=> r.at = "idle"
         /\ "disturbed" \in DOMAIN r <=> r \in ScanReq
BY DEF ScanReq, HeldReq, CreateReq, DoneReq

\* A scan that has just been asked for.
LEMMA ScanAsked ==
  ASSUME NEW op \in {"start", "list"}, NEW p \in Places, NEW r \in Scans(op, p)
  PROVE  /\ r \in ScanReq /\ r.op = op /\ r.asked = p /\ r.todo = <<>>
         /\ r.at = IF r.roots = <<>> THEN "listed" ELSE "root"
         /\ r.projects = {} /\ r.unsupported = {} /\ r.disturbed = {}
         /\ Apart(r.roots) /\ \A x \in ToScanSet(op) : Among(x, r.roots)
<1>1. PICK roots \in InOrder(ToScanSet(op), ConfiguredFirst) : r = Scan(op, p, roots)
  BY DEF Scans
<1>2. roots \in SetToSeqs(ToScanSet(op))
  BY DEF InOrder
<1>3. ToScanSet(op) \in SUBSET Roots
  BY DEF ToScanSet, ActiveRoots
<1>4. IsFiniteSet(ToScanSet(op))
  BY <1>3, FS_Subset, FoldersAssumption
<1>5. roots \in Seq(ToScanSet(op)) /\ Apart(roots) /\ \A x \in ToScanSet(op) : Among(x, roots)
  BY <1>2, <1>4, Orderings
<1>6. roots \in Seq(Roots)
  BY <1>3, <1>5
<1>7. r \in ScanReq
  BY <1>1, <1>6 DEF Scan, ScanReq
<1> QED BY <1>1, <1>5, <1>7 DEF Scan

\* The request `r` that reading the next root makes of `q`.
ReadIn(q, todo, r) ==
    /\ r \in ScanReq
    /\ r.op = q.op /\ r.asked = q.asked /\ r.roots = Tail(q.roots) /\ r.todo = todo
    /\ r.projects = q.projects /\ r.unsupported = q.unsupported /\ r.disturbed = q.disturbed
    /\ r.at = IF r.todo # <<>> THEN "entries" ELSE IF r.roots # <<>> THEN "root" ELSE "listed"
    /\ Apart(todo)
    /\ \A x \in Places : Among(x, todo) <=> x[1] = Head(q.roots) /\ At(x) # Nothing
    /\ \A i, j \in DOMAIN todo : i < j => DedupFirst(todo[i], todo[j])

\* Reading the next root makes the request ReadIn describes.
LEMMA RootRead ==
  ASSUME TypeOK, NEW q \in ScanReq, q.roots # <<>>,
         NEW todo \in Readings(Head(q.roots))
  PROVE  ReadIn(q, todo, Along([q EXCEPT !.roots = Tail(@), !.todo = todo]))
<1> DEFINE r == Along([q EXCEPT !.roots = Tail(@), !.todo = todo])
           found == {p \in Places : p[1] = Head(q.roots) /\ At(p) # Nothing}
<1>1. todo \in SetToSeqs(found) /\ \A i, j \in DOMAIN todo : i < j => DedupFirst(todo[i], todo[j])
  BY DEF InOrder, Readings
<1>2. IsFiniteSet(found)
  BY FS_Subset, FoldersAssumption
<1>3. todo \in Seq(found) /\ Apart(todo) /\ \A x \in found : Among(x, todo)
  BY <1>1, <1>2, Orderings
<1>4. todo \in Seq(Places) /\ \A i \in DOMAIN todo : todo[i] \in found
  BY <1>3
<1>5. \A x \in Places : Among(x, todo) <=> x[1] = Head(q.roots) /\ At(x) # Nothing
  BY <1>3, <1>4 DEF Among
<1>6. Tail(q.roots) \in Seq(Roots)
  BY DEF ScanReq
<1>7. r = [q EXCEPT !.roots = Tail(q.roots), !.todo = todo,
                    !.at = IF todo # <<>> THEN "entries"
                           ELSE IF Tail(q.roots) # <<>> THEN "root" ELSE "listed"]
  BY DEF Along, ScanReq
<1> HIDE DEF r
<1>8. r \in ScanReq
  BY <1>4, <1>6, <1>7 DEF ScanReq
<1> QED BY <1>1, <1>3, <1>5, <1>7, <1>8 DEF ScanReq, r, ReadIn

Verdicts == {"broken", "name", "outside", "alias", "unreadable", "skipped", "project"}

\* The request `r` that looking at the next entry makes of `q`.
Looked(q, v, r) ==
    LET p == Head(q.todo)
    IN  /\ r \in ScanReq /\ p \in Places
        /\ r.op = q.op /\ r.asked = q.asked /\ r.roots = q.roots /\ r.disturbed = q.disturbed
        /\ r.todo = Tail(q.todo)
        /\ r.at = IF r.todo # <<>> THEN "entries" ELSE IF r.roots # <<>> THEN "root" ELSE "listed"
        /\ r.projects = IF v = "project" THEN q.projects \cup {[name |-> p, dir |-> Real(p)]}
                        ELSE q.projects
        /\ r.unsupported =
             IF v \in {"project", "skipped"} \/ p[2] \in Dotted THEN q.unsupported
             ELSE q.unsupported \cup {[name |-> p, why |-> v, dir |-> Real(p)]}

\* A look makes the request Looked describes.
LEMMA EntryNoted ==
  ASSUME TypeOK, NEW q \in ScanReq, q.todo # <<>>, NEW v \in Verdicts,
         v = "project" => Real(Head(q.todo)) # Outside
  PROVE  Looked(q, v, Along(Noted(q, Head(q.todo), v)))
<1> DEFINE p == Head(q.todo)
           r == Along(Noted(q, p, v))
<1>1. p \in Places /\ Tail(q.todo) \in Seq(Places)
  BY DEF ScanReq
<1>2. Real(p) \in Ends
  BY <1>1, WalkStays DEF Ends
<1> DEFINE n == Noted(q, p, v)
           ps == IF v = "project" THEN q.projects \cup {[name |-> p, dir |-> Real(p)]}
                 ELSE q.projects
           us == IF v \in {"project", "skipped"} \/ p[2] \in Dotted THEN q.unsupported
                 ELSE q.unsupported \cup {[name |-> p, why |-> v, dir |-> Real(p)]}
<1>3. ps \in SUBSET [name : Places, dir : Places]
  BY <1>1, <1>2 DEF ScanReq, Ends
<1>4. us \in SUBSET [name : Places,
                     why : {"broken", "name", "outside", "alias", "unreadable"}, dir : Ends]
  BY <1>1, <1>2 DEF ScanReq, Verdicts
<1>5. n = [q EXCEPT !.todo = Tail(q.todo), !.projects = ps, !.unsupported = us]
  <2>1. CASE v = "project"
    BY <2>1 DEF Noted, ScanReq
  <2>2. CASE v # "project" /\ (v = "skipped" \/ p[2] \in Dotted)
    BY <2>2 DEF Noted, ScanReq
  <2>3. CASE v # "project" /\ v # "skipped" /\ p[2] \notin Dotted
    BY <2>3 DEF Noted, ScanReq
  <2> QED BY <2>1, <2>2, <2>3
<1> HIDE DEF ps, us, n, p
<1>6. r = [q EXCEPT !.todo = Tail(q.todo), !.projects = ps, !.unsupported = us,
                    !.at = IF Tail(q.todo) # <<>> THEN "entries"
                           ELSE IF q.roots # <<>> THEN "root" ELSE "listed"]
  BY <1>5 DEF Along, ScanReq, n, p
<1> HIDE DEF r
<1>7. r \in ScanReq
  BY <1>1, <1>3, <1>4, <1>6 DEF ScanReq
<1>8. /\ r.op = q.op /\ r.asked = q.asked /\ r.roots = q.roots /\ r.disturbed = q.disturbed
      /\ r.todo = Tail(q.todo) /\ r.projects = ps /\ r.unsupported = us
      /\ r.at = IF r.todo # <<>> THEN "entries" ELSE IF r.roots # <<>> THEN "root" ELSE "listed"
  BY <1>6 DEF ScanReq
<1> QED BY <1>1, <1>7, <1>8 DEF ps, us, p, r, Looked

\* What a verdict says of the entry.
LEMMA VerdictIs ==
  ASSUME NEW p, NEW seen
  PROVE  /\ Verdict(p, seen) \in Verdicts \ {"unreadable"}
         /\ Verdict(p, seen) = "project" =>
              IsDir(p) /\ p[2] \in Proper /\ InsideRoot(p) /\ Real(p) \notin seen
         /\ Verdict(p, seen) = "alias" => Real(p) \in seen
         /\ Verdict(p, seen) = "skipped" => ~IsDir(p) /\ ~IsLink(p)
         /\ Verdict(p, seen) # "skipped" => IsDir(p) \/ IsLink(p)
BY DEF Verdict, Verdicts

-----------------------------------------------------------------------------
(* What a step does to the requests and the tree.                          *)

\* A step of one thread's request that leaves the tree alone.
OwnStep(t) ==
    /\ UNCHANGED <<entry, up>>
    /\ req' = [u \in Threads |-> req'[u]]
    /\ \A u \in Threads : u # t => req'[u] = req[u]

Finishes(t) == OwnStep(t) /\ req'[t] \in DoneReq

\* A request that is answered is done, and the others are not touched.
LEMMA OverIs ==
  ASSUME TypeOK, NEW t \in Threads, NEW answer \in Answers, req' = Over(t, answer)
  PROVE  /\ req'[t] \in DoneReq /\ req'[t].answer = answer
         /\ req' = [u \in Threads |-> req'[u]] /\ \A u \in Threads : u # t => req'[u] = req[u]
<1>1. req[t].op \in {"none", "start", "list", "create"}
  BY DEF TypeOK, ScanReq, HeldReq, CreateReq, DoneReq
<1>2. [op |-> req[t].op, at |-> "idle", answer |-> answer] \in DoneReq
  BY <1>1 DEF DoneReq
<1> QED BY <1>2 DEF Over, TypeOK

\* A request that has nothing under way asks for something.
LEMMA AskStep ==
  ASSUME TypeOK, NEW t \in Threads, Ask(t)
  PROVE  /\ OwnStep(t) /\ UNCHANGED agents /\ req[t] \in DoneReq
         /\ \/ req'[t] \in CreateReq /\ req'[t].at = "create"
            \/ \E op \in {"start", "list"}, p \in Places : req'[t] \in Scans(op, p)
<1>1. req[t] \in DoneReq /\ UNCHANGED <<entry, up, agents>>
  BY Kinds DEF TypeOK, Ask
<1>2. CASE \E p \in Places : \E r \in Scans("start", p) : req' = [req EXCEPT ![t] = r]
  BY <1>1, <1>2 DEF OwnStep, TypeOK
<1>3. CASE \E r \in Scans("list", CHOOSE p \in Places : TRUE) : req' = [req EXCEPT ![t] = r]
  <2>1. (CHOOSE p \in Places : TRUE) \in Places
    BY FoldersAssumption
  <2> QED BY <1>1, <1>3, <2>1 DEF OwnStep, TypeOK
<1>4. CASE \E p \in Places : req' = [req EXCEPT ![t] = [op |-> "create", at |-> "create", asked |-> p]]
  <2>1. PICK p \in Places : req' = [req EXCEPT ![t] = [op |-> "create", at |-> "create", asked |-> p]]
    BY <1>4
  <2>2. [op |-> "create", at |-> "create", asked |-> p] \in CreateReq
    BY DEF CreateReq
  <2> QED BY <1>1, <2>1, <2>2 DEF OwnStep, TypeOK
<1> QED BY <1>2, <1>3, <1>4 DEF Ask

\* The step that reads the next root.
LEMMA ReadStep ==
  ASSUME TypeOK, NEW t \in Threads, ReadRoot(t)
  PROVE  /\ OwnStep(t) /\ UNCHANGED agents /\ req[t] \in ScanReq
         /\ req[t].at = "root" /\ req[t].roots # <<>>
         /\ \/ req'[t] \in DoneReq
            \/ /\ Head(req[t].roots) \in up
               /\ \E todo \in Readings(Head(req[t].roots)) :
                    req'[t] = Along([req[t] EXCEPT !.roots = Tail(@), !.todo = todo])
<1>1. req[t] \in ScanReq /\ UNCHANGED <<entry, up, agents>> /\ req[t].at = "root" /\ req[t].roots # <<>>
  BY Kinds DEF TypeOK, ReadRoot
<1>2. CASE req' = Over(t, "root_unavailable")
  <2>1. "root_unavailable" \in Answers
    BY DEF Answers
  <2> QED BY <1>1, <1>2, <2>1, OverIs DEF OwnStep
<1>3. CASE /\ Head(req[t].roots) \in up
           /\ \E todo \in Readings(Head(req[t].roots)) :
                req' = [req EXCEPT ![t] =
                          Along([req[t] EXCEPT !.roots = Tail(@), !.todo = todo])]
  <2>1. PICK todo \in Readings(Head(req[t].roots)) :
          req' = [req EXCEPT ![t] = Along([req[t] EXCEPT !.roots = Tail(@), !.todo = todo])]
    BY <1>3
  <2>2. req'[t] = Along([req[t] EXCEPT !.roots = Tail(@), !.todo = todo]) /\ OwnStep(t)
    BY <1>1, <2>1 DEF TypeOK, OwnStep
  <2> QED BY <1>1, <1>3, <2>1, <2>2
<1> QED BY <1>2, <1>3 DEF ReadRoot

SeenBy(r) == {q.dir : q \in r.projects}

\* The step that looks at the next entry.
LEMMA LookStep ==
  ASSUME TypeOK, NEW t \in Threads, LookAtEntry(t)
  PROVE  /\ OwnStep(t) /\ UNCHANGED agents /\ req[t] \in ScanReq
         /\ req[t].at = "entries" /\ req[t].todo # <<>>
         /\ \E v \in {Verdict(Head(req[t].todo), SeenBy(req[t])), "unreadable"} :
              /\ req'[t] = Along(Noted(req[t], Head(req[t].todo), v))
              /\ v = "unreadable" \/ Readable(t, Head(req[t].todo))
<1>1. req[t] \in ScanReq /\ UNCHANGED <<entry, up, agents>> /\ req[t].at = "entries" /\ req[t].todo # <<>>
  BY Kinds DEF TypeOK, LookAtEntry
<1>2. PICK v \in {Verdict(Head(req[t].todo), SeenBy(req[t])), "unreadable"} :
        /\ req' = [req EXCEPT ![t] = Along(Noted(req[t], Head(req[t].todo), v))]
        /\ v = "unreadable" \/ Readable(t, Head(req[t].todo))
  BY DEF LookAtEntry, SeenBy
<1>3. OwnStep(t) /\ req'[t] = Along(Noted(req[t], Head(req[t].todo), v))
  BY <1>1, <1>2 DEF OwnStep, TypeOK
<1> QED BY <1>1, <1>2, <1>3

\* What the two looks of a scan make of its request.
LEMMA RootIsRead ==
  ASSUME TypeOK, NEW t \in Threads, ReadRoot(t), req'[t] \notin DoneReq
  PROVE  \E todo \in Readings(Head(req[t].roots)) : ReadIn(req[t], todo, req'[t])
<1>1. req[t] \in ScanReq /\ req[t].roots # <<>>
  BY ReadStep
<1>2. PICK todo \in Readings(Head(req[t].roots)) :
        req'[t] = Along([req[t] EXCEPT !.roots = Tail(@), !.todo = todo])
  BY ReadStep
<1> QED BY <1>1, <1>2, RootRead

\* A look at an entry makes the request Looked describes.
LEMMA EntryIsLookedAt ==
  ASSUME TypeOK, NEW t \in Threads, LookAtEntry(t)
  PROVE  \E v \in {Verdict(Head(req[t].todo), SeenBy(req[t])), "unreadable"} :
           /\ Looked(req[t], v, req'[t])
           /\ v = "unreadable" \/ Readable(t, Head(req[t].todo))
<1>1. PICK v \in {Verdict(Head(req[t].todo), SeenBy(req[t])), "unreadable"} :
        /\ req'[t] = Along(Noted(req[t], Head(req[t].todo), v))
        /\ v = "unreadable" \/ Readable(t, Head(req[t].todo))
  BY LookStep
<1>2. v \in Verdicts /\ (v = "project" => Real(Head(req[t].todo)) # Outside)
  BY VerdictIs DEF Verdicts, InsideRoot
<1>3. req[t] \in ScanReq /\ req[t].todo # <<>>
  BY LookStep
<1>4. Looked(req[t], v, req'[t])
  BY <1>1, <1>2, <1>3, EntryNoted
<1> QED BY <1>1, <1>4

\* The answers that end a request without another trace.
LEMMA AnswerStep ==
  ASSUME TypeOK, NEW t \in Threads, AnswerListing(t)
  PROVE  Finishes(t) /\ UNCHANGED agents
<1>1. req' = Over(t, "listing") /\ "listing" \in Answers
  BY DEF AnswerListing, Answers
<1> QED BY <1>1, OverIs DEF AnswerListing, Finishes, OwnStep

\* A start that is let through has the directory its name resolves to now.
LEMMA RequireStep ==
  ASSUME TypeOK, NEW t \in Threads, RequireStartable(t)
  PROVE  /\ OwnStep(t) /\ UNCHANGED agents /\ req[t] \in ScanReq
         /\ req[t].op = "start" /\ req[t].at = "listed"
         /\ \/ req'[t] \in DoneReq
            \/ /\ req'[t] \in HeldReq
               /\ req'[t].asked = req[t].asked /\ req'[t].dir = Real(req[t].asked)
               /\ Listed(t, req[t].asked)
               /\ req[t].asked[1] \notin Disabled /\ req[t].asked[2] \in Proper
               /\ InsideRoot(req[t].asked) /\ IsDir(req[t].asked)
<1>1. /\ req[t] \in ScanReq /\ UNCHANGED <<entry, up, agents>>
      /\ req[t].op = "start" /\ req[t].at = "listed"
  BY Kinds DEF TypeOK, RequireStartable
<1> DEFINE p == req[t].asked
<1>2. Startable(t, p) \in Answers \cup {"startable"}
  BY DEF Startable, Answers
<1>3. CASE Startable(t, p) # "startable"
  <2>1. Startable(t, p) \in Answers /\ req' = Over(t, Startable(t, p))
    BY <1>2, <1>3 DEF RequireStartable
  <2> QED BY <1>1, <2>1, OverIs DEF OwnStep
<1>4. CASE Startable(t, p) = "startable"
  <2>1. /\ Listed(t, p) /\ p[1] \notin Disabled /\ p[2] \in Proper
        /\ InsideRoot(p) /\ IsDir(p)
    BY <1>4 DEF Startable
  <2>2. p \in Places /\ Real(p) \in Places
    BY <1>1, <2>1, WalkStays DEF ScanReq, InsideRoot, Ends
  <2>3. req' = [req EXCEPT ![t] = [op |-> "start", at |-> "lock", asked |-> p, dir |-> Real(p)]]
    BY <1>4 DEF RequireStartable
  <2>4. [op |-> "start", at |-> "lock", asked |-> p, dir |-> Real(p)] \in HeldReq
    BY <2>2 DEF HeldReq
  <2> QED BY <1>1, <2>1, <2>3, <2>4 DEF OwnStep, TypeOK
<1> QED BY <1>3, <1>4

\* From the lock to the spawn a start keeps its directory.
LEMMA HeldStep ==
  ASSUME TypeOK, NEW t \in Threads, TakeDirectory(t) \/ LookForAgent(t)
  PROVE  /\ OwnStep(t) /\ UNCHANGED agents /\ req[t] \in HeldReq
         /\ \/ req'[t] \in DoneReq
            \/ req'[t] \in HeldReq /\ req'[t].asked = req[t].asked /\ req'[t].dir = req[t].dir
<1>1. req[t] \in HeldReq /\ UNCHANGED <<entry, up, agents>>
  BY Kinds DEF TypeOK, TakeDirectory, LookForAgent
<1>2. CASE req' = Over(t, "locked") \/ req' = Over(t, "already_running")
  <2>1. {"locked", "already_running"} \subseteq Answers
    BY DEF Answers
  <2>2. PICK answer \in Answers : req' = Over(t, answer)
    BY <1>2, <2>1
  <2> QED BY <1>1, <2>2, OverIs DEF OwnStep
<1>3. CASE req' = [req EXCEPT ![t].at = "look"] \/ req' = [req EXCEPT ![t].at = "spawn"]
  BY <1>1, <1>3 DEF OwnStep, TypeOK, HeldReq
<1> QED BY <1>2, <1>3 DEF TakeDirectory, LookForAgent

\* The step that adds an agent.
LEMMA SpawnStep ==
  ASSUME TypeOK, NEW t \in Threads, Spawn(t)
  PROVE  /\ Finishes(t) /\ req[t] \in HeldReq
         /\ agents' = agents \cup {[name |-> req[t].asked, dir |-> req[t].dir]}
<1>1. req[t] \in HeldReq
  BY Kinds DEF TypeOK, Spawn
<1>2. req' = Over(t, "started") /\ "started" \in Answers
  BY DEF Spawn, Answers
<1> QED BY <1>1, <1>2, OverIs DEF Spawn, Finishes, OwnStep

\* A create that is let through keeps the name it was asked for.
LEMMA NameStep ==
  ASSUME TypeOK, NEW t \in Threads, CheckName(t)
  PROVE  /\ OwnStep(t) /\ UNCHANGED agents /\ req[t] \in CreateReq
         /\ req'[t] \in DoneReq \/ (req'[t] \in CreateReq /\ req'[t].asked = req[t].asked)
<1>1. req[t] \in CreateReq /\ UNCHANGED <<entry, up, agents>>
  BY Kinds DEF TypeOK, CheckName
<1>2. CASE req' = Over(t, "invalid_name") \/ req' = Over(t, "internal_error")
  <2>1. {"invalid_name", "internal_error"} \subseteq Answers
    BY DEF Answers
  <2>2. PICK answer \in Answers : req' = Over(t, answer)
    BY <1>2, <2>1
  <2> QED BY <1>1, <2>2, OverIs DEF OwnStep
<1>3. CASE req' = [req EXCEPT ![t].at = "mkdir"]
  BY <1>1, <1>3 DEF OwnStep, TypeOK, CreateReq
<1> QED BY <1>2, <1>3 DEF CheckName

\* A step that changes what is at the places `ps`, and nothing else: every
\* scan learns of it, and nobody has an agent or a start there, except where
\* nothing was and a folder is now.
Moves(ps) ==
    /\ entry' \in [Places -> Makeable] /\ up' \subseteq Roots
    /\ UNCHANGED agents
    /\ \A x \in Ends : x \notin ps => At(x)' = At(x)
    /\ \A x \in ps : x \notin InUse \/ (At(x) = Nothing /\ At(x)' = Folder)
    /\ req' = [u \in Threads |-> req'[u]]
    /\ \A u \in Threads :
         IF req[u] \in ScanReq THEN req'[u] = [req[u] EXCEPT !.disturbed = @ \cup ps]
         ELSE req'[u] = req[u] \/ (req[u] \in CreateReq /\ req'[u] \in DoneReq)

\* With AliasMidScan = FALSE, while a scan is reading: what leads to
\* something led there before, and only Nothing becomes something.
NoNewAlias ==
    /\ Aliases(entry') \subseteq Aliases(entry) /\ up' \subseteq up
    /\ \A x \in Places : entry[x] = entry'[x] \/ entry[x] = Nothing \/ entry'[x] = Nothing

\* Disturb reaches the scans and nothing else.
LEMMA DisturbIs ==
  ASSUME NEW ps, NEW r, \A u \in Threads : r[u] \in ScanReq \cup HeldReq \cup CreateReq \cup DoneReq,
         NEW u \in Threads
  PROVE  Disturb(ps, r)[u] =
           IF r[u] \in ScanReq THEN [r[u] EXCEPT !.disturbed = @ \cup ps] ELSE r[u]
<1>1. "disturbed" \in DOMAIN r[u] <=> r[u] \in ScanReq
  BY Kinds
<1> QED BY <1>1 DEF Disturb

\* Somebody makes or removes an entry.
LEMMA ChangeMoves ==
  ASSUME TypeOK, NEW p \in Places, NEW e \in Makeable, Change(p, e)
  PROVE  /\ Moves({p}) /\ \A u \in Threads : req'[u].at = req[u].at
         /\ (AliasMidScan = FALSE /\ \E t \in Threads : Scanning(t)) => NoNewAlias
<1>1. entry' = [entry EXCEPT ![p] = e] /\ up' = up /\ agents' = agents /\ req' = Disturb({p}, req)
  BY DEF Change
<1>2. entry' \in [Places -> Makeable]
  BY <1>1 DEF TypeOK
<1>3. \A x \in Ends : x \notin {p} => At(x)' = At(x)
  BY <1>1 DEF At, Ends, TypeOK
<1>4. \A u \in Threads : req'[u] = IF req[u] \in ScanReq
                                   THEN [req[u] EXCEPT !.disturbed = @ \cup {p}] ELSE req[u]
  BY <1>1, DisturbIs DEF TypeOK
<1>5. req' = [u \in Threads |-> req'[u]]
  BY <1>1 DEF Disturb
<1>6. Moves({p})
  BY <1>1, <1>2, <1>3, <1>4, <1>5 DEF Moves, Change, TypeOK
<1>7. ASSUME AliasMidScan = FALSE, \E t \in Threads : Scanning(t)
      PROVE NoNewAlias
  <2>1. Aliases(entry') \subseteq Aliases(entry)
    BY <1>1, <1>7 DEF Change, Unaliased
  <2>2. \A x \in Places : entry[x] = entry'[x] \/ entry[x] = Nothing \/ entry'[x] = Nothing
    BY <1>1 DEF Change, TypeOK
  <2> QED BY <1>1, <2>1, <2>2 DEF NoNewAlias
<1>8. \A u \in Threads : req'[u].at = req[u].at
  BY <1>4 DEF ScanReq
<1> QED BY <1>6, <1>7, <1>8

\* A drive goes or comes back.
LEMMA ToggleMoves ==
  ASSUME TypeOK, NEW r \in Roots, RootToggles(r)
  PROVE  /\ Moves({p \in Places : p[1] = r}) /\ \A u \in Threads : req'[u].at = req[u].at
         /\ (AliasMidScan = FALSE /\ \E t \in Threads : Scanning(t)) => NoNewAlias
<1> DEFINE ps == {p \in Places : p[1] = r}
<1>1. /\ entry' = entry /\ agents' = agents /\ req' = Disturb(ps, req)
      /\ up' = up \ {r} \/ up' = up \cup {r}
  BY DEF RootToggles
<1>2. entry' \in [Places -> Makeable] /\ up' \subseteq Roots
  BY <1>1 DEF TypeOK
<1>3. \A x \in Ends : x \notin ps => At(x)' = At(x)
  BY <1>1 DEF At, Ends, TypeOK
<1>4. \A u \in Threads : req'[u] = IF req[u] \in ScanReq
                                   THEN [req[u] EXCEPT !.disturbed = @ \cup ps] ELSE req[u]
  BY <1>1, DisturbIs DEF TypeOK
<1>5. req' = [u \in Threads |-> req'[u]]
  BY <1>1 DEF Disturb
<1>6. \A x \in ps : x \notin InUse
  BY FoldersAssumption DEF RootToggles
<1>7. Moves(ps)
  <2> HIDE DEF ps
  <2> QED BY <1>1, <1>2, <1>3, <1>4, <1>5, <1>6 DEF Moves
<1>8. ASSUME AliasMidScan = FALSE, \E t \in Threads : Scanning(t)
      PROVE NoNewAlias
  <2>1. up' \subseteq up
    BY <1>8 DEF RootToggles
  <2> QED BY <1>1, <2>1 DEF NoNewAlias
<1>9. \A u \in Threads : req'[u].at = req[u].at
  <2> HIDE DEF ps
  <2> QED BY <1>4 DEF ScanReq
<1> QED BY <1>7, <1>8, <1>9

\* A create that made its directory, or one that made nothing.
\* A mkdir answers and leaves the tree alone, or makes the folder itself.
LEMMA MkdirStep ==
  ASSUME TypeOK, NEW t \in Threads, Mkdir(t), NEW p, p = req[t].asked
  PROVE  /\ req[t] \in CreateReq /\ p \in Places /\ UNCHANGED agents /\ req'[t] \in DoneReq
         /\ \A u \in Threads : u # t => req'[u].at = req[u].at
         /\ \/ Finishes(t) /\ req'[t].answer # "created"
            \/ /\ Moves({p}) /\ req'[t].answer = "created"
               /\ entry[p] = Nothing /\ entry' = [entry EXCEPT ![p] = Folder]
               /\ (AliasMidScan = FALSE /\ \E u \in Threads : Scanning(u)) => NoNewAlias
<1>1. req[t] \in CreateReq /\ p \in Places /\ UNCHANGED <<up, agents>>
  BY Kinds DEF TypeOK, Mkdir, CreateReq
<1>2. CASE /\ req' = Over(t, "root_unavailable") \/ req' = Over(t, "already_exists")
           /\ entry' = entry
  <2>1. {"root_unavailable", "already_exists"} \subseteq Answers
    BY DEF Answers
  <2>2. PICK answer \in {"root_unavailable", "already_exists"} : req' = Over(t, answer)
    BY <1>2
  <2>3. req'[t] \in DoneReq /\ req'[t].answer # "created" /\ OwnStep(t)
    BY <1>1, <1>2, <2>1, <2>2, OverIs DEF OwnStep
  <2> QED BY <1>1, <2>3 DEF Finishes, OwnStep
<1>3. CASE /\ p[1] \in up /\ entry[p] = Nothing
           /\ Unaliased([entry EXCEPT ![p] = Folder])
           /\ entry' = [entry EXCEPT ![p] = Folder]
           /\ req' = Disturb({p}, Over(t, "created"))
  <2> DEFINE r == Over(t, "created")
             done == [op |-> req[t].op, at |-> "idle", answer |-> "created"]
  <2>1. r = [req EXCEPT ![t] = done] /\ done \in DoneReq
    BY <1>1 DEF Over, DoneReq, CreateReq, Answers
  <2>2. /\ r[t] = done /\ \A u \in Threads : u # t => r[u] = req[u]
        /\ \A u \in Threads : r[u] \in ScanReq \cup HeldReq \cup CreateReq \cup DoneReq
    BY <2>1 DEF TypeOK
  <2> HIDE DEF r
  <2>3. \A u \in Threads : req'[u] = IF r[u] \in ScanReq
                                     THEN [r[u] EXCEPT !.disturbed = @ \cup {p}] ELSE r[u]
    BY <1>3, <2>2, DisturbIs DEF r
  <2>4. req' = [u \in Threads |-> req'[u]]
    BY <1>3 DEF Disturb
  <2>5. req'[t] = done /\ done \notin ScanReq
    BY <2>2, <2>3, <2>1, Kinds
  <2>6. req[t] \notin ScanReq
    BY <1>1, Kinds
  <2>7. \A u \in Threads :
          IF req[u] \in ScanReq THEN req'[u] = [req[u] EXCEPT !.disturbed = @ \cup {p}]
          ELSE req'[u] = req[u] \/ (req[u] \in CreateReq /\ req'[u] \in DoneReq)
    BY <1>1, <2>1, <2>2, <2>3, <2>5, <2>6
  <2>8. entry' \in [Places -> Makeable]
    BY <1>1, <1>3 DEF TypeOK, Makeable
  <2>9. At(p) = Nothing /\ At(p)' = Folder /\ \A x \in Ends : x \notin {p} => At(x)' = At(x)
    <3>1. p # Outside /\ entry'[p] = Folder /\ up' = up
      BY <1>1, <1>3, FoldersAssumption DEF TypeOK
    <3>2. \A x \in Places : x # p => entry'[x] = entry[x]
      BY <1>3 DEF TypeOK
    <3>3. p[1] \in up /\ entry[p] = Nothing
      BY <1>3
    <3> QED BY <3>1, <3>2, <3>3 DEF At, Ends
  <2>10. Moves({p})
    <3>1. up' \subseteq Roots
      BY <1>1 DEF TypeOK
    <3>2. req' = [u \in Threads |-> req'[u]]
      BY <2>4
    <3> QED BY <1>1, <2>7, <2>8, <2>9, <3>1, <3>2 DEF Moves
  <2>11. ASSUME AliasMidScan = FALSE, NEW u \in Threads, Scanning(u)
         PROVE NoNewAlias
    <3>1. req[t].at = "mkdir" /\ t # u
      BY <2>11 DEF Mkdir, Scanning
    <3>2. Aliases(entry') \subseteq Aliases(entry)
      BY <1>3, <2>11 DEF Unaliased
    <3> QED BY <1>1, <1>3, <3>2 DEF NoNewAlias, TypeOK
  <2>12. req'[t] \in DoneReq /\ req'[t].answer = "created"
    BY <2>1, <2>5
  <2>13. (AliasMidScan = FALSE /\ \E u \in Threads : Scanning(u)) => NoNewAlias
    BY <2>11
  <2>14. \A u \in Threads : u # t => req'[u].at = req[u].at
    BY <2>2, <2>3 DEF ScanReq
  <2> QED BY <1>1, <1>3, <2>10, <2>12, <2>13, <2>14
<1> QED BY <1>2, <1>3 DEF Mkdir, MkdirAt

\* TypeOK is kept by every step.
LEMMA TypeStep == TypeOK /\ [Next]_vars => TypeOK'
<1> SUFFICES ASSUME TypeOK, [Next]_vars PROVE TypeOK'
  OBVIOUS
<1> DEFINE All == ScanReq \cup HeldReq \cup CreateReq \cup DoneReq
<1>0. ASSUME NEW t \in Threads, OwnStep(t), req'[t] \in All,
             agents' \subseteq [name : Places, dir : Places]
      PROVE TypeOK'
  <2>1. req' \in [Threads -> All]
    <3>1. \A u \in Threads : req'[u] \in All
      BY <1>0 DEF OwnStep, TypeOK
    <3> QED BY <1>0, <3>1 DEF OwnStep
  <2> QED BY <1>0, <2>1 DEF OwnStep, TypeOK
<1>00. ASSUME NEW ps \in SUBSET Places, Moves(ps) PROVE TypeOK'
  <2>1. ASSUME NEW u \in Threads PROVE req'[u] \in All
    <3>1. CASE req[u] \in ScanReq
      <4>1. req'[u] = [req[u] EXCEPT !.disturbed = @ \cup ps]
        BY <1>00, <3>1 DEF Moves
      <4> QED BY <3>1, <4>1 DEF ScanReq
    <3>2. CASE req[u] \notin ScanReq
      BY <1>00, <3>2 DEF Moves, TypeOK
    <3> QED BY <3>1, <3>2
  <2>3. req' \in [Threads -> All]
    BY <1>00, <2>1 DEF Moves
  <2> QED BY <1>00, <2>3 DEF Moves, TypeOK
<1>1. ASSUME NEW t \in Threads, Ask(t) PROVE TypeOK'
  <2>1. req'[t] \in All
    BY <1>1, AskStep, ScanAsked
  <2> QED BY <1>0, <1>1, <2>1, AskStep DEF TypeOK
<1>2. ASSUME NEW t \in Threads, ReadRoot(t) PROVE TypeOK'
  <2>1. req'[t] \in All
    BY <1>2, RootIsRead DEF ReadIn
  <2> QED BY <1>0, <1>2, <2>1, ReadStep DEF TypeOK
<1>3. ASSUME NEW t \in Threads, LookAtEntry(t) PROVE TypeOK'
  <2>1. req'[t] \in All
    BY <1>3, EntryIsLookedAt DEF Looked
  <2> QED BY <1>0, <1>3, <2>1, LookStep DEF TypeOK
<1>4. ASSUME NEW t \in Threads, AnswerListing(t) PROVE TypeOK'
  BY <1>0, <1>4, AnswerStep DEF TypeOK, Finishes
<1>5. ASSUME NEW t \in Threads, RequireStartable(t) PROVE TypeOK'
  BY <1>0, <1>5, RequireStep DEF TypeOK
<1>6. ASSUME NEW t \in Threads, TakeDirectory(t) \/ LookForAgent(t) PROVE TypeOK'
  BY <1>0, <1>6, HeldStep DEF TypeOK
<1>7. ASSUME NEW t \in Threads, Spawn(t) PROVE TypeOK'
  <2>1. agents' \subseteq [name : Places, dir : Places]
    BY <1>7, SpawnStep DEF TypeOK, HeldReq
  <2> QED BY <1>0, <1>7, <2>1, SpawnStep DEF Finishes
<1>8. ASSUME NEW t \in Threads, CheckName(t) PROVE TypeOK'
  BY <1>0, <1>8, NameStep DEF TypeOK
<1>9. ASSUME NEW t \in Threads, Mkdir(t) PROVE TypeOK'
  BY <1>0, <1>00, <1>9, MkdirStep DEF TypeOK, Finishes
<1>10. ASSUME NEW p \in Places, NEW e \in Makeable, Change(p, e) PROVE TypeOK'
  BY <1>00, <1>10, ChangeMoves
<1>11. ASSUME NEW r \in Roots, RootToggles(r) PROVE TypeOK'
  BY <1>00, <1>11, ToggleMoves
<1>12. ASSUME NEW a \in agents, AgentEnds(a) PROVE TypeOK'
  BY <1>12 DEF AgentEnds, TypeOK
<1>13. CASE UNCHANGED vars
  BY <1>13 DEF vars, TypeOK
<1> QED BY <1>1, <1>2, <1>3, <1>4, <1>5, <1>6, <1>7, <1>8, <1>9, <1>10, <1>11, <1>12, <1>13 DEF Next

\* What is found on disk has the shape the assumption gives it.
LEMMA InitType == Init => TypeOK
<1> SUFFICES ASSUME Init PROVE TypeOK
  OBVIOUS
<1>1. entry \in [Places -> Makeable]
  BY FoldersAssumption DEF Init
<1>2. Idle \in DoneReq
  BY DEF Idle, DoneReq, Answers
<1> QED BY <1>1, <1>2 DEF Init, TypeOK

\* Every request, agent and entry keeps the shape the model gives it.
THEOREM TypeCorrect == Spec => []TypeOK
BY InitType, TypeStep, PTL DEF Spec

-----------------------------------------------------------------------------
(* A create makes what it was asked for, or nothing.                       *)

\* The step that ends a create.
LEMMA CreateStep ==
  ASSUME TypeOK, Next, NEW t \in Threads, req[t].at = "mkdir", req'[t].at = "idle"
  PROVE  IF req'[t].answer = "created"
         THEN /\ entry[req[t].asked] = Nothing
              /\ entry' = [entry EXCEPT ![req[t].asked] = Folder]
         ELSE entry' = entry
<1>0. req[t] \in CreateReq /\ req[t] \notin ScanReq /\ req[t] \notin HeldReq /\ req[t] \notin DoneReq
  BY Kinds DEF TypeOK
<1>1. ASSUME NEW u \in Threads, OwnStep(u), u # t PROVE FALSE
  BY <1>1 DEF OwnStep
<1>2. ASSUME NEW u \in Threads, Ask(u) PROVE FALSE
  BY <1>0, <1>1, <1>2, AskStep
<1>3. ASSUME NEW u \in Threads, ReadRoot(u) PROVE FALSE
  BY <1>0, <1>1, <1>3, ReadStep
<1>4. ASSUME NEW u \in Threads, LookAtEntry(u) PROVE FALSE
  BY <1>0, <1>1, <1>4, LookStep
<1>5. ASSUME NEW u \in Threads, AnswerListing(u) PROVE FALSE
  BY <1>0, <1>1, <1>5, AnswerStep DEF Finishes, AnswerListing
<1>6. ASSUME NEW u \in Threads, RequireStartable(u) PROVE FALSE
  BY <1>0, <1>1, <1>6, RequireStep
<1>7. ASSUME NEW u \in Threads, TakeDirectory(u) \/ LookForAgent(u) PROVE FALSE
  BY <1>0, <1>1, <1>7, HeldStep
<1>8. ASSUME NEW u \in Threads, Spawn(u) PROVE FALSE
  BY <1>0, <1>1, <1>8, SpawnStep DEF Finishes
<1>9. ASSUME NEW u \in Threads, CheckName(u) PROVE FALSE
  BY <1>0, <1>1, <1>9, NameStep DEF CheckName
<1>10. ASSUME NEW u \in Threads, Mkdir(u)
       PROVE IF req'[t].answer = "created"
             THEN /\ entry[req[t].asked] = Nothing
                  /\ entry' = [entry EXCEPT ![req[t].asked] = Folder]
             ELSE entry' = entry
  <2>1. u = t
    BY <1>10, MkdirStep
  <2>2. \/ Finishes(t) /\ req'[t].answer # "created"
        \/ /\ req'[t].answer = "created"
           /\ entry[req[t].asked] = Nothing /\ entry' = [entry EXCEPT ![req[t].asked] = Folder]
    BY <1>10, <2>1, MkdirStep
  <2> QED BY <2>2 DEF Finishes, OwnStep
<1>11. ASSUME NEW p \in Places, NEW e \in Makeable, Change(p, e) PROVE FALSE
  BY <1>11, ChangeMoves
<1>12. ASSUME NEW r \in Roots, RootToggles(r) PROVE FALSE
  BY <1>12, ToggleMoves
<1>13. ASSUME NEW a \in agents, AgentEnds(a) PROVE FALSE
  BY <1>13 DEF AgentEnds
<1> QED BY <1>2, <1>3, <1>4, <1>5, <1>6, <1>7, <1>8, <1>9, <1>10, <1>11, <1>12, <1>13 DEF Next

\* A create answered `created` made the directory itself, where nothing was;
\* with any other answer it made nothing, whatever links are in its way
\* (create_project).
THEOREM CreateIsExact == Spec => CreateMakesOnlyWhatWasAsked
<1>1. TypeOK /\ [Next]_vars =>
        [\A t \in Threads :
           (req[t].at = "mkdir" /\ req'[t].at = "idle") =>
              IF req'[t].answer = "created"
              THEN /\ entry[req[t].asked] = Nothing
                   /\ entry' = [entry EXCEPT ![req[t].asked] = Folder]
              ELSE entry' = entry]_vars
  BY CreateStep
<1> QED BY <1>1, TypeCorrect, PTL DEF Spec, CreateMakesOnlyWhatWasAsked

-----------------------------------------------------------------------------
(* What a start holds is in the root its name says.                        *)

InItsRoot(name, dir) == dir[1] = name[1] /\ dir[1] \notin Disabled

RootsInv ==
    /\ \A a \in agents : InItsRoot(a.name, a.dir)
    /\ \A t \in Threads : req[t] \in HeldReq => InItsRoot(req[t].asked, req[t].dir)

\* What a step can make of the starts that have their directory, and of the
\* agents: a start keeps its directory or has just resolved it, and an agent
\* is one that was there or that such a start has spawned.
LEMMA HeldFrom ==
  ASSUME TypeOK, [Next]_vars, NEW t \in Threads, req'[t] \in HeldReq
  PROVE  \/ /\ req[t] \in HeldReq
            /\ req'[t].asked = req[t].asked /\ req'[t].dir = req[t].dir
         \/ /\ RequireStartable(t) /\ UNCHANGED <<entry, up>>
            /\ req'[t].asked = req[t].asked /\ req'[t].dir = Real(req[t].asked)
            /\ req[t].asked \in Places /\ req[t] \in ScanReq /\ req[t].op = "start"
            /\ req[t].at = "listed" /\ Listed(t, req[t].asked)
            /\ req[t].asked[1] \notin Disabled /\ req[t].asked[2] \in Proper
            /\ InsideRoot(req[t].asked) /\ IsDir(req[t].asked)
<1>0. /\ req'[t] \notin ScanReq /\ req'[t] \notin DoneReq /\ req'[t] \notin CreateReq
      /\ req[t] \in ScanReq \cup HeldReq \cup CreateReq \cup DoneReq
  BY Kinds DEF TypeOK
<1>1. CASE req'[t] = req[t]
  BY <1>1
<1>2. ASSUME NEW u \in Threads, OwnStep(u), u # t PROVE req'[t] = req[t]
  BY <1>2 DEF OwnStep
<1>3. ASSUME NEW ps \in SUBSET Places, Moves(ps) PROVE req'[t] = req[t]
  <2>1. req[t] \notin ScanReq
    <3>1. SUFFICES ASSUME req[t] \in ScanReq PROVE FALSE
      OBVIOUS
    <3>2. req'[t] = [req[t] EXCEPT !.disturbed = @ \cup ps]
      BY <1>3, <3>1 DEF Moves
    <3>3. req'[t].at = req[t].at
      BY <3>1, <3>2 DEF ScanReq
    <3> QED BY <1>0, <3>1, <3>3, Kinds
  <2> QED BY <1>0, <1>3, <2>1 DEF Moves
<1>4. ASSUME NEW u \in Threads, Ask(u) PROVE req'[t] = req[t]
  BY <1>0, <1>2, <1>4, AskStep, ScanAsked
<1>5. ASSUME NEW u \in Threads, ReadRoot(u) PROVE req'[t] = req[t]
  BY <1>0, <1>2, <1>5, ReadStep, RootIsRead DEF ReadIn
<1>6. ASSUME NEW u \in Threads, LookAtEntry(u) PROVE req'[t] = req[t]
  BY <1>0, <1>2, <1>6, LookStep, EntryIsLookedAt DEF Looked
<1>7. ASSUME NEW u \in Threads, AnswerListing(u) \/ Spawn(u) PROVE req'[t] = req[t]
  BY <1>0, <1>2, <1>7, AnswerStep, SpawnStep DEF Finishes
<1>8. ASSUME RequireStartable(t)
      PROVE /\ UNCHANGED <<entry, up>>
            /\ req'[t].asked = req[t].asked /\ req'[t].dir = Real(req[t].asked)
            /\ req[t].asked \in Places /\ req[t] \in ScanReq /\ req[t].op = "start"
            /\ req[t].at = "listed" /\ Listed(t, req[t].asked)
            /\ req[t].asked[1] \notin Disabled /\ req[t].asked[2] \in Proper
            /\ InsideRoot(req[t].asked) /\ IsDir(req[t].asked)
  BY <1>0, <1>8, RequireStep DEF OwnStep, ScanReq
<1>9. ASSUME NEW u \in Threads, u # t, RequireStartable(u) PROVE req'[t] = req[t]
  BY <1>2, <1>9, RequireStep
<1>10. ASSUME NEW u \in Threads, TakeDirectory(u) \/ LookForAgent(u)
       PROVE \/ req'[t] = req[t]
             \/ req[t] \in HeldReq /\ req'[t].asked = req[t].asked /\ req'[t].dir = req[t].dir
  BY <1>0, <1>2, <1>10, HeldStep
<1>11. ASSUME NEW u \in Threads, CheckName(u) PROVE req'[t] = req[t]
  BY <1>0, <1>2, <1>11, NameStep
<1>12. ASSUME NEW u \in Threads, Mkdir(u) PROVE req'[t] = req[t]
  BY <1>0, <1>2, <1>3, <1>12, MkdirStep DEF Finishes
<1>13. ASSUME NEW p \in Places, NEW e \in Makeable, Change(p, e) PROVE req'[t] = req[t]
  BY <1>3, <1>13, ChangeMoves
<1>14. ASSUME NEW r \in Roots, RootToggles(r) PROVE req'[t] = req[t]
  BY <1>3, <1>14, ToggleMoves
<1>15. ASSUME NEW a \in agents, AgentEnds(a) PROVE req'[t] = req[t]
  BY <1>15 DEF AgentEnds
<1>16. CASE UNCHANGED vars
  BY <1>1, <1>16 DEF vars
<1> QED BY <1>1, <1>4, <1>5, <1>6, <1>7, <1>8, <1>9, <1>10, <1>11, <1>12, <1>13, <1>14, <1>15, <1>16 DEF Next

\* An agent was there before or a start that held its directory spawned it.
LEMMA AgentFrom ==
  ASSUME TypeOK, [Next]_vars, NEW a \in agents'
  PROVE  \/ a \in agents
         \/ \E t \in Threads : /\ req[t] \in HeldReq /\ UNCHANGED <<entry, up>>
                               /\ a = [name |-> req[t].asked, dir |-> req[t].dir]
<1>1. ASSUME NEW t \in Threads, Spawn(t)
      PROVE \/ a \in agents
            \/ /\ req[t] \in HeldReq /\ UNCHANGED <<entry, up>>
               /\ a = [name |-> req[t].asked, dir |-> req[t].dir]
  BY <1>1, SpawnStep DEF Finishes, OwnStep
<1>2. CASE \E t \in Threads :
             \/ Ask(t) \/ ReadRoot(t) \/ LookAtEntry(t) \/ AnswerListing(t) \/ RequireStartable(t)
             \/ TakeDirectory(t) \/ LookForAgent(t) \/ CheckName(t) \/ Mkdir(t)
  BY <1>2 DEF Ask, ReadRoot, LookAtEntry, AnswerListing, RequireStartable, TakeDirectory,
              LookForAgent, CheckName, Mkdir
<1>3. CASE \/ \E p \in Places, e \in Makeable : Change(p, e)
           \/ \E r \in Roots : RootToggles(r)
           \/ UNCHANGED vars
  BY <1>3 DEF Change, RootToggles, vars
<1>4. CASE \E b \in agents : AgentEnds(b)
  BY <1>4 DEF AgentEnds
<1> QED BY <1>1, <1>2, <1>3, <1>4 DEF Next

\* No step takes an agent or a start out of its root.
LEMMA RootsStep == TypeOK /\ RootsInv /\ [Next]_vars => RootsInv'
<1> SUFFICES ASSUME TypeOK, RootsInv, [Next]_vars PROVE RootsInv'
  OBVIOUS
<1>1. ASSUME NEW t \in Threads, req'[t] \in HeldReq PROVE InItsRoot(req'[t].asked, req'[t].dir)
  BY <1>1, HeldFrom DEF RootsInv, InItsRoot, InsideRoot
<1>2. ASSUME NEW a \in agents' PROVE InItsRoot(a.name, a.dir)
  BY <1>2, AgentFrom DEF RootsInv
<1> QED BY <1>1, <1>2 DEF RootsInv

\* An agent runs in a direct child of the root its name says, and never in a
\* root the operator's file disables, however the tree changes between the
\* listing and the start (resolve_child, Engine._require_startable, #154).
THEOREM AgentsStayInTheirRoots == Spec => []AgentsKeepToEnabledRoots
<1>1. Init => RootsInv
  BY DEF Init, RootsInv, Idle, HeldReq
<1>2. TypeOK /\ RootsInv => AgentsKeepToEnabledRoots
  BY DEF TypeOK, RootsInv, InItsRoot, AgentsKeepToEnabledRoots
<1> QED BY <1>1, <1>2, RootsStep, TypeCorrect, PTL DEF Spec

-----------------------------------------------------------------------------
(* Where a scan can have come from.                                        *)

\* The tree moved at `ps`, and the scan `q` of a request was told.
MovedUnder(q, ps, r) ==
    /\ Moves(ps)
    /\ r = [q EXCEPT !.disturbed = @ \cup ps]
    /\ (AliasMidScan = FALSE /\ \E u \in Threads : Scanning(u)) => NoNewAlias

\* Every scan was the same before, or was just asked for, or has read a root,
\* or has looked at an entry, or the tree moved under it.
LEMMA ScanFrom ==
  ASSUME TypeOK, [Next]_vars, NEW t \in Threads, req'[t] \in ScanReq
  PROVE  \/ UNCHANGED <<entry, up>> /\ req[t] \in ScanReq /\ req'[t] = req[t]
         \/ UNCHANGED <<entry, up>> /\ \E op \in {"start", "list"}, p \in Places : req'[t] \in Scans(op, p)
         \/ /\ UNCHANGED <<entry, up>> /\ req[t] \in ScanReq
            /\ req[t].at = "root" /\ req[t].roots # <<>>
            /\ \E todo \in Readings(Head(req[t].roots)) : ReadIn(req[t], todo, req'[t])
         \/ /\ UNCHANGED <<entry, up>> /\ req[t] \in ScanReq
            /\ req[t].at = "entries" /\ req[t].todo # <<>>
            /\ \E v \in {Verdict(Head(req[t].todo), SeenBy(req[t])), "unreadable"} :
                 /\ Looked(req[t], v, req'[t])
                 /\ v = "unreadable" \/ Readable(t, Head(req[t].todo))
         \/ req[t] \in ScanReq /\ \E ps \in SUBSET Places : MovedUnder(req[t], ps, req'[t])
<1> DEFINE Same == UNCHANGED <<entry, up>> /\ req[t] \in ScanReq /\ req'[t] = req[t]
           Moved == req[t] \in ScanReq /\ \E ps \in SUBSET Places : MovedUnder(req[t], ps, req'[t])
<1>0. /\ req'[t] \notin HeldReq /\ req'[t] \notin DoneReq /\ req'[t] \notin CreateReq
      /\ req[t] \in ScanReq \cup HeldReq \cup CreateReq \cup DoneReq
  BY Kinds DEF TypeOK
<1>1. ASSUME NEW u \in Threads, OwnStep(u), u # t PROVE Same
  BY <1>0, <1>1 DEF OwnStep
<1>2. ASSUME NEW ps \in SUBSET Places, Moves(ps),
             (AliasMidScan = FALSE /\ \E u \in Threads : Scanning(u)) => NoNewAlias
      PROVE Moved
  <2>1. req[t] \in ScanReq
    BY <1>0, <1>2 DEF Moves
  <2>2. req'[t] = [req[t] EXCEPT !.disturbed = @ \cup ps]
    BY <1>2, <2>1 DEF Moves
  <2>3. MovedUnder(req[t], ps, req'[t])
    BY <1>2, <2>2 DEF MovedUnder
  <2> QED BY <2>1, <2>3
<1>3. ASSUME Ask(t)
      PROVE UNCHANGED <<entry, up>> /\ \E op \in {"start", "list"}, p \in Places : req'[t] \in Scans(op, p)
  BY <1>0, <1>3, AskStep DEF OwnStep
<1>4. ASSUME ReadRoot(t)
      PROVE /\ UNCHANGED <<entry, up>> /\ req[t] \in ScanReq
            /\ req[t].at = "root" /\ req[t].roots # <<>>
            /\ \E todo \in Readings(Head(req[t].roots)) : ReadIn(req[t], todo, req'[t])
  BY <1>0, <1>4, ReadStep, RootIsRead DEF OwnStep
<1>5. ASSUME LookAtEntry(t)
      PROVE /\ UNCHANGED <<entry, up>> /\ req[t] \in ScanReq
            /\ req[t].at = "entries" /\ req[t].todo # <<>>
            /\ \E v \in {Verdict(Head(req[t].todo), SeenBy(req[t])), "unreadable"} :
                 /\ Looked(req[t], v, req'[t])
                 /\ v = "unreadable" \/ Readable(t, Head(req[t].todo))
  BY <1>5, LookStep, EntryIsLookedAt DEF OwnStep
<1>6. ASSUME NEW u \in Threads, u # t, Ask(u) \/ ReadRoot(u) \/ LookAtEntry(u) PROVE Same
  <2>1. OwnStep(u)
    BY <1>6, AskStep, ReadStep, LookStep
  <2> QED BY <1>1, <1>6, <2>1
<1>7. ASSUME NEW u \in Threads, \/ AnswerListing(u) \/ RequireStartable(u) \/ TakeDirectory(u)
                                \/ LookForAgent(u) \/ Spawn(u) \/ CheckName(u)
      PROVE Same
  <2>1. OwnStep(u)
    BY <1>7, AnswerStep, RequireStep, HeldStep, SpawnStep, NameStep DEF Finishes
  <2>2. u # t
    BY <1>0, <1>7, AnswerStep, RequireStep, HeldStep, SpawnStep, NameStep DEF Finishes
  <2> QED BY <1>1, <2>1, <2>2
<1>8. ASSUME NEW u \in Threads, Mkdir(u) PROVE Same \/ Moved
  <2>1. PICK p : p = req[u].asked
    OBVIOUS
  <2>2. CASE Finishes(u)
    BY <1>0, <1>1, <2>2 DEF Finishes
  <2>3. CASE ~Finishes(u)
    <3>1. /\ Moves({p}) /\ {p} \in SUBSET Places
          /\ (AliasMidScan = FALSE /\ \E w \in Threads : Scanning(w)) => NoNewAlias
      BY <1>8, <2>1, <2>3, MkdirStep
    <3> HIDE DEF Moved
    <3> QED BY <1>2, <3>1
  <2> QED BY <2>2, <2>3
<1>9. ASSUME NEW p \in Places, NEW e \in Makeable, Change(p, e) PROVE Moved
  <2>1. /\ Moves({p}) /\ {p} \in SUBSET Places
        /\ (AliasMidScan = FALSE /\ \E w \in Threads : Scanning(w)) => NoNewAlias
    BY <1>9, ChangeMoves
  <2> HIDE DEF Moved
  <2> QED BY <1>2, <2>1
<1>10. ASSUME NEW r \in Roots, RootToggles(r) PROVE Moved
  <2>1. /\ Moves({p \in Places : p[1] = r}) /\ {p \in Places : p[1] = r} \in SUBSET Places
        /\ (AliasMidScan = FALSE /\ \E w \in Threads : Scanning(w)) => NoNewAlias
    BY <1>10, ToggleMoves
  <2> HIDE DEF Moved
  <2> QED BY <1>2, <2>1
<1>11. ASSUME NEW a \in agents, AgentEnds(a) PROVE Same
  BY <1>0, <1>11 DEF AgentEnds
<1>12. CASE UNCHANGED vars
  BY <1>0, <1>12 DEF vars
<1> HIDE DEF Same, Moved
<1>13. CASE Same \/ Moved
  BY <1>13 DEF Same, Moved
<1>14. CASE Next
  BY <1>3, <1>4, <1>5, <1>6, <1>7, <1>8, <1>9, <1>10, <1>11, <1>13, <1>14 DEF Next
<1> QED BY <1>12, <1>13, <1>14 DEF Same

\* The front of a sequence and the rest of it.
LEMMA HeadAndTail ==
  ASSUME NEW S, NEW s \in Seq(S), s # <<>>
  PROVE  /\ 1 \in DOMAIN s /\ s[1] = Head(s) /\ Head(s) \in S /\ Tail(s) \in Seq(S)
         /\ DOMAIN s \subseteq Nat /\ DOMAIN Tail(s) \subseteq Nat \ {0}
         /\ \A i \in DOMAIN Tail(s) : i + 1 \in DOMAIN s /\ Tail(s)[i] = s[i + 1]
         /\ \A x : Among(x, s) <=> x = Head(s) \/ Among(x, Tail(s))
         /\ Apart(s) => Apart(Tail(s)) /\ ~Among(Head(s), Tail(s))
<1>1. /\ Len(s) \in Nat /\ Len(s) > 0 /\ DOMAIN s = 1..Len(s)
      /\ Tail(s) \in Seq(S) /\ DOMAIN Tail(s) = 1..(Len(s) - 1)
      /\ \A i \in 1..(Len(s) - 1) : Tail(s)[i] = s[i + 1]
      /\ s[1] = Head(s)
  OBVIOUS
<1>2. 1 \in DOMAIN s /\ Head(s) \in S
  BY <1>1
<1>3. \A i \in DOMAIN Tail(s) : i \in Nat \ {0} /\ i + 1 \in DOMAIN s /\ i + 1 # 1 /\ Tail(s)[i] = s[i + 1]
  BY <1>1
<1>4. ASSUME NEW x PROVE Among(x, s) <=> x = Head(s) \/ Among(x, Tail(s))
  <2>1. ASSUME NEW i \in DOMAIN s, s[i] = x, i # 1 PROVE Among(x, Tail(s))
    <3>1. i - 1 \in DOMAIN Tail(s) /\ Tail(s)[i - 1] = x
      BY <1>1, <2>1
    <3> QED BY <3>1 DEF Among
  <2>2. Among(x, Tail(s)) => Among(x, s)
    BY <1>3 DEF Among
  <2> QED BY <1>1, <1>2, <2>1, <2>2 DEF Among
<1>5. ASSUME Apart(s) PROVE Apart(Tail(s)) /\ ~Among(Head(s), Tail(s))
  <2>1. ASSUME NEW i \in DOMAIN Tail(s), NEW j \in DOMAIN Tail(s), Tail(s)[i] = Tail(s)[j] PROVE i = j
    <3>1. i + 1 = j + 1
      BY <1>3, <1>5, <2>1 DEF Apart
    <3> QED BY <1>3, <3>1
  <2>2. ~Among(Head(s), Tail(s))
    BY <1>1, <1>2, <1>3, <1>5 DEF Apart, Among
  <2> QED BY <2>1, <2>2 DEF Apart
<1>6. /\ DOMAIN s \subseteq Nat /\ DOMAIN Tail(s) \subseteq Nat \ {0}
      /\ \A i \in DOMAIN Tail(s) : i + 1 \in DOMAIN s /\ Tail(s)[i] = s[i + 1]
  BY <1>1, <1>3
<1>7. \A x : Among(x, s) <=> x = Head(s) \/ Among(x, Tail(s))
  BY <1>4
<1> QED BY <1>1, <1>2, <1>5, <1>6, <1>7

-----------------------------------------------------------------------------
(* A scan accounts for every entry.                                        *)

Reported(r, p) == \E u \in r.unsupported : u.name = p
Named(r, p) == \E q \in r.projects : q.name = p

\* Each root and each entry is looked at once.
OnceOnly(r) ==
    /\ r.at = "root" <=> (r.todo = <<>> /\ r.roots # <<>>)
    /\ r.at = "entries" <=> r.todo # <<>>
    /\ Apart(r.todo) /\ Apart(r.roots)
    /\ \A p \in Places : Among(p, r.todo) => ~Among(p[1], r.roots)
    /\ \A p \in Places : (Named(r, p) \/ Reported(r, p)) =>
         ~Among(p, r.todo) /\ ~Among(p[1], r.roots)
    /\ \A p \in Places : ~(Named(r, p) /\ Reported(r, p))

\* No directory is a project twice, and an alias is one of a project.
OneRowEach(r) ==
    /\ \A a, b \in r.projects : a.dir = b.dir => a = b
    /\ \A a \in r.projects : a.dir[1] = a.name[1] /\ a.name[2] \in Proper
    /\ \A u \in r.unsupported : u.why = "alias" => \E q \in r.projects : q.dir = u.dir

\* What is there and was not disturbed is still to come or accounted for.
Accounted(r) ==
    \A p \in Places \ r.disturbed :
        (p[1] \in ToScanSet(r.op) /\ At(p).kind \in {"dir", "link"} /\ p[2] \notin Dotted) =>
            Among(p[1], r.roots) \/ Among(p, r.todo) \/ Named(r, p) \/ Reported(r, p)

\* What is accounted for and was not disturbed is still what it was.
StillTrue(r) ==
    /\ \A p \in Places \ r.disturbed :
         (Named(r, p) \/ \E u \in r.unsupported : u.name = p /\ u.why # "unreadable")
            => (At(p).kind \in {"dir", "link"} /\ p[2] \notin Dotted)
    /\ \A a \in r.projects : Chain(a.name) \cap r.disturbed = {} => Real(a.name) = a.dir

ScanInv ==
    \A t \in Threads : req[t] \in ScanReq =>
        OnceOnly(req[t]) /\ OneRowEach(req[t]) /\ Accounted(req[t]) /\ StillTrue(req[t])

\* While the tree stays, so does everything read from it.
LEMMA SameTree ==
  ASSUME UNCHANGED <<entry, up>>
  PROVE  /\ \A q : At(q)' = At(q)
         /\ \A q : Real(q)' = Real(q) /\ Chain(q)' = Chain(q)
<1>1. \A q : At(q)' = At(q)
  BY DEF At
<1> QED BY <1>1, SameWalk

\* WalkStays, for every place at once.
LEMMA ChainsStay == TypeOK => \A p \in Ends : Chain(p) \subseteq Ends
BY WalkStays

\* And in the next state.
LEMMA ChainsStayNext == (TypeOK => \A p \in Ends : Chain(p) \subseteq Ends)'
BY ChainsStay, PTL

\* A walk that meets nothing the tree moved is the walk it was.
LEMMA UnmovedWalk ==
  ASSUME TypeOK, TypeOK', NEW ps, Moves(ps), NEW p \in Ends,
         Chain(p) \cap ps = {} \/ Chain(p)' \cap ps = {}
  PROVE  Real(p)' = Real(p) /\ Chain(p)' = Chain(p)
<1>1. Chain(p) \subseteq Ends /\ Chain(p)' \subseteq Ends
  BY ChainsStay, ChainsStayNext DEF Ends
<1>2. (\A q \in Chain(p) : At(q)' = At(q)) \/ (\A q \in Chain(p)' : At(q)' = At(q))
  BY <1>1 DEF Moves
<1> QED BY <1>2, SameWalk

\* What a look adds to what is accounted for.
LEMMA LookCounts ==
  ASSUME NEW q, NEW v, NEW r, Looked(q, v, r), NEW x
  PROVE  /\ Named(r, x) <=> Named(q, x) \/ (v = "project" /\ x = Head(q.todo))
         /\ Reported(r, x) <=>
              \/ Reported(q, x)
              \/ v \notin {"project", "skipped"} /\ Head(q.todo)[2] \notin Dotted /\ x = Head(q.todo)
<1> DEFINE p == Head(q.todo)
           a == [name |-> p, dir |-> Real(p)]
           b == [name |-> p, why |-> v, dir |-> Real(p)]
<1>1. /\ r.projects = IF v = "project" THEN q.projects \cup {a} ELSE q.projects
      /\ r.unsupported = IF v \in {"project", "skipped"} \/ p[2] \in Dotted THEN q.unsupported
                         ELSE q.unsupported \cup {b}
  BY DEF Looked
<1>2. a.name = p /\ b.name = p
  OBVIOUS
<1> HIDE DEF a, b, p
<1>3. Named(r, x) <=> Named(q, x) \/ (v = "project" /\ x = p)
  BY <1>1, <1>2 DEF Named
<1>4. Reported(r, x) <=> Reported(q, x) \/ (v \notin {"project", "skipped"} /\ p[2] \notin Dotted /\ x = p)
  BY <1>1, <1>2 DEF Reported
<1> QED BY <1>3, <1>4 DEF p

\* No step makes a scan come back to a root or an entry.
LEMMA OnceStep ==
  ASSUME TypeOK, [Next]_vars, NEW t \in Threads, req'[t] \in ScanReq,
         req[t] \in ScanReq => OnceOnly(req[t])
  PROVE  OnceOnly(req'[t])
<1>1. CASE req[t] \in ScanReq /\ req'[t] = req[t]
  BY <1>1
<1>2. ASSUME NEW op \in {"start", "list"}, NEW p \in Places, req'[t] \in Scans(op, p)
      PROVE OnceOnly(req'[t])
  <2> DEFINE r == req'[t]
  <2>1. /\ r.todo = <<>> /\ r.projects = {} /\ r.unsupported = {} /\ Apart(r.roots)
        /\ r.at = IF r.roots = <<>> THEN "listed" ELSE "root"
    BY <1>2, ScanAsked
  <2>2. Apart(r.todo) /\ \A x : ~Among(x, r.todo)
    BY <2>1 DEF Apart, Among
  <2> HIDE DEF r
  <2> QED BY <2>1, <2>2 DEF OnceOnly, Named, Reported, r
<1>3. ASSUME req[t] \in ScanReq, req[t].at = "root", req[t].roots # <<>>,
             NEW todo, ReadIn(req[t], todo, req'[t])
      PROVE OnceOnly(req'[t])
  <2> DEFINE q == req[t]
             r == req'[t]
  <2>1. q.roots \in Seq(Roots) /\ q.roots # <<>> /\ OnceOnly(q) /\ r \in ScanReq
    BY <1>3 DEF ScanReq
  <2>2. /\ \A x : Among(x, q.roots) <=> x = Head(q.roots) \/ Among(x, Tail(q.roots))
        /\ Apart(Tail(q.roots)) /\ ~Among(Head(q.roots), Tail(q.roots))
    BY <2>1, HeadAndTail DEF OnceOnly
  <2>3. /\ r.roots = Tail(q.roots) /\ r.todo = todo /\ Apart(todo)
        /\ r.projects = q.projects /\ r.unsupported = q.unsupported
        /\ r.at = IF r.todo # <<>> THEN "entries" ELSE IF r.roots # <<>> THEN "root" ELSE "listed"
        /\ \A x \in Places : Among(x, todo) => x[1] = Head(q.roots)
    BY <1>3 DEF ReadIn
  <2> HIDE DEF q, r
  <2> QED BY <2>1, <2>2, <2>3 DEF OnceOnly, Named, Reported, r
<1>4. ASSUME req[t] \in ScanReq, req[t].todo # <<>>, NEW v, Looked(req[t], v, req'[t])
      PROVE OnceOnly(req'[t])
  <2> DEFINE q == req[t]
             r == req'[t]
             p == Head(q.todo)
  <2>1. q.todo \in Seq(Places) /\ q.todo # <<>> /\ OnceOnly(q) /\ p \in Places
    BY <1>4 DEF ScanReq, Looked
  <2>2. /\ \A x : Among(x, q.todo) <=> x = p \/ Among(x, Tail(q.todo))
        /\ Apart(Tail(q.todo)) /\ ~Among(p, Tail(q.todo))
    BY <2>1, HeadAndTail DEF OnceOnly
  <2>3. /\ r.roots = q.roots /\ r.todo = Tail(q.todo)
        /\ r.at = IF r.todo # <<>> THEN "entries" ELSE IF r.roots # <<>> THEN "root" ELSE "listed"
    BY <1>4 DEF Looked
  <2>4. /\ \A x : Named(r, x) <=> Named(q, x) \/ (v = "project" /\ x = p)
        /\ \A x : Reported(r, x) <=> Reported(q, x) \/ (v \notin {"project", "skipped"} /\ p[2] \notin Dotted /\ x = p)
    BY <1>4, LookCounts
  <2> HIDE DEF q, r, p
  <2> QED BY <2>1, <2>2, <2>3, <2>4 DEF OnceOnly, r
<1>5. ASSUME req[t] \in ScanReq, NEW ps, req'[t] = [req[t] EXCEPT !.disturbed = @ \cup ps]
      PROVE OnceOnly(req'[t])
  BY <1>5 DEF OnceOnly, Named, Reported, ScanReq
<1> QED BY <1>1, <1>2, <1>3, <1>4, <1>5, ScanFrom DEF MovedUnder

\* No step puts a directory on the list twice.
LEMMA RowEachStep ==
  ASSUME TypeOK, [Next]_vars, NEW t \in Threads, req'[t] \in ScanReq,
         req[t] \in ScanReq => OneRowEach(req[t])
  PROVE  OneRowEach(req'[t])
<1>1. CASE req[t] \in ScanReq /\ req'[t] = req[t]
  BY <1>1
<1>2. ASSUME NEW op \in {"start", "list"}, NEW p \in Places, req'[t] \in Scans(op, p)
      PROVE OneRowEach(req'[t])
  BY <1>2, ScanAsked DEF OneRowEach
<1>3. ASSUME req[t] \in ScanReq, NEW todo, ReadIn(req[t], todo, req'[t])
      PROVE OneRowEach(req'[t])
  BY <1>3 DEF OneRowEach, ReadIn
<1>4. ASSUME req[t] \in ScanReq, req[t].todo # <<>>,
             NEW v \in {Verdict(Head(req[t].todo), SeenBy(req[t])), "unreadable"},
             Looked(req[t], v, req'[t])
      PROVE OneRowEach(req'[t])
  <2> DEFINE q == req[t]
             r == req'[t]
             p == Head(q.todo)
  <2>1. /\ v = "project" => /\ Real(p) \notin SeenBy(q) /\ p[2] \in Proper /\ Real(p)[1] = p[1]
        /\ v = "alias" => Real(p) \in SeenBy(q)
    BY VerdictIs DEF InsideRoot
  <2>2. r.projects = IF v = "project" THEN q.projects \cup {[name |-> p, dir |-> Real(p)]}
                     ELSE q.projects
    BY <1>4 DEF Looked
  <2>3. \A u \in r.unsupported : u \in q.unsupported \/ u = [name |-> p, why |-> v, dir |-> Real(p)]
    BY <1>4 DEF Looked
  <2>4. OneRowEach(q)
    BY <1>4
  <2> HIDE DEF q, r, p
  <2>5. \A a, b \in r.projects : a.dir = b.dir => a = b
    BY <2>1, <2>2, <2>4 DEF OneRowEach, SeenBy
  <2>6. \A a \in r.projects : a.dir[1] = a.name[1] /\ a.name[2] \in Proper
    BY <2>1, <2>2, <2>4 DEF OneRowEach
  <2>7. \A u \in r.unsupported : u.why = "alias" => \E x \in r.projects : x.dir = u.dir
    BY <2>1, <2>2, <2>3, <2>4 DEF OneRowEach, SeenBy
  <2> QED BY <2>5, <2>6, <2>7 DEF OneRowEach, r
<1>5. ASSUME req[t] \in ScanReq, NEW ps, req'[t] = [req[t] EXCEPT !.disturbed = @ \cup ps]
      PROVE OneRowEach(req'[t])
  BY <1>5 DEF OneRowEach, ScanReq
<1> QED BY <1>1, <1>2, <1>3, <1>4, <1>5, ScanFrom DEF MovedUnder
\* No step loses an entry.
LEMMA AccountedStep ==
  ASSUME TypeOK, TypeOK', [Next]_vars, NEW t \in Threads, req'[t] \in ScanReq,
         req[t] \in ScanReq => OnceOnly(req[t]) /\ Accounted(req[t])
  PROVE  Accounted(req[t])'
<1> SUFFICES ASSUME NEW p \in Places, p \notin req'[t].disturbed,
                    p[1] \in ToScanSet(req'[t].op),
                    At(p)'.kind \in {"dir", "link"}, p[2] \notin Dotted
             PROVE  \/ Among(p[1], req'[t].roots) \/ Among(p, req'[t].todo)
                    \/ Named(req'[t], p) \/ Reported(req'[t], p)
  BY DEF Accounted, Named, Reported, ToScanSet, ActiveRoots, Among
<1> DEFINE Counted(r) == \/ Among(p[1], r.roots) \/ Among(p, r.todo) \/ Named(r, p) \/ Reported(r, p)
<1>0. ASSUME req[t] \in ScanReq, At(p)' = At(p), req'[t].op = req[t].op, p \notin req[t].disturbed
      PROVE Counted(req[t])
  BY <1>0 DEF Accounted
<1>1. CASE UNCHANGED <<entry, up>> /\ req[t] \in ScanReq /\ req'[t] = req[t]
  <2>1. At(p)' = At(p)
    BY <1>1, SameTree
  <2> QED BY <1>0, <1>1, <2>1
<1>2. ASSUME NEW op \in {"start", "list"}, NEW x \in Places, req'[t] \in Scans(op, x)
      PROVE Counted(req'[t])
  BY <1>2, ScanAsked
<1>3. ASSUME UNCHANGED <<entry, up>>, req[t] \in ScanReq,
             req[t].at = "root", req[t].roots # <<>>, NEW todo, ReadIn(req[t], todo, req'[t])
      PROVE Counted(req'[t])
  <2>1. At(p)' = At(p)
    BY <1>3, SameTree
  <2>2. Counted(req[t])
    BY <1>0, <1>3, <2>1 DEF ReadIn
  <2>3. \A x : Among(x, req[t].roots) <=> x = Head(req[t].roots) \/ Among(x, Tail(req[t].roots))
    BY <1>3, HeadAndTail DEF ScanReq
  <2>4. p[1] = Head(req[t].roots) => Among(p, todo)
    BY <1>3, <2>1 DEF ReadIn, Nothing
  <2>5. ~Among(p, req[t].todo)
    BY <1>3 DEF OnceOnly, Among
  <2> QED BY <1>3, <2>2, <2>3, <2>4, <2>5 DEF ReadIn, Named, Reported
<1>4. ASSUME UNCHANGED <<entry, up>>, req[t] \in ScanReq, req[t].todo # <<>>,
             NEW v \in {Verdict(Head(req[t].todo), SeenBy(req[t])), "unreadable"},
             Looked(req[t], v, req'[t])
      PROVE Counted(req'[t])
  <2>1. At(p)' = At(p)
    BY <1>4, SameTree
  <2>2. Counted(req[t])
    BY <1>0, <1>4, <2>1 DEF Looked
  <2>3. \A x : Among(x, req[t].todo) <=> x = Head(req[t].todo) \/ Among(x, Tail(req[t].todo))
    BY <1>4, HeadAndTail DEF ScanReq
  <2>4. p = Head(req[t].todo) => v # "skipped"
    <3>1. CASE At(p).kind = "link"
      BY <3>1, VerdictIs DEF IsLink
    <3>2. CASE At(p).kind # "link"
      <4>1. IsDir(p)
        BY <2>1, <3>2, NoLink DEF IsDir
      <4> QED BY <4>1, VerdictIs
    <3> QED BY <3>1, <3>2
  <2>5. /\ Named(req'[t], p) <=> Named(req[t], p) \/ (v = "project" /\ p = Head(req[t].todo))
        /\ Reported(req'[t], p) <=>
             \/ Reported(req[t], p)
             \/ v \notin {"project", "skipped"} /\ Head(req[t].todo)[2] \notin Dotted /\ p = Head(req[t].todo)
    BY <1>4, LookCounts
  <2>6. req'[t].todo = Tail(req[t].todo) /\ req'[t].roots = req[t].roots
    BY <1>4 DEF Looked
  <2> QED BY <2>2, <2>3, <2>4, <2>5, <2>6
<1>5. ASSUME req[t] \in ScanReq, NEW ps \in SUBSET Places, MovedUnder(req[t], ps, req'[t])
      PROVE Counted(req'[t])
  <2>1. /\ req'[t].op = req[t].op /\ req'[t].roots = req[t].roots /\ req'[t].todo = req[t].todo
        /\ req'[t].projects = req[t].projects /\ req'[t].unsupported = req[t].unsupported
        /\ req'[t].disturbed = req[t].disturbed \cup ps
    BY <1>5 DEF MovedUnder, ScanReq
  <2>2. At(p)' = At(p)
    BY <1>5, <2>1 DEF MovedUnder, Moves, Ends
  <2> QED BY <1>0, <1>5, <2>1, <2>2 DEF Named, Reported
<1> QED BY <1>1, <1>2, <1>3, <1>4, <1>5, ScanFrom

\* No step makes what the scan has noted untrue without disturbing it.
LEMMA StillTrueStep ==
  ASSUME TypeOK, TypeOK', [Next]_vars, NEW t \in Threads, req'[t] \in ScanReq,
         req[t] \in ScanReq => StillTrue(req[t])
  PROVE  StillTrue(req[t])'
<1> DEFINE There(x) == At(x).kind \in {"dir", "link"} /\ x[2] \notin Dotted
           Noticed(r, x) == Named(r, x) \/ \E u \in r.unsupported : u.name = x /\ u.why # "unreadable"
           Told(r) == /\ \A x \in Places \ r.disturbed : Noticed(r, x) => There(x)'
                      /\ \A a \in r.projects :
                           Chain(a.name)' \cap r.disturbed = {} => Real(a.name)' = a.dir
<1>0. SUFFICES Told(req'[t])
  BY DEF StillTrue, Named
<1>a. ASSUME UNCHANGED <<entry, up>>, req[t] \in ScanReq PROVE Told(req[t])
  <2>1. /\ \A x : At(x)' = At(x)
        /\ \A x : Real(x)' = Real(x) /\ Chain(x)' = Chain(x)
    BY <1>a, SameTree
  <2> QED BY <1>a, <2>1 DEF StillTrue
<1>1. CASE UNCHANGED <<entry, up>> /\ req[t] \in ScanReq /\ req'[t] = req[t]
  <2>1. Told(req[t])
    BY <1>a, <1>1
  <2> QED BY <1>1, <2>1
<1>2. ASSUME NEW op \in {"start", "list"}, NEW x \in Places, req'[t] \in Scans(op, x)
      PROVE Told(req'[t])
  BY <1>2, ScanAsked DEF Named
<1>3. ASSUME UNCHANGED <<entry, up>>, req[t] \in ScanReq, NEW todo, ReadIn(req[t], todo, req'[t])
      PROVE Told(req'[t])
  BY <1>a, <1>3 DEF ReadIn, Named
<1>4. ASSUME UNCHANGED <<entry, up>>, req[t] \in ScanReq, req[t].todo # <<>>,
             NEW v \in {Verdict(Head(req[t].todo), SeenBy(req[t])), "unreadable"},
             Looked(req[t], v, req'[t])
      PROVE Told(req'[t])
  <2>1. Told(req[t])
    BY <1>a, <1>4
  <2>0. PICK p : p = Head(req[t].todo)
    OBVIOUS
  <2> DEFINE a == [name |-> p, dir |-> Real(p)]
             b == [name |-> p, why |-> v, dir |-> Real(p)]
  <2>2. /\ req'[t].projects = IF v = "project" THEN req[t].projects \cup {a} ELSE req[t].projects
        /\ req'[t].unsupported = IF v \in {"project", "skipped"} \/ p[2] \in Dotted
                                 THEN req[t].unsupported ELSE req[t].unsupported \cup {b}
        /\ req'[t].disturbed = req[t].disturbed /\ p \in Places
    BY <1>4, <2>0 DEF Looked
  <2>3. /\ At(p)' = At(p) /\ Real(p)' = Real(p)
    BY <1>4, SameTree
  <2>4. v = "project" => p[2] \notin Dotted
    BY <2>0, VerdictIs, FoldersAssumption
  <2>5. v \notin {"unreadable", "skipped"} => At(p).kind \in {"dir", "link"}
    <3>1. v \notin {"unreadable", "skipped"} => IsDir(p) \/ IsLink(p)
      BY <2>0, VerdictIs
    <3>2. At(p).kind # "link" => Real(p) = p
      BY NoLink
    <3> QED BY <3>1, <3>2 DEF IsDir, IsLink
  <2>6. a.name = p /\ a.dir = Real(p) /\ a.dir = Real(p)' /\ b.name = p /\ b.why = v
    BY <2>3
  <2> HIDE DEF a, b
  <2>7. ASSUME NEW x \in Places, x \notin req'[t].disturbed, Noticed(req'[t], x) PROVE There(x)'
    <3>1. \/ Noticed(req[t], x)
          \/ x = p /\ v \notin {"unreadable", "skipped"} /\ p[2] \notin Dotted
      BY <2>2, <2>4, <2>6, <2>7 DEF Named
    <3> QED BY <2>1, <2>2, <2>3, <2>5, <2>7, <3>1
  <2>8. ASSUME NEW q \in req'[t].projects, Chain(q.name)' \cap req'[t].disturbed = {}
        PROVE  Real(q.name)' = q.dir
    <3>1. q \in req[t].projects \/ q = a
      BY <2>2, <2>8
    <3>2. CASE q = a
      BY <2>3, <2>6, <3>2
    <3> QED BY <2>1, <2>2, <2>8, <3>1, <3>2
  <2> QED BY <2>7, <2>8
<1>5. ASSUME req[t] \in ScanReq, NEW ps \in SUBSET Places, MovedUnder(req[t], ps, req'[t])
      PROVE Told(req'[t])
  <2>1. /\ req'[t].projects = req[t].projects /\ req'[t].unsupported = req[t].unsupported
        /\ req'[t].disturbed = req[t].disturbed \cup ps
    BY <1>5 DEF MovedUnder, ScanReq
  <2>2. StillTrue(req[t]) /\ Moves(ps)
    BY <1>5 DEF MovedUnder
  <2>3. ASSUME NEW x \in Places, x \notin req'[t].disturbed, Noticed(req'[t], x) PROVE There(x)'
    <3>1. At(x)' = At(x)
      BY <2>1, <2>2, <2>3 DEF Moves, Ends
    <3>2. Noticed(req[t], x) /\ x \notin req[t].disturbed
      BY <2>1, <2>3 DEF Named
    <3> QED BY <2>2, <3>1, <3>2 DEF StillTrue
  <2>4. ASSUME NEW q \in req'[t].projects, Chain(q.name)' \cap req'[t].disturbed = {}
        PROVE  Real(q.name)' = q.dir
    <3>1. q.name \in Ends /\ q \in req[t].projects
      BY <1>5, <2>1, <2>4 DEF ScanReq, Ends
    <3>2. Real(q.name)' = Real(q.name) /\ Chain(q.name)' = Chain(q.name)
      BY <2>1, <2>2, <2>4, <3>1, UnmovedWalk
    <3> QED BY <2>1, <2>2, <2>4, <3>1, <3>2 DEF StillTrue
  <2> QED BY <2>3, <2>4
<1> HIDE DEF Told
<1> QED BY <1>1, <1>2, <1>3, <1>4, <1>5, ScanFrom

\* The four together are inductive.
LEMMA ScanStep == TypeOK /\ TypeOK' /\ ScanInv /\ [Next]_vars => ScanInv'
<1> SUFFICES ASSUME TypeOK, TypeOK', ScanInv, [Next]_vars, NEW t \in Threads, req'[t] \in ScanReq
             PROVE  /\ OnceOnly(req'[t]) /\ OneRowEach(req'[t])
                    /\ Accounted(req[t])' /\ StillTrue(req[t])'
  BY DEF ScanInv, OnceOnly, OneRowEach, Named, Reported
<1>1. req[t] \in ScanReq =>
        OnceOnly(req[t]) /\ OneRowEach(req[t]) /\ Accounted(req[t]) /\ StillTrue(req[t])
  BY DEF ScanInv
<1>2. OnceOnly(req'[t])
  BY <1>1, OnceStep
<1>3. OneRowEach(req'[t])
  BY <1>1, RowEachStep
<1>4. Accounted(req[t])'
  BY <1>1, AccountedStep
<1>5. StillTrue(req[t])'
  BY <1>1, StillTrueStep
<1> QED BY <1>2, <1>3, <1>4, <1>5

\* No scan is under way at first.
LEMMA InitScan == Init => ScanInv
BY DEF Init, ScanInv, Idle, ScanReq

\* A scan accounts for every entry exactly once, whatever the tree does under
\* it: a folder is a project or is reported with a reason, an alias is
\* reported beside the project it is an alias of, no directory is a project
\* twice, and only plain files and hidden names are left out in silence.
\* Neither UnlistedTargets nor AliasMidScan has to be FALSE (scan, #7, #11).
THEOREM EveryEntryCounts == Spec => []EveryEntryIsAccountedFor
<1>1. TypeOK /\ ScanInv => EveryEntryIsAccountedFor
  <2> SUFFICES ASSUME TypeOK, ScanInv, NEW t \in Threads, req[t].at = "listed"
               PROVE  LET seen == {p \in Places : p[1] \in ToScanSet(req[t].op) /\ Settled(t, p)}
                          Rep(p) == \E u \in req[t].unsupported : u.name = p
                      IN  /\ \A p \in seen :
                               /\ Listed(t, p) => ~Rep(p)
                               /\ (Listed(t, p) \/ Rep(p))
                                    <=> (At(p).kind \in {"dir", "link"} /\ p[2] \notin Dotted)
                          /\ \A p, q \in seen :
                               (Listed(t, p) /\ Listed(t, q) /\ Real(p) = Real(q)) => p = q
                          /\ \A u \in req[t].unsupported :
                               u.why = "alias" => \E q \in req[t].projects : q.dir = u.dir
    BY DEF EveryEntryIsAccountedFor
  <2>1. req[t] \in ScanReq
    BY Kinds DEF TypeOK
  <2>2. OnceOnly(req[t]) /\ OneRowEach(req[t]) /\ Accounted(req[t]) /\ StillTrue(req[t])
    BY <2>1 DEF ScanInv
  <2>3. req[t].roots = <<>> /\ req[t].todo = <<>>
    BY <2>1, <2>2 DEF OnceOnly
  <2>4. \A x : ~Among(x, req[t].roots) /\ ~Among(x, req[t].todo)
    BY <2>3 DEF Among
  <2>5. ASSUME NEW p \in Places, p[1] \in ToScanSet(req[t].op), Settled(t, p)
        PROVE  /\ ~(Named(req[t], p) /\ Reported(req[t], p))
               /\ (Named(req[t], p) \/ Reported(req[t], p))
                    <=> (At(p).kind \in {"dir", "link"} /\ p[2] \notin Dotted)
    <3>1. p \notin req[t].disturbed
      BY <2>5, WalkIs DEF Settled
    <3>2. Reported(req[t], p) => \E u \in req[t].unsupported : u.name = p /\ u.why # "unreadable"
      BY <2>5 DEF Settled, Reported
    <3> QED BY <2>2, <2>4, <2>5, <3>1, <3>2 DEF OnceOnly, Accounted, StillTrue
  <2>6. ASSUME NEW p \in Places, NEW q \in Places, Settled(t, p), Settled(t, q),
               Named(req[t], p), Named(req[t], q), Real(p) = Real(q)
        PROVE p = q
    <3>1. PICK a \in req[t].projects : a.name = p
      BY <2>6 DEF Named
    <3>2. PICK b \in req[t].projects : b.name = q
      BY <2>6 DEF Named
    <3>3. a.dir = Real(p) /\ b.dir = Real(q)
      BY <2>2, <2>6, <3>1, <3>2 DEF StillTrue, Settled
    <3> QED BY <2>2, <2>6, <3>1, <3>2, <3>3 DEF OneRowEach
  <2>7. \A u \in req[t].unsupported : u.why = "alias" => \E q \in req[t].projects : q.dir = u.dir
    BY <2>2 DEF OneRowEach
  <2> QED BY <2>5, <2>6, <2>7 DEF Listed, Named, Reported
<1> QED BY <1>1, InitScan, ScanStep, TypeCorrect, PTL DEF Spec

-----------------------------------------------------------------------------
(* With AliasMidScan = FALSE, a real directory keeps its row.              *)

\* The folders that have not changed under the scan.
Steady(r) == {x \in Places \ r.disturbed : At(x) = Folder}

Ahead(q, x, s) == \E i, j \in DOMAIN s : i < j /\ s[i] = q /\ s[j] = x

\* Nothing ahead of a folder leads to it, and nothing on the list does.
FirstInLine(r) ==
    \A x \in Steady(r) :
        /\ \A q \in Places : Ahead(q, x, r.todo) => Real(q) # x
        /\ (Among(x, r.todo) \/ Among(x[1], r.roots)) => \A a \in r.projects : a.dir # x
        /\ x[2] \in Proper => \A u \in r.unsupported : u.name = x => u.why = "unreadable"

\* An agent's own folder is there as long as the agent is.
OwnFolder(name, dir) == name = dir => (At(dir) = Folder /\ dir[2] \in Proper)

RowInv ==
    /\ \A a \in agents : OwnFolder(a.name, a.dir)
    /\ \A t \in Threads : req[t] \in HeldReq => OwnFolder(req[t].asked, req[t].dir)
    /\ \A t \in Threads : req[t] \in ScanReq => FirstInLine(req[t])

\* What a step can do to the tree.
LEMMA TreeFrom ==
  ASSUME TypeOK, [Next]_vars
  PROVE  \/ UNCHANGED <<entry, up>>
         \/ \E ps \in SUBSET Places : Moves(ps)
<1> DEFINE Moved == \E ps \in SUBSET Places : Moves(ps)
<1>1. ASSUME NEW t \in Threads, Mkdir(t) PROVE UNCHANGED <<entry, up>> \/ Moved
  <2>1. PICK p : p = req[t].asked
    OBVIOUS
  <2>2. CASE Finishes(t)
    BY <2>2 DEF Finishes, OwnStep
  <2>3. CASE ~Finishes(t)
    BY <1>1, <2>1, <2>3, MkdirStep
  <2> QED BY <2>2, <2>3
<1>2. ASSUME NEW p \in Places, NEW e \in Makeable, Change(p, e) PROVE Moved
  <2>1. Moves({p}) /\ {p} \in SUBSET Places
    BY <1>2, ChangeMoves
  <2> QED BY <2>1
<1>3. ASSUME NEW r \in Roots, RootToggles(r) PROVE Moved
  <2>1. Moves({p \in Places : p[1] = r}) /\ {p \in Places : p[1] = r} \in SUBSET Places
    BY <1>3, ToggleMoves
  <2> QED BY <2>1
<1> HIDE DEF Moved
<1>4. CASE \/ \E t \in Threads :
                \/ Ask(t) \/ ReadRoot(t) \/ LookAtEntry(t) \/ AnswerListing(t)
                \/ RequireStartable(t) \/ TakeDirectory(t) \/ LookForAgent(t) \/ Spawn(t)
                \/ CheckName(t)
           \/ \E a \in agents : AgentEnds(a)
           \/ UNCHANGED vars
  BY <1>4 DEF Ask, ReadRoot, LookAtEntry, AnswerListing, RequireStartable, TakeDirectory,
              LookForAgent, Spawn, CheckName, AgentEnds, vars
<1> QED BY <1>1, <1>2, <1>3, <1>4 DEF Next, Moved

\* Where somebody has an agent or a start, what is there stays.
LEMMA KeptInUse ==
  ASSUME TypeOK, [Next]_vars, NEW x \in InUse, x \in Ends, At(x) # Nothing
  PROVE  At(x)' = At(x)
<1>1. CASE UNCHANGED <<entry, up>>
  BY <1>1, SameTree
<1>2. ASSUME NEW ps \in SUBSET Places, Moves(ps) PROVE At(x)' = At(x)
  BY <1>2 DEF Moves
<1> QED BY <1>1, <1>2, TreeFrom

\* The places on the way to what a start was asked for are in use.
LEMMA StartUses ==
  ASSUME NEW t \in Threads, req[t].at # "idle", req[t].op = "start"
  PROVE  req[t].asked \in InUse /\ Chain(req[t].asked) \subseteq InUse
<1> DEFINE Uses(u) == IF req[u].at = "idle" \/ req[u].op # "start" THEN {}
                      ELSE {req[u].asked} \cup Chain(req[u].asked)
<1>1. Uses(t) = {req[t].asked} \cup Chain(req[t].asked)
  OBVIOUS
<1>2. InUse = (UNION {{a.name, a.dir} : a \in agents}) \cup (UNION {Uses(u) : u \in Threads})
  BY DEF InUse
<1> HIDE DEF Uses
<1>3. Uses(t) \subseteq InUse
  <2>1. Uses(t) \in {Uses(u) : u \in Threads}
    OBVIOUS
  <2>2. Uses(t) \subseteq UNION {Uses(u) : u \in Threads}
    BY <2>1
  <2> QED BY <1>2, <2>2
<1> QED BY <1>1, <1>3

\* Nobody takes the folder of an agent or of a start away.
LEMMA FoldersStay ==
  ASSUME TypeOK, TypeOK', RowInv, [Next]_vars
  PROVE  /\ \A a \in agents' : OwnFolder(a.name, a.dir)'
         /\ \A t \in Threads : (req[t] \in HeldReq => OwnFolder(req[t].asked, req[t].dir))'
<1>0. /\ \A a \in agents : {a.name, a.dir} \subseteq InUse
      /\ \A t \in Threads : req[t] \in HeldReq => req[t].asked \in InUse
  <2>1. ASSUME NEW a \in agents PROVE {a.name, a.dir} \subseteq InUse
    BY <2>1 DEF InUse
  <2>2. ASSUME NEW t \in Threads, req[t] \in HeldReq PROVE req[t].asked \in InUse
    BY <2>2, StartUses DEF HeldReq
  <2> QED BY <2>1, <2>2
<1>1. ASSUME NEW n \in Places, NEW d \in Places, OwnFolder(n, d), n \in InUse PROVE OwnFolder(n, d)'
  <2> SUFFICES ASSUME n = d PROVE At(d)' = Folder /\ d[2] \in Proper
    BY DEF OwnFolder
  <2>1. At(d) = Folder /\ d[2] \in Proper /\ d \in Ends /\ At(d) # Nothing
    BY <1>1 DEF OwnFolder, Ends, Folder, Nothing
  <2> QED BY <1>1, <2>1, KeptInUse
<1>2. ASSUME NEW t \in Threads, req'[t] \in HeldReq PROVE OwnFolder(req[t].asked, req[t].dir)'
  <2>1. CASE req[t] \in HeldReq /\ req'[t].asked = req[t].asked /\ req'[t].dir = req[t].dir
    <3>1. PICK n \in Places : n = req[t].asked
      BY <2>1 DEF HeldReq
    <3>2. PICK d \in Places : d = req[t].dir
      BY <2>1 DEF HeldReq
    <3>3. OwnFolder(n, d) /\ n \in InUse
      BY <1>0, <2>1, <3>1, <3>2 DEF RowInv
    <3>4. OwnFolder(n, d)'
      BY <1>1, <3>3
    <3> QED BY <2>1, <3>1, <3>2, <3>4 DEF OwnFolder
  <2>2. CASE /\ UNCHANGED <<entry, up>>
             /\ req'[t].asked = req[t].asked /\ req'[t].dir = Real(req[t].asked)
             /\ req[t].asked \in Places /\ req[t].asked[2] \in Proper /\ IsDir(req[t].asked)
    <3>1. PICK n \in Places : n = req[t].asked
      BY <2>2
    <3>2. n = Real(n) => At(n) = Folder /\ At(n)' = At(n)
      BY <2>2, <3>1, AtIs, SameTree DEF IsDir, Ends
    <3> QED BY <2>2, <3>1, <3>2 DEF OwnFolder
  <2> QED BY <1>2, <2>1, <2>2, HeldFrom
<1>3. ASSUME NEW a \in agents' PROVE OwnFolder(a.name, a.dir)'
  <2>1. CASE a \in agents
    BY <1>0, <1>1, <2>1 DEF TypeOK, RowInv
  <2>2. ASSUME NEW t \in Threads, req[t] \in HeldReq,
               a = [name |-> req[t].asked, dir |-> req[t].dir]
        PROVE OwnFolder(a.name, a.dir)'
    <3>1. a.name \in Places /\ a.dir \in Places
      BY <2>2 DEF HeldReq
    <3>2. OwnFolder(a.name, a.dir) /\ a.name \in InUse
      BY <1>0, <2>2 DEF RowInv
    <3> QED BY <1>1, <3>1, <3>2
  <2> QED BY <2>1, <2>2, AgentFrom
<1> QED BY <1>2, <1>3

\* AtIs, for every place at once.
LEMMA AtAll == TypeOK => \A q \in Ends :
                 /\ At(q).kind = "link" =>
                      /\ q \in Places /\ q[1] \in up /\ entry[q] = At(q)
                      /\ At(q) = LinkTo(At(q).to) /\ At(q).to \in Ends
BY AtIs

\* And in the next state.
LEMMA AtAllNext == (TypeOK => \A q \in Ends :
                     /\ At(q).kind = "link" =>
                          /\ q \in Places /\ q[1] \in up /\ entry[q] = At(q)
                          /\ At(q) = LinkTo(At(q).to) /\ At(q).to \in Ends)'
BY AtAll, PTL

\* Onward, for every place at once.
LEMMA OnwardAll == \A p : At(Real(p)).kind # "link" => \A y \in Chain(p) :
                     y # Real(p) => At(y).kind = "link" /\ At(y).to \in Chain(p) /\ At(y).to # y
BY Onward

\* And in the next state.
LEMMA OnwardNext == (\A p : At(Real(p)).kind # "link" => \A y \in Chain(p) :
                       y # Real(p) => At(y).kind = "link" /\ At(y).to \in Chain(p) /\ At(y).to # y)'
BY OnwardAll, PTL

\* Without a new alias, what leads to a folder has led to it before.
LEMMA NoNewRoute ==
  ASSUME TypeOK, TypeOK', NEW ps, Moves(ps), NoNewAlias, NEW x \in Places, NEW q \in Ends,
         At(x) = Folder, At(x)' = Folder, Real(q)' = x
  PROVE  Real(q) = x
<1>1. Chain(q)' \subseteq Ends
  BY ChainsStayNext
<1>2. ASSUME NEW y \in Chain(q)', y # x PROVE At(y)' = At(y)
  <2>1. At(Real(q))'.kind # "link"
    BY DEF Folder
  <2>2. PICK z : z = At(y)'.to
    OBVIOUS
  <2>3. At(y)'.kind = "link" /\ z \in Chain(q)' /\ z # y
    BY <1>2, <2>1, <2>2, OnwardNext
  <2>4. /\ y \in Places /\ y[1] \in up' /\ entry'[y] = At(y)' /\ At(y)' = LinkTo(z)
    BY <1>1, <2>2, <2>3, AtAllNext
  <2>5. z \in Places /\ At(z)' # Nothing
    <3>1. z = x \/ At(z)'.kind = "link"
      BY <2>1, <2>3, OnwardNext
    <3>2. z = x \/ z \in Places
      BY <1>1, <2>3, <3>1, AtAllNext
    <3> QED BY <3>1, <3>2 DEF Folder, Nothing
  <2>6. entry'[z] # Nothing
    BY <2>5, FoldersAssumption DEF At
  <2>7. <<y, z>> \in Aliases(entry')
    BY <2>3, <2>4, <2>5, <2>6 DEF Aliases
  <2>8. entry[y] = LinkTo(z) /\ y[1] \in up
    BY <2>4, <2>7 DEF NoNewAlias, Aliases
  <2> QED BY <2>4, <2>8, FoldersAssumption DEF At
<1>3. \A y \in Chain(q)' : At(y)' = At(y)
  BY <1>2
<1> QED BY <1>3, SameWalk

\* What was behind another one in a sequence, when its front is taken off.
LEMMA Shorter ==
  ASSUME NEW S, NEW s \in Seq(S), s # <<>>, NEW x
  PROVE  /\ \A q : Ahead(q, x, Tail(s)) => Ahead(q, x, s)
         /\ \A q : Ahead(q, x, s) /\ q # Head(s) => Ahead(q, x, Tail(s))
         /\ Among(x, Tail(s)) => Ahead(Head(s), x, s)
<1>1. /\ 1 \in DOMAIN s /\ s[1] = Head(s) /\ DOMAIN s \subseteq Nat /\ DOMAIN Tail(s) \subseteq Nat \ {0}
      /\ \A i \in DOMAIN Tail(s) : i + 1 \in DOMAIN s /\ Tail(s)[i] = s[i + 1]
  BY HeadAndTail
<1>2. ASSUME NEW q, Ahead(q, x, Tail(s)) PROVE Ahead(q, x, s)
  <2>1. PICK i \in DOMAIN Tail(s), j \in DOMAIN Tail(s) : i < j /\ Tail(s)[i] = q /\ Tail(s)[j] = x
    BY <1>2 DEF Ahead
  <2>2. i + 1 < j + 1
    BY <1>1, <2>1
  <2> QED BY <1>1, <2>1, <2>2 DEF Ahead
<1>3. ASSUME Among(x, Tail(s)) PROVE Ahead(Head(s), x, s)
  <2>1. PICK j \in DOMAIN Tail(s) : Tail(s)[j] = x
    BY <1>3 DEF Among
  <2>2. 1 < j + 1
    BY <1>1, <2>1
  <2> QED BY <1>1, <2>1, <2>2 DEF Ahead
<1>4. ASSUME NEW q, Ahead(q, x, s), q # Head(s) PROVE Ahead(q, x, Tail(s))
  <2>1. PICK i \in DOMAIN s, j \in DOMAIN s : i < j /\ s[i] = q /\ s[j] = x
    BY <1>4 DEF Ahead
  <2>2. /\ Len(s) \in Nat /\ DOMAIN s = 1..Len(s) /\ DOMAIN Tail(s) = 1..(Len(s) - 1)
    OBVIOUS
  <2>3. i # 1
    BY <1>1, <1>4, <2>1
  <2>4. i - 1 \in DOMAIN Tail(s) /\ j - 1 \in DOMAIN Tail(s) /\ i - 1 < j - 1
    BY <2>1, <2>2, <2>3
  <2>5. Tail(s)[i - 1] = q /\ Tail(s)[j - 1] = x
    BY <2>1, <2>2, <2>4
  <2> QED BY <2>4, <2>5 DEF Ahead
<1> QED BY <1>2, <1>3, <1>4

\* No step puts a way to a folder ahead of the folder.
LEMMA InLineStep ==
  ASSUME TypeOK, TypeOK', AliasMidScan = FALSE, [Next]_vars, NEW t \in Threads,
         req'[t] \in ScanReq, req[t] \in ScanReq => OnceOnly(req[t]) /\ FirstInLine(req[t])
  PROVE  FirstInLine(req[t])'
<1> DEFINE InLine(r, x) ==
             /\ \A q \in Places : Ahead(q, x, r.todo) => Real(q)' # x
             /\ (Among(x, r.todo) \/ Among(x[1], r.roots)) => \A a \in r.projects : a.dir # x
             /\ x[2] \in Proper => \A u \in r.unsupported : u.name = x => u.why = "unreadable"
<1> SUFFICES ASSUME NEW x \in Places, x \notin req'[t].disturbed, At(x)' = Folder
             PROVE  InLine(req'[t], x)
  BY DEF FirstInLine, Steady, Among, Ahead
<1>a. ASSUME UNCHANGED <<entry, up>>
      PROVE  /\ \A q : Real(q)' = Real(q)
             /\ At(x) = Folder /\ Real(x) = x
             /\ req[t] \in ScanReq /\ x \notin req[t].disturbed => InLine(req[t], x)
  <2>1. /\ \A q : Real(q)' = Real(q)
        /\ At(x) = Folder
    BY <1>a, SameTree
  <2>2. Real(x) = x
    BY <2>1, NoLink DEF Folder
  <2>3. ASSUME req[t] \in ScanReq, x \notin req[t].disturbed PROVE InLine(req[t], x)
    BY <2>1, <2>3 DEF FirstInLine, Steady
  <2> QED BY <2>1, <2>2, <2>3
<1>1. CASE UNCHANGED <<entry, up>> /\ req[t] \in ScanReq /\ req'[t] = req[t]
  <2>1. InLine(req[t], x)
    BY <1>a, <1>1
  <2> QED BY <1>1, <2>1
<1>2. ASSUME NEW op \in {"start", "list"}, NEW p \in Places, req'[t] \in Scans(op, p)
      PROVE InLine(req'[t], x)
  <2>1. /\ req'[t].todo = <<>> /\ req'[t].projects = {} /\ req'[t].unsupported = {}
    BY <1>2, ScanAsked
  <2>2. \A q : ~Ahead(q, x, req'[t].todo)
    BY <2>1 DEF Ahead
  <2> QED BY <2>1, <2>2
<1>3. ASSUME UNCHANGED <<entry, up>>, req[t] \in ScanReq, req[t].roots # <<>>,
             NEW todo, ReadIn(req[t], todo, req'[t])
      PROVE InLine(req'[t], x)
  <2>1. InLine(req[t], x)
    BY <1>a, <1>3 DEF ReadIn
  <2>2. \A y : Among(y, req[t].roots) <=> y = Head(req[t].roots) \/ Among(y, Tail(req[t].roots))
    BY <1>3, HeadAndTail DEF ScanReq
  <2>3. /\ req'[t].todo = todo /\ req'[t].roots = Tail(req[t].roots)
        /\ req'[t].projects = req[t].projects /\ req'[t].unsupported = req[t].unsupported
        /\ Apart(todo) /\ \A y \in Places : Among(y, todo) => y[1] = Head(req[t].roots)
        /\ \A i, j \in DOMAIN todo : i < j => DedupFirst(todo[i], todo[j])
    BY <1>3 DEF ReadIn
  <2>4. ASSUME NEW q \in Places, Ahead(q, x, todo) PROVE Real(q)' # x
    <3>1. PICK i \in DOMAIN todo, j \in DOMAIN todo : i < j /\ todo[i] = q /\ todo[j] = x
      BY <2>4 DEF Ahead
    <3>2. DedupFirst(q, x) /\ i \in Nat /\ j \in Nat
      <4>1. todo \in Seq(Places)
        BY <1>3, <2>3 DEF ScanReq, ReadIn
      <4> QED BY <2>3, <3>1, <4>1
    <3>3. ~IsLink(q)
      BY <1>a, <1>3, <3>2 DEF DedupFirst, IsLink, Folder
    <3>4. Real(q) = q
      BY <3>3, NoLink DEF IsLink
    <3>5. q # x
      BY <2>3, <3>1, <3>2 DEF Apart
    <3> QED BY <1>a, <1>3, <3>4, <3>5
  <2>5. InLine(req'[t], x) <=>
             /\ \A q \in Places : Ahead(q, x, todo) => Real(q)' # x
             /\ (Among(x, todo) \/ Among(x[1], Tail(req[t].roots))) =>
                  \A a \in req[t].projects : a.dir # x
             /\ x[2] \in Proper => \A u \in req[t].unsupported : u.name = x => u.why = "unreadable"
    BY <2>3
  <2> QED BY <2>1, <2>2, <2>3, <2>4, <2>5
<1>4. ASSUME UNCHANGED <<entry, up>>, req[t] \in ScanReq, req[t].todo # <<>>,
             NEW v \in {Verdict(Head(req[t].todo), SeenBy(req[t])), "unreadable"},
             Looked(req[t], v, req'[t])
      PROVE InLine(req'[t], x)
  <2>0. PICK p : p = Head(req[t].todo)
    OBVIOUS
  <2>1. InLine(req[t], x)
    BY <1>a, <1>4 DEF Looked
  <2>2. /\ 1 \in DOMAIN req[t].todo /\ req[t].todo[1] = p
        /\ \A q : Ahead(q, x, Tail(req[t].todo)) => Ahead(q, x, req[t].todo)
        /\ Among(x, Tail(req[t].todo)) => Ahead(p, x, req[t].todo)
        /\ \A y : Among(y, req[t].todo) <=> y = p \/ Among(y, Tail(req[t].todo))
    <3>1. PICK s \in Seq(Places) : s = req[t].todo /\ s # <<>> /\ p = Head(s)
      BY <1>4, <2>0 DEF ScanReq
    <3>2. /\ 1 \in DOMAIN s /\ s[1] = p
          /\ \A y : Among(y, s) <=> y = p \/ Among(y, Tail(s))
      BY <3>1, HeadAndTail
    <3>3. /\ \A q : Ahead(q, x, Tail(s)) => Ahead(q, x, s)
          /\ Among(x, Tail(s)) => Ahead(p, x, s)
      BY <3>1, Shorter
    <3> QED BY <3>1, <3>2, <3>3
  <2>3. /\ req'[t].todo = Tail(req[t].todo) /\ req'[t].roots = req[t].roots /\ p \in Places
        /\ \A a \in req'[t].projects : a \in req[t].projects \/ (v = "project" /\ a.dir = Real(p))
        /\ \A u \in req'[t].unsupported :
             \/ u \in req[t].unsupported
             \/ v \notin {"project", "skipped"} /\ u.name = p /\ u.why = v
    BY <1>4, <2>0 DEF Looked
  <2>4. \A q \in Places : Ahead(q, x, Tail(req[t].todo)) => Real(q)' # x
    BY <2>1, <2>2
  <2>5. ASSUME Among(x, Tail(req[t].todo)) \/ Among(x[1], req[t].roots), v = "project"
        PROVE  Real(p) # x
    <3>1. CASE Among(x, Tail(req[t].todo))
      BY <1>a, <1>4, <2>1, <2>2, <2>3, <3>1
    <3>2. CASE Among(x[1], req[t].roots)
      <4>1. Real(p)[1] = p[1]
        BY <2>0, <2>5, VerdictIs DEF InsideRoot
      <4>2. ~Among(p[1], req[t].roots)
        BY <1>4, <2>2, <2>3 DEF OnceOnly
      <4> QED BY <3>2, <4>1, <4>2
    <3> QED BY <2>5, <3>1, <3>2
  <2>6. ASSUME x[2] \in Proper, v \notin {"project", "skipped"}, p = x
        PROVE  v = "unreadable"
    <3>1. Real(p) = x /\ IsDir(p) /\ InsideRoot(p)
      BY <1>a, <1>4, <2>6, FoldersAssumption DEF IsDir, InsideRoot, Folder
    <3>2. Real(p) \notin SeenBy(req[t])
      BY <2>1, <2>2, <2>6, <3>1 DEF SeenBy
    <3> QED BY <2>0, <2>6, <3>1, <3>2 DEF Verdict
  <2> QED BY <2>1, <2>2, <2>3, <2>4, <2>5, <2>6
<1>5. ASSUME req[t] \in ScanReq, NEW ps \in SUBSET Places, MovedUnder(req[t], ps, req'[t])
      PROVE InLine(req'[t], x)
  <2>1. /\ req'[t].todo = req[t].todo /\ req'[t].roots = req[t].roots
        /\ req'[t].projects = req[t].projects /\ req'[t].unsupported = req[t].unsupported
        /\ req'[t].disturbed = req[t].disturbed \cup ps
    BY <1>5 DEF MovedUnder, ScanReq
  <2>2. At(x) = Folder /\ x \in Steady(req[t]) /\ FirstInLine(req[t]) /\ Moves(ps)
    BY <1>5, <2>1 DEF Steady, MovedUnder, Moves, Ends
  <2>3. ASSUME NEW y \in Places, Ahead(y, x, req[t].todo) PROVE Real(y)' # x
    <3>1. y \in Ends /\ req[t].todo # <<>>
      BY <2>3 DEF Ends, Ahead
    <3>2. Scanning(t)
      BY <1>5, <3>1 DEF OnceOnly, Scanning
    <3>3. NoNewAlias
      BY <1>5, <3>2 DEF MovedUnder
    <3>4. Real(y) # x
      BY <2>2, <2>3 DEF FirstInLine
    <3> QED BY <2>2, <1>5, <2>1, <3>1, <3>3, <3>4, NoNewRoute DEF Steady
  <2>4. x[2] \in Proper => \A u \in req[t].unsupported : u.name = x => u.why = "unreadable"
    BY <2>2 DEF FirstInLine
  <2>5. (Among(x, req[t].todo) \/ Among(x[1], req[t].roots)) => \A a \in req[t].projects : a.dir # x
    BY <2>2 DEF FirstInLine
  <2> QED BY <2>1, <2>3, <2>4, <2>5
<1> QED BY <1>1, <1>2, <1>3, <1>4, <1>5, ScanFrom

\* RowInv is inductive.
LEMMA RowStep ==
  ASSUME AliasMidScan = FALSE
  PROVE  TypeOK /\ TypeOK' /\ ScanInv /\ RowInv /\ [Next]_vars => RowInv'
<1> SUFFICES ASSUME TypeOK, TypeOK', ScanInv, RowInv, [Next]_vars PROVE RowInv'
  OBVIOUS
<1>1. ASSUME NEW t \in Threads, req'[t] \in ScanReq PROVE FirstInLine(req[t])'
  BY <1>1, InLineStep DEF ScanInv, RowInv
<1> QED BY <1>1, FoldersStay DEF RowInv

\* There are no agents and no scans at first.
LEMMA InitRow == Init => RowInv
BY DEF Init, RowInv, Idle, ScanReq, HeldReq

\* A link that somebody adds beside a running project never takes its row
\* away: a scan that ends lists an agent started under its folder's own name,
\* unless the folder changed under it or could not be read.  With
\* AliasMidScan = FALSE: a link that appears behind the sorting is the
\* counterexample the constant stands for (_dedup_order, #11).
THEOREM RowsAreKept ==
  ASSUME AliasMidScan = FALSE
  PROVE  Spec => []RunningKeepsItsRow
<1>1. TypeOK /\ ScanInv /\ RowInv => RunningKeepsItsRow
  <2> SUFFICES ASSUME TypeOK, ScanInv, RowInv, NEW t \in Threads, req[t].at = "listed",
                      NEW a \in agents, a.name = a.dir, a.name[1] \in ToScanSet(req[t].op),
                      Settled(t, a.name)
               PROVE  Listed(t, a.name)
    BY DEF RunningKeepsItsRow
  <2>1. req[t] \in ScanReq /\ a.name \in Places
    BY Kinds DEF TypeOK
  <2>2. OnceOnly(req[t]) /\ Accounted(req[t]) /\ FirstInLine(req[t])
    BY <2>1 DEF ScanInv, RowInv
  <2>3. At(a.name) = Folder /\ a.name[2] \in Proper /\ a.name[2] \notin Dotted
    BY FoldersAssumption DEF RowInv, OwnFolder
  <2>4. a.name \notin req[t].disturbed
    BY WalkIs DEF Settled
  <2>5. ~Among(a.name, req[t].todo) /\ ~Among(a.name[1], req[t].roots)
    BY <2>1, <2>2 DEF OnceOnly, Among
  <2>6. Named(req[t], a.name) \/ Reported(req[t], a.name)
    BY <2>1, <2>2, <2>3, <2>4, <2>5 DEF Accounted, Folder
  <2>7. ~Reported(req[t], a.name)
    BY <2>1, <2>2, <2>3, <2>4 DEF FirstInLine, Steady, Settled, Reported
  <2> QED BY <2>6, <2>7 DEF Listed, Named
<1> QED BY <1>1, InitScan, InitRow, ScanStep, RowStep, TypeCorrect, PTL DEF Spec

-----------------------------------------------------------------------------
(* With UnlistedTargets = FALSE too, an agent's name is its directory's.   *)

\* A link to another folder of its root.
Second(p) == IsLink(p) /\ IsDir(p) /\ InsideRoot(p)

\* A second name comes behind the folder it leads to.
Behind(r, p) ==
    \/ \E a \in r.projects : a.dir = Real(p)
    \/ \E u \in r.unsupported : u.why = "unreadable" /\ u.dir = Real(p)
    \/ Among(p, r.todo) => Ahead(Real(p), p, r.todo)

\* What a scan for a start knows of the name it was asked for.
Asked(r) ==
    r.op = "start" =>
        /\ Named(r, r.asked) => At(r.asked) = Folder
        /\ (r.at \in {"root", "entries"} /\ Second(r.asked)) => Behind(r, r.asked)

NameInv ==
    /\ \A a \in agents : a.name = a.dir
    /\ \A t \in Threads : req[t] \in HeldReq => req[t].asked = req[t].dir
    /\ \A t \in Threads : req[t] \in ScanReq => Asked(req[t])

\* LastLink, for every place at once.
LEMMA LastLinkAll == TypeOK => \A p \in Ends :
                       Real(p) # p => \E y \in Chain(p) : At(y) = LinkTo(Real(p)) /\ y \in Ends
BY LastLink

\* And in the next state.
LEMMA LastLinkNext == (TypeOK => \A p \in Ends :
                         Real(p) # p => \E y \in Chain(p) : At(y) = LinkTo(Real(p)) /\ y \in Ends)'
BY LastLinkAll, PTL

\* Without a new alias, a link to a folder has been one before.
LEMMA NoNewSecond ==
  ASSUME TypeOK, TypeOK', NEW ps, Moves(ps), NoNewAlias, NEW p \in Places, Second(p)'
  PROVE  Second(p) /\ Real(p)' = Real(p)
<1>0. PICK x : x = Real(p)'
  OBVIOUS
<1>1. x \in Places /\ x[1] = p[1] /\ At(x)' = Folder /\ x # p
  <2>1. x \in Ends /\ x # Outside /\ x[1] = p[1]
    BY <1>0, ChainsStayNext, WalkIsNext DEF Second, InsideRoot, Ends
  <2>2. At(Real(p))'.kind = "dir" /\ At(p)'.kind = "link"
    BY DEF Second, IsDir, IsLink
  <2>3. At(x)' \in Makeable /\ At(x)' = At(Real(p))'
    BY <1>0, <2>1 DEF At, TypeOK, Ends, Makeable
  <2>4. At(x)' = Folder
    BY <2>2, <2>3 DEF Makeable, Nothing, File, Folder, LinkTo
  <2> QED BY <2>1, <2>2, <2>3, <2>4 DEF Ends
<1>2. PICK y \in Ends : At(y)' = LinkTo(x)
  BY <1>0, <1>1, LastLinkNext DEF Ends
<1>3. y \in Places /\ y[1] \in up' /\ entry'[y] = LinkTo(x) /\ y # x
  BY <1>1, <1>2, AtAllNext DEF LinkTo, Folder
<1>4. x[1] \in up' /\ entry'[x] = Folder
  BY <1>1, FoldersAssumption DEF At, Folder, Nothing
<1>5. <<y, x>> \in Aliases(entry')
  BY <1>1, <1>3, <1>4 DEF Aliases, Folder, Nothing
<1>6. entry[x] # Nothing
  BY <1>5 DEF NoNewAlias, Aliases
<1>7. entry[x] = Folder /\ x[1] \in up
  BY <1>1, <1>4, <1>6 DEF NoNewAlias, Folder, Nothing
<1>8. At(x) = Folder
  BY <1>1, <1>7, FoldersAssumption DEF At
<1>9. Real(p) = x
  BY <1>0, <1>1, <1>8, NoNewRoute DEF Ends
<1>10. IsLink(p) /\ IsDir(p) /\ InsideRoot(p)
  BY <1>1, <1>8, <1>9, NoLink, FoldersAssumption DEF IsLink, IsDir, InsideRoot, Folder
<1> QED BY <1>0, <1>9, <1>10 DEF Second

\* No step lets a start's name through that is a second one.
LEMMA AskedStep ==
  ASSUME TypeOK, TypeOK', AliasMidScan = FALSE, UnlistedTargets = FALSE, [Next]_vars,
         NEW t \in Threads, req'[t] \in ScanReq,
         req[t] \in ScanReq => OnceOnly(req[t]) /\ Asked(req[t])
  PROVE  Asked(req[t])'
<1> SUFFICES ASSUME NEW p \in Places, req'[t].op = "start", req'[t].asked = p
             PROVE  /\ Named(req'[t], p) => At(p)' = Folder
                    /\ (req'[t].at \in {"root", "entries"} /\ Second(p)') => Behind(req[t], p)'
  BY DEF Asked, Named, Behind, Among, Ahead, ScanReq
<1> DEFINE AskedIs(r) == /\ Named(r, p) => At(p) = Folder
                         /\ (r.at \in {"root", "entries"} /\ Second(p)) => Behind(r, p)
           Now(r) == /\ Named(r, p) => At(p)' = Folder
                     /\ (r.at \in {"root", "entries"} /\ Second(p)') =>
                          \/ \E a \in r.projects : a.dir = Real(p)'
                          \/ \E u \in r.unsupported : u.why = "unreadable" /\ u.dir = Real(p)'
                          \/ Among(p, r.todo) => Ahead(Real(p)', p, r.todo)
<1> SUFFICES Now(req'[t])
  BY DEF Behind, Among, Ahead, Named
<1>a. ASSUME UNCHANGED <<entry, up>>, NEW r, AskedIs(r) PROVE Now(r)
  BY <1>a, SameTree DEF Second, IsLink, IsDir, InsideRoot, Behind
<1>b. ASSUME req[t] \in ScanReq, req[t].op = "start", req[t].asked = p PROVE AskedIs(req[t])
  BY <1>b DEF Asked
<1>1. CASE UNCHANGED <<entry, up>> /\ req[t] \in ScanReq /\ req'[t] = req[t]
  <2>1. PICK r : r = req'[t]
    OBVIOUS
  <2>2. AskedIs(r)
    BY <1>1, <1>b, <2>1
  <2>3. Now(r)
    BY <1>a, <1>1, <2>2
  <2> QED BY <2>1, <2>3
<1>2. ASSUME NEW op \in {"start", "list"}, NEW q \in Places, req'[t] \in Scans(op, q)
      PROVE Now(req'[t])
  BY <1>2, ScanAsked DEF Named, Among
<1>3. ASSUME UNCHANGED <<entry, up>>, req[t] \in ScanReq, req[t].at = "root",
             req[t].roots # <<>>, NEW todo, ReadIn(req[t], todo, req'[t])
      PROVE Now(req'[t])
  <2>1. PICK r : r = req'[t]
    OBVIOUS
  <2>2. AskedIs(req[t]) /\ r.projects = req[t].projects /\ r.unsupported = req[t].unsupported
    BY <1>3, <1>b, <2>1 DEF ReadIn
  <2>3. /\ r.todo = todo /\ Apart(todo) /\ todo \in Seq(Places)
        /\ \A q \in Places : Among(q, todo) <=> q[1] = Head(req[t].roots) /\ At(q) # Nothing
        /\ \A i, j \in DOMAIN todo : i < j => DedupFirst(todo[i], todo[j])
    BY <1>3, <2>1 DEF ReadIn, ScanReq
  <2>4. ASSUME Second(p), Among(p, todo) PROVE Ahead(Real(p), p, todo)
    <3>1. Real(p) \in Places /\ Real(p)[1] = p[1]
      BY <2>4, WalkStays DEF Second, InsideRoot, Ends
    <3>2. At(p).kind = "link" /\ At(Real(p)).kind = "dir"
      BY <2>4 DEF Second, IsLink, IsDir
    <3>3. Among(Real(p), todo)
      BY <2>3, <2>4, <3>1, <3>2 DEF Nothing
    <3>4. PICK j \in DOMAIN todo : todo[j] = p
      BY <2>4 DEF Among
    <3>5. PICK i \in DOMAIN todo : todo[i] = Real(p)
      BY <3>3 DEF Among
    <3>6. i # j /\ i \in Nat /\ j \in Nat
      BY <2>3, <3>2, <3>4, <3>5
    <3>7. ~DedupFirst(p, Real(p))
      BY <3>2 DEF DedupFirst, IsLink
    <3>8. i < j
      BY <2>3, <3>4, <3>5, <3>6, <3>7
    <3> QED BY <3>4, <3>5, <3>8 DEF Ahead
  <2>5. AskedIs(r)
    BY <2>2, <2>3, <2>4 DEF Named, Behind
  <2>6. Now(r)
    BY <1>a, <1>3, <2>5
  <2> QED BY <2>1, <2>6
<1>4. ASSUME UNCHANGED <<entry, up>>, req[t] \in ScanReq, req[t].at = "entries", req[t].todo # <<>>,
             NEW v \in {Verdict(Head(req[t].todo), SeenBy(req[t])), "unreadable"},
             Looked(req[t], v, req'[t]), v = "unreadable" \/ Readable(t, Head(req[t].todo))
      PROVE Now(req'[t])
  <2>0. PICK r, q, h : r = req'[t] /\ q = req[t] /\ h = Head(q.todo)
    OBVIOUS
  <2>1. AskedIs(q) /\ q.todo \in Seq(Places) /\ q.todo # <<>> /\ q.at = "entries"
    BY <1>4, <1>b, <2>0 DEF Looked, ScanReq
  <2>2. /\ r.todo = Tail(q.todo)
        /\ r.projects = IF v = "project" THEN q.projects \cup {[name |-> h, dir |-> Real(h)]}
                        ELSE q.projects
        /\ r.unsupported = IF v \in {"project", "skipped"} \/ h[2] \in Dotted THEN q.unsupported
                           ELSE q.unsupported \cup {[name |-> h, why |-> v, dir |-> Real(h)]}
    BY <1>4, <2>0 DEF Looked
  <2>3. Second(p) => Behind(q, p)
    BY <2>1
  <2>4. ASSUME v = "project", h = p PROVE At(p) = Folder
    <3>1. IsDir(p) /\ InsideRoot(p) /\ Real(p) \notin SeenBy(q)
      BY <2>0, <2>4, VerdictIs
    <3>2. \A u \in q.unsupported : u.why = "unreadable" => u.dir # Real(p)
      BY <1>4, <2>0, <2>4 DEF Readable
    <3>3. ~Ahead(Real(p), p, q.todo)
      <4>1. ASSUME Ahead(Real(p), p, q.todo) PROVE FALSE
        <5>1. PICK i \in DOMAIN q.todo, j \in DOMAIN q.todo : i < j /\ q.todo[j] = p
          BY <4>1 DEF Ahead
        <5>2. Apart(q.todo) /\ q.todo[1] = p /\ 1 \in DOMAIN q.todo /\ DOMAIN q.todo \subseteq Nat \ {0}
          BY <1>4, <2>0, <2>1, <2>4, HeadAndTail DEF OnceOnly
        <5>3. j = 1 /\ i \in Nat /\ i > 0
          BY <5>1, <5>2 DEF Apart
        <5> QED BY <5>1, <5>3
      <4> QED BY <4>1
    <3>4. Among(p, q.todo)
      BY <2>0, <2>1, <2>4, HeadAndTail
    <3>5. ~Second(p)
      BY <2>3, <3>1, <3>2, <3>3, <3>4 DEF Behind, SeenBy
    <3>6. At(p).kind # "link" /\ Real(p) = p
      BY <3>1, <3>5, NoLink DEF Second, IsLink
    <3> QED BY <3>1, <3>6, AtIs DEF IsDir, Ends
  <2>5. Named(r, p) => At(p) = Folder
    <3>1. Named(r, p) <=> Named(q, p) \/ (v = "project" /\ p = h)
      BY <1>4, <2>0, LookCounts
    <3> QED BY <2>1, <2>4, <3>1
  <2>6. ASSUME Second(p) PROVE Behind(r, p)
    <3>1. CASE \E a \in q.projects : a.dir = Real(p)
      BY <2>2, <3>1 DEF Behind
    <3>2. CASE \E u \in q.unsupported : u.why = "unreadable" /\ u.dir = Real(p)
      BY <2>2, <3>2 DEF Behind
    <3>3. CASE ~Among(p, q.todo)
      BY <2>1, <2>2, <3>3, HeadAndTail DEF Behind
    <3>4. CASE Ahead(Real(p), p, q.todo) /\ h = Real(p)
      <4>1. h \in Places /\ At(h).kind = "dir" /\ Real(h) = h
        BY <2>6, <3>4, WalkStays, NoLink DEF Second, IsDir, InsideRoot, Ends
      <4>2. h[2] \in Proper /\ h[2] \notin Dotted
        <5>1. h # p
          BY <2>6, <4>1 DEF Second, IsLink
        <5>2. PICK y \in Ends : At(y) = LinkTo(h)
          BY <3>4, <5>1, LastLink DEF Ends
        <5>3. h = Outside \/ h[2] \in Proper
          BY <5>2, AtIs DEF LinkTo
        <5> QED BY <4>1, <5>3, FoldersAssumption
      <4>3. IsDir(h) /\ InsideRoot(h)
        BY <4>1, FoldersAssumption DEF IsDir, InsideRoot
      <4>4. v \in {"project", "alias", "unreadable"} /\ (v = "alias" => Real(h) \in SeenBy(q))
        BY <2>0, <4>2, <4>3 DEF Verdict
      <4>5. CASE v = "project"
        <5>1. [name |-> h, dir |-> Real(h)] \in r.projects
          BY <2>2, <4>5
        <5>2. \E a \in r.projects : a.dir = Real(h)
          BY <5>1
        <5> QED BY <3>4, <4>1, <5>2 DEF Behind
      <4>6. CASE v = "alias"
        BY <2>2, <3>4, <4>1, <4>4, <4>6 DEF Behind, SeenBy
      <4>7. CASE v = "unreadable"
        <5>1. [name |-> h, why |-> v, dir |-> Real(h)] \in r.unsupported
          BY <2>2, <4>2, <4>7
        <5>2. \E u \in r.unsupported : u.why = "unreadable" /\ u.dir = Real(h)
          BY <4>7, <5>1
        <5> QED BY <3>4, <4>1, <5>2 DEF Behind
      <4> QED BY <4>4, <4>5, <4>6, <4>7
    <3>5. CASE Ahead(Real(p), p, q.todo) /\ h # Real(p)
      <4>1. Ahead(Real(p), p, Tail(q.todo))
        BY <2>0, <2>1, <3>5, Shorter
      <4> QED BY <2>2, <4>1 DEF Behind
    <3> QED BY <2>3, <2>6, <3>1, <3>2, <3>3, <3>4, <3>5 DEF Behind
  <2>7. Now(r)
    BY <1>a, <1>4, <2>5, <2>6
  <2> QED BY <2>0, <2>7
<1>5. ASSUME req[t] \in ScanReq, NEW ps \in SUBSET Places, MovedUnder(req[t], ps, req'[t])
      PROVE Now(req'[t])
  <2>1. /\ req'[t].todo = req[t].todo /\ req'[t].at = req[t].at
        /\ req'[t].projects = req[t].projects /\ req'[t].unsupported = req[t].unsupported
        /\ req'[t].op = req[t].op /\ req'[t].asked = req[t].asked
    BY <1>5 DEF MovedUnder, ScanReq
  <2>2. AskedIs(req[t])
    BY <1>5, <1>b, <2>1
  <2>3. ASSUME Named(req[t], p) PROVE At(p)' = Folder
    <3>1. At(p) = Folder /\ At(p) # Nothing /\ p \in Ends
      BY <2>2, <2>3 DEF Folder, Nothing, Ends
    <3>2. p \in InUse
      BY <1>5, <2>1, StartUses DEF ScanReq
    <3> QED BY <3>1, <3>2, KeptInUse
  <2>4. ASSUME req[t].at \in {"root", "entries"}, Second(p)'
        PROVE  Behind(req[t], p) /\ Real(p)' = Real(p)
    <3>1. NoNewAlias /\ Moves(ps)
      BY <1>5, <2>4 DEF MovedUnder, Scanning
    <3>2. Second(p) /\ Real(p)' = Real(p)
      BY <2>4, <3>1, NoNewSecond
    <3> QED BY <2>2, <2>4, <3>2
  <2> QED BY <2>1, <2>3, <2>4 DEF Behind, Named
<1> HIDE DEF Now
<1> QED BY <1>1, <1>2, <1>3, <1>4, <1>5, ScanFrom

\* NameInv is inductive.
LEMMA NameStays ==
  ASSUME AliasMidScan = FALSE, UnlistedTargets = FALSE
  PROVE  TypeOK /\ TypeOK' /\ ScanInv /\ NameInv /\ [Next]_vars => NameInv'
<1> SUFFICES ASSUME TypeOK, TypeOK', ScanInv, NameInv, [Next]_vars PROVE NameInv'
  OBVIOUS
<1>1. ASSUME NEW t \in Threads, req'[t] \in ScanReq PROVE Asked(req[t])'
  BY <1>1, AskedStep DEF ScanInv, NameInv
<1>2. ASSUME NEW t \in Threads, req'[t] \in HeldReq PROVE req'[t].asked = req'[t].dir
  <2>1. CASE req[t] \in HeldReq /\ req'[t].asked = req[t].asked /\ req'[t].dir = req[t].dir
    BY <2>1 DEF NameInv
  <2>2. CASE /\ req'[t].asked = req[t].asked /\ req'[t].dir = Real(req[t].asked)
             /\ req[t].asked \in Places /\ req[t] \in ScanReq /\ req[t].op = "start"
             /\ Listed(t, req[t].asked)
    <3>1. At(req[t].asked) = Folder
      BY <2>2 DEF NameInv, Asked, Listed, Named
    <3>2. Real(req[t].asked) = req[t].asked
      BY <3>1, NoLink DEF Folder
    <3> QED BY <2>2, <3>2
  <2> QED BY <1>2, <2>1, <2>2, HeldFrom
<1>3. ASSUME NEW a \in agents' PROVE a.name = a.dir
  BY <1>3, AgentFrom DEF NameInv
<1> QED BY <1>1, <1>2, <1>3 DEF NameInv

\* There are no agents and no starts at first.
LEMMA InitNames == Init => NameInv
BY DEF Init, NameInv, Idle, ScanReq, HeldReq

\* Two agents never work in one directory, whatever names and links lead to it
\* and whenever they appeared.  With the two assumptions the constants make:
\* no name newly leads to something while a scan reads, and no link leads to a
\* folder whose own name is not listed; each has a counterexample without it
\* (Engine._require_startable, #11).
THEOREM OneAgentEach ==
  ASSUME AliasMidScan = FALSE, UnlistedTargets = FALSE
  PROVE  Spec => []OneAgentPerDirectory
<1>1. TypeOK /\ NameInv => OneAgentPerDirectory
  BY DEF TypeOK, NameInv, OneAgentPerDirectory
<1> QED BY <1>1, InitScan, InitNames, ScanStep, NameStays, TypeCorrect, PTL DEF Spec
====
