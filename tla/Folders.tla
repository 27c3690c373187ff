------------------------------- MODULE Folders -------------------------------
(***************************************************************************)
(* Discovery: which folders under the configured roots are projects, and   *)
(* the three requests that ask: the listing, a start and a create.         *)
(* (discovery.py, the perimeter of roots.py, and the part of Engine.start  *)
(* that turns a name into a directory.)                                    *)
(*                                                                         *)
(* Hitchrail owns none of this state: people, editors and checkouts change *)
(* the tree while a request is reading it.  A scan reads the names of a    *)
(* root once, sorts them, and then looks at them one by one; every look is *)
(* a step here and the tree may change between any two.                    *)
(*                                                                         *)
(* A place is a root and a name in it.  What is at a place is nothing, a   *)
(* file, a directory, or a symbolic link to another place or to somewhere  *)
(* outside every root (a nested directory counts as outside: only a direct *)
(* child of a root is accepted).  A link to a place with nothing at it     *)
(* dangles, and a chain of links may run in a circle.                      *)
(*                                                                         *)
(* StartOnce models what a start does once it has its directory; here that *)
(* is a look at the sessions of the name and one step that starts.         *)
(***************************************************************************)
EXTENDS Naturals, FiniteSets, Sequences, SequencesExt

CONSTANTS
    Roots,          \* the labels of the configured roots
    RootOrder,      \* the same, as a sequence: the operator's order
    PathOf,         \* the resolved path of each, as its names from / on
    Disabled,       \* the roots the operator's file disables
    Hidden,         \* the roots the interface hides today
    Names,          \* what a folder can be called, in sorting order
    Proper,         \* the names `explain_name` accepts
    Dotted,         \* the names that begin with a dot
    Places,         \* <<root, name>>: the places the model looks at
    Outside,        \* a directory outside every root
    FoundTrees,     \* what may be on disk when the server starts
    Threads,        \* worker threads serving requests
    MaxRequests,
    MaxChanges,     \* changes of the tree, and looks that fail
    UnlistedTargets,  \* links to a folder whose own name is not listed (#32)
    AliasMidScan      \* a second name appears while a scan is reading

\* _contains, by whole names: /dev is not above /dev-evil.
ContainsRoot(outer, inner) == IsPrefix(PathOf[outer], PathOf[inner])

\* check_roots, before anything is served: no root is another one or lies
\* inside it, so a folder has one root and one identifier.
RootsAccepted ==
    Roots # {} /\ \A r, s \in Roots : r # s => ~ContainsRoot(r, s)

Nothing == [kind |-> "nothing"]
File    == [kind |-> "file"]
Folder  == [kind |-> "dir"]
LinkTo(q) == [kind |-> "link", to |-> q]

\* What anybody makes at a place.  The assumption UnlistedTargets = FALSE
\* makes: no link to a folder whose own name is not listed, for then every
\* name it has is a link (#32).
Makeable ==
    {Nothing, File, Folder, LinkTo(Outside)}
    \cup {LinkTo(q) : q \in {p \in Places : UnlistedTargets \/ p[2] \in Proper}}

\* Names are numbers only for their order.
ASSUME FoldersAssumption ==
    /\ RootsAccepted
    /\ IsFiniteSet(Roots) /\ RootOrder \in SetToSeqs(Roots)
    /\ Places # {} /\ Places \subseteq Roots \X Names /\ IsFiniteSet(Places)
    /\ Names \subseteq Nat
    /\ Proper \subseteq Names
    /\ Dotted \subseteq Names \ Proper
    /\ Outside \notin Places
    /\ FoundTrees \subseteq [Places -> Makeable]
    /\ {UnlistedTargets, AliasMidScan} \subseteq BOOLEAN

VARIABLES
    entry,      \* what is at each place
    up,         \* the roots that can be read
    agents,     \* the running agents: the name asked for, and the directory
    starting,   \* Engine._starting: the directories a start is under way in
    req,        \* what each thread is doing
    served,     \* requests taken (bounded)
    changes     \* changes of the tree and looks that failed (bounded)

vars == <<entry, up, agents, starting, req, served, changes>>

-----------------------------------------------------------------------------
(* What the filesystem answers.                                            *)

\* A root that has gone away has nothing in it.
At(p) == IF p = Outside THEN Folder
         ELSE IF p[1] \in up THEN entry[p] ELSE Nothing

\* Path.resolve: follow links to the end.  More hops than there are places
\* is a circle.
Hops(p) ==
    LET hop[n \in 0..Cardinality(Places)] ==
          IF n = 0 THEN p
          ELSE LET q == hop[n - 1] IN IF At(q).kind = "link" THEN At(q).to ELSE q
    IN hop

Real(p) == Hops(p)[Cardinality(Places)]

Chain(p) == {Hops(p)[n] : n \in DOMAIN Hops(p)}

Loops(p) == At(Real(p)).kind = "link"
IsDir(p) == At(Real(p)).kind = "dir"
IsLink(p) == At(p).kind = "link"

\* resolve_child, the second check: the resolved parent is the root itself.
InsideRoot(p) == Real(p) # Outside /\ Real(p)[1] = p[1]

(* A mutant: the order of the names alone (#11). *)
DedupFirst_NameOnly(p, q) == p[2] < q[2]

\* _dedup_order: real directories before links, then by name.
DedupFirst(p, q) ==
    \/ ~IsLink(p) /\ IsLink(q)
    \/ IsLink(p) = IsLink(q) /\ p[2] < q[2]

\* Preferences.active_roots: enabled by the operator and not hidden.
ActiveRoots == Roots \ (Disabled \cup Hidden)

-----------------------------------------------------------------------------
(* Requests.                                                               *)

Idle == [op |-> "none", at |-> "idle", answer |-> "none"]

\* The listing shows the active roots, a start accepts a name from any
\* configured one; both in the operator's order.
ToScanSet(op) == IF op = "start" THEN Roots ELSE ActiveRoots

\* The members of S, each once, in the order `before` puts them.
InOrder(S, before(_, _)) ==
    {s \in SetToSeqs(S) : \A i, j \in DOMAIN s : i < j => before(s[i], s[j])}

ConfiguredFirst(r, s) ==
    \E i, j \in DOMAIN RootOrder : i < j /\ RootOrder[i] = r /\ RootOrder[j] = s

Scan(op, p, roots) ==
    [op |-> op, at |-> IF roots = <<>> THEN "listed" ELSE "root", asked |-> p,
     roots |-> roots, todo |-> <<>>, projects |-> {}, unsupported |-> {}, disturbed |-> {}]

Scans(op, p) == {Scan(op, p, roots) : roots \in InOrder(ToScanSet(op), ConfiguredFirst)}

Scanning(t) == req[t].at \in {"root", "entries"}

\* What a finished request leaves: its answer.
Over(t, answer) == [req EXCEPT ![t] = [op |-> req[t].op, at |-> "idle", answer |-> answer]]

Ask(t) ==
    /\ req[t].at = "idle" /\ served < MaxRequests
    /\ served' = served + 1
    /\ \/ \E p \in Places : \E r \in Scans("start", p) : req' = [req EXCEPT ![t] = r]
       \/ \E r \in Scans("list", CHOOSE p \in Places : TRUE) : req' = [req EXCEPT ![t] = r]
       \/ \E p \in Places :
            req' = [req EXCEPT ![t] = [op |-> "create", at |-> "create", asked |-> p]]
    /\ UNCHANGED <<entry, up, agents, starting, changes>>

-----------------------------------------------------------------------------
(* scan, scan_roots.                                                       *)

\* The next entry, the next root, or the end.
Along(r) ==
    [r EXCEPT !.at = IF r.todo # <<>> THEN "entries"
                     ELSE IF r.roots # <<>> THEN "root" ELSE "listed"]

\* The names in a root, sorted; is_symlink is asked while sorting.  They are
\* distinct, so there is one such sequence.
Readings(root) == InOrder({p \in Places : p[1] = root /\ At(p) # Nothing}, DedupFirst)

\* The names of the next root, read once.
ReadRoot(t) ==
    /\ req[t].at = "root" /\ req[t].roots # <<>>
    /\ LET r == Head(req[t].roots)
       IN  \/ /\ r \in up
              /\ \E todo \in Readings(r) :
                   req' = [req EXCEPT ![t] =
                             Along([req[t] EXCEPT !.roots = Tail(@), !.todo = todo])]
           \/ r \notin up /\ req' = Over(t, "root_unavailable")
    /\ UNCHANGED <<entry, up, agents, starting, served, changes>>

(* A mutant: a second name for a directory is dropped in silence. *)
Verdict_AliasDropped(p, seen) ==
    IF ~IsDir(p) THEN IF IsLink(p) THEN "broken" ELSE "skipped"
    ELSE IF p[2] \notin Proper THEN "name"
    ELSE IF ~InsideRoot(p) THEN "outside"
    ELSE IF Real(p) \in seen THEN "skipped"
    ELSE "project"

\* What one look makes of an entry: nothing, a project, or the rule it broke.
\* `seen` is the resolved directory of every project accepted in this scan.
Verdict(p, seen) ==
    IF ~IsDir(p) THEN IF IsLink(p) THEN "broken" ELSE "skipped"
    ELSE IF p[2] \notin Proper THEN "name"
    ELSE IF ~InsideRoot(p) THEN "outside"
    ELSE IF Real(p) \in seen THEN "alias"
    ELSE "project"

\* A project goes on the list; anything else is reported with its reason,
\* except a plain file and what begins with a dot.
Noted(r, p, verdict) ==
    LET rest == [r EXCEPT !.todo = Tail(@)]
    IN  IF verdict = "project"
        THEN [rest EXCEPT !.projects = @ \cup {[name |-> p, dir |-> Real(p)]}]
        ELSE IF verdict = "skipped" \/ p[2] \in Dotted THEN rest
        ELSE [rest EXCEPT !.unsupported = @ \cup 
                               {[name |-> p, why |-> verdict, dir |-> Real(p)]}]

\* A directory that could not be looked at is not readable under a second
\* name a moment later (the same assumption as AliasMidScan).
Readable(t, p) ==
    AliasMidScan \/ \A u \in req[t].unsupported : u.why = "unreadable" => u.dir # Real(p)

LookAtEntry(t) ==
    /\ req[t].at = "entries" /\ req[t].todo # <<>>
    /\ LET p == Head(req[t].todo)
           seen == {q.dir : q \in req[t].projects}
       IN  \/ /\ Readable(t, p)
              /\ req' = [req EXCEPT ![t] = Along(Noted(req[t], p, Verdict(p, seen)))]
              /\ UNCHANGED changes
           \* EACCES or ESTALE: this entry is reported, the scan goes on.
           \/ /\ changes < MaxChanges \/ ~Readable(t, p)
              /\ changes' = IF Readable(t, p) THEN changes + 1 ELSE changes
              /\ req' = [req EXCEPT ![t] = Along(Noted(req[t], p, "unreadable"))]
    /\ UNCHANGED <<entry, up, agents, starting, served>>

AnswerListing(t) ==
    /\ req[t].op = "list" /\ req[t].at = "listed"
    /\ req' = Over(t, "listing")
    /\ UNCHANGED <<entry, up, agents, starting, served, changes>>

-----------------------------------------------------------------------------
(* start: _require_startable, the lock on the directory, the start.        *)

Listed(t, p) == \E q \in req[t].projects : q.name = p

(* A mutant: `enabled = false` narrows the listing only. *)
Startable_AnyRoot(t, p) ==
    IF ~Listed(t, p) \/ p[2] \notin Proper \/ Loops(p) \/ ~InsideRoot(p) \/ ~IsDir(p)
    THEN "unknown_project" ELSE "startable"

(* A mutant: the name is resolved, whether or not it is listed. *)
Startable_Unlisted(t, p) ==
    IF p[1] \in Disabled THEN "operator_disabled"
    ELSE IF p[2] \notin Proper \/ Loops(p) \/ ~InsideRoot(p) \/ ~IsDir(p)
         THEN "unknown_project"
    ELSE "startable"

\* The listing first, then the operator's switch, then the directory, which
\* is resolved anew: the scan's answer may be old by now.
Startable(t, p) ==
    IF ~Listed(t, p) THEN "unknown_project"
    ELSE IF p[1] \in Disabled THEN "operator_disabled"
    ELSE IF p[2] \notin Proper \/ Loops(p) \/ ~InsideRoot(p) \/ ~IsDir(p)
         THEN "unknown_project"
    ELSE "startable"

RequireStartable(t) ==
    /\ req[t].op = "start" /\ req[t].at = "listed"
    /\ LET p == req[t].asked
           verdict == Startable(t, p)
       IN  req' = IF verdict = "startable"
                  THEN [req EXCEPT ![t] = [op |-> "start", at |-> "lock",
                                           asked |-> p, dir |-> Real(p)]]
                  ELSE Over(t, verdict)
    /\ UNCHANGED <<entry, up, agents, starting, served, changes>>

\* The `finally` of start.
Freed(t) == starting \ {req[t].dir}

\* _starting is keyed on the directory, not on the name.
TakeDirectory(t) ==
    /\ req[t].at = "lock"
    /\ IF req[t].dir \in starting
       THEN req' = Over(t, "locked") /\ UNCHANGED starting
       ELSE /\ starting' = starting \cup {req[t].dir}
            /\ req' = [req EXCEPT ![t].at = "look"]
    /\ UNCHANGED <<entry, up, agents, served, changes>>

\* Sessions and stray agents are found by the NAME: the look cannot see an
\* agent that runs in the same directory under another one.
Running(p) == \E a \in agents : a.name = p

LookForAgent(t) ==
    /\ req[t].at = "look"
    /\ IF Running(req[t].asked)
       THEN /\ req' = Over(t, "already_running")
            /\ starting' = Freed(t)
       ELSE req' = [req EXCEPT ![t].at = "spawn"] /\ UNCHANGED starting
    /\ UNCHANGED <<entry, up, agents, served, changes>>

Spawn(t) ==
    /\ req[t].at = "spawn"
    /\ agents' = agents \cup {[name |-> req[t].asked, dir |-> req[t].dir]}
    /\ starting' = Freed(t)
    /\ req' = Over(t, "started")
    /\ UNCHANGED <<entry, up, served, changes>>

-----------------------------------------------------------------------------
(* create_project: validate and resolve, then mkdir on the name itself.    *)

\* A circle makes Path.resolve raise (3.11, 3.12), which the route does not
\* catch, or answer the path unchanged (3.13).
CheckName(t) ==
    /\ req[t].at = "create"
    /\ LET p == req[t].asked
       IN  \/ /\ p[1] \in ActiveRoots /\ p[2] \in Proper
              /\ InsideRoot(p) \/ Loops(p)
              /\ req' = [req EXCEPT ![t].at = "mkdir"]
           \/ /\ p[1] \notin ActiveRoots \/ p[2] \notin Proper
                 \/ (~Loops(p) /\ ~InsideRoot(p))
              /\ req' = Over(t, "invalid_name")
           \/ /\ p[1] \in ActiveRoots /\ p[2] \in Proper /\ Loops(p)
              /\ req' = Over(t, "internal_error")
    /\ UNCHANGED <<entry, up, agents, starting, served, changes>>

(* A mutant: mkdir on the path `resolve_child` answered. *)
MkdirAt_Resolved(p) == Real(p)

\* mkdir refuses when anything has the name, a dangling link included.
MkdirAt(p) == p

Aliases(tree) ==
    {pq \in Places \X Places : pq[1] # pq[2] /\ tree[pq[1]] = LinkTo(pq[2])
                               /\ tree[pq[2]] # Nothing}

\* The assumption AliasMidScan = FALSE makes: while a scan is reading, no
\* name newly points at something, and nothing newly appears where a name
\* already points.
Unaliased(tree) ==
    AliasMidScan \/ (\A t \in Threads : ~Scanning(t))
                 \/ Aliases(tree) \subseteq Aliases(entry)

\* Every scan under way learns that a place changed under it.
Disturb(ps, r) ==
    [t \in Threads |-> IF "disturbed" \in DOMAIN r[t]
                       THEN [r[t] EXCEPT !.disturbed = @ \cup ps] ELSE r[t]]

Mkdir(t) ==
    /\ req[t].at = "mkdir"
    /\ LET p == MkdirAt(req[t].asked)
       IN  \/ /\ p[1] \notin up
              /\ req' = Over(t, "root_unavailable")
              /\ UNCHANGED entry
           \/ /\ p[1] \in up /\ entry[p] # Nothing
              /\ req' = Over(t, "already_exists")
              /\ UNCHANGED entry
           \/ /\ p[1] \in up /\ entry[p] = Nothing
              /\ Unaliased([entry EXCEPT ![p] = Folder])
              /\ entry' = [entry EXCEPT ![p] = Folder]
              /\ req' = Disturb({p}, Over(t, "created"))
    /\ UNCHANGED <<up, agents, starting, served, changes>>

-----------------------------------------------------------------------------
(* The world.                                                              *)

\* The places a start was asked for or found, and those an agent was started
\* as or in: nobody renames or removes a folder under its agent.
InUse ==
    (UNION {{a.name, a.dir} : a \in agents})
    \cup (UNION {IF req[t].at = "idle" \/ req[t].op # "start" THEN {}
                 ELSE {req[t].asked} \cup Chain(req[t].asked) : t \in Threads})

\* Somebody makes or removes an entry; a rename is both.
Change(p, e) ==
    /\ changes < MaxChanges
    /\ p[1] \in up /\ p \notin InUse
    /\ entry[p] # e /\ (entry[p] = Nothing \/ e = Nothing)
    /\ Unaliased([entry EXCEPT ![p] = e])
    /\ entry' = [entry EXCEPT ![p] = e]
    /\ req' = Disturb({p}, req)
    /\ changes' = changes + 1
    /\ UNCHANGED <<up, agents, starting, served>>

\* A drive is unmounted, or comes back as it was.
RootToggles(r) ==
    /\ changes < MaxChanges
    /\ \A p \in InUse : p # Outside => p[1] # r
    /\ up' = IF r \in up THEN up \ {r} ELSE up \cup {r}
    /\ AliasMidScan \/ r \in up \/ \A t \in Threads : ~Scanning(t)
    /\ req' = Disturb({p \in Places : p[1] = r}, req)
    /\ changes' = changes + 1
    /\ UNCHANGED <<entry, agents, starting, served>>

AgentEnds(a) ==
    /\ agents' = agents \ {a}
    /\ UNCHANGED <<entry, up, starting, req, served, changes>>

Init ==
    /\ entry \in FoundTrees
    /\ up = Roots
    /\ agents = {}
    /\ starting = {}
    /\ req = [t \in Threads |-> Idle]
    /\ served = 0 /\ changes = 0

Next ==
    \/ \E t \in Threads :
         \/ Ask(t)
         \/ ReadRoot(t) \/ LookAtEntry(t) \/ AnswerListing(t)
         \/ RequireStartable(t) \/ TakeDirectory(t) \/ LookForAgent(t) \/ Spawn(t)
         \/ CheckName(t) \/ Mkdir(t)
    \/ \E p \in Places, e \in Makeable : Change(p, e)
    \/ \E r \in Roots : RootToggles(r)
    \/ \E a \in agents : AgentEnds(a)

Spec == Init /\ [][Next]_vars

-----------------------------------------------------------------------------
(* Properties.                                                             *)

\* Two agents never work in one directory, whatever names and links lead to
\* it and whenever they appeared (Engine._require_startable, #11).
OneAgentPerDirectory ==
    \A a, b \in agents : a.dir = b.dir => a = b

\* An agent runs in a direct child of the root its name says, and that root
\* is not one the operator's file disables (resolve_child,
\* Engine._require_startable, #154).
AgentsKeepToEnabledRoots ==
    \A a \in agents :
        a.dir \in Places /\ a.dir[1] = a.name[1] /\ a.dir[1] \notin Disabled

\* A place no change has touched since the scan was asked for, nor any
\* place its links lead through.
Settled(t, p) ==
    /\ Chain(p) \cap req[t].disturbed = {}
    /\ \A u \in req[t].unsupported : u.name = p => u.why # "unreadable"

\* A link that somebody adds beside a running project never takes its row
\* away: every scan that ends lists an agent started under its folder's own
\* name, unless the folder changed or could not be read (_dedup_order, #11).
RunningKeepsItsRow ==
    \A t \in Threads : req[t].at = "listed" =>
        \A a \in agents :
            /\ a.name = a.dir
            /\ a.name[1] \in ToScanSet(req[t].op)
            /\ Settled(t, a.name)
            => Listed(t, a.name)

\* A scan accounts for every entry exactly once: a folder is a project or is
\* reported with a reason, an alias is reported only beside the project it is
\* an alias of, no directory is a project twice, and only plain files and
\* hidden names are left out in silence (scan, #7, #11).
EveryEntryIsAccountedFor ==
    \A t \in Threads : req[t].at = "listed" =>
        LET seen == {p \in Places : p[1] \in ToScanSet(req[t].op) /\ Settled(t, p)}
            Reported(p) == \E u \in req[t].unsupported : u.name = p
        IN  /\ \A p \in seen :
                 /\ Listed(t, p) => ~Reported(p)
                 /\ (Listed(t, p) \/ Reported(p))
                      <=> (At(p).kind \in {"dir", "link"} /\ p[2] \notin Dotted)
            /\ \A p, q \in seen :
                 (Listed(t, p) /\ Listed(t, q) /\ Real(p) = Real(q)) => p = q
            /\ \A u \in req[t].unsupported :
                 u.why = "alias" => \E q \in req[t].projects : q.dir = u.dir

\* A create answered `created` made the directory itself, at the name it was
\* asked for and where nothing was; with any other answer it made nothing
\* (create_project: never through a link, never somebody else's folder).
CreateMakesOnlyWhatWasAsked ==
    [][\A t \in Threads :
         (req[t].at = "mkdir" /\ req'[t].at = "idle") =>
            IF req'[t].answer = "created"
            THEN /\ entry[req[t].asked] = Nothing
                 /\ entry' = [entry EXCEPT ![req[t].asked] = Folder]
            ELSE entry' = entry]_vars

=============================================================================
