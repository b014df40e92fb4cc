---------------------------- MODULE ReadThrough ----------------------------
(***************************************************************************)
(* How the backend reads through its cache.  A request looks a view up; on *)
(* a miss it reads the rows of the view, each in a query of its own, and   *)
(* other views through their own cache, and then stores the result with a  *)
(* time to live.  A write deletes or sets keys before or after the commit  *)
(* that makes it visible, depending on whether a signal, the service or    *)
(* nobody takes care of the cache.  Nothing ties the cache to the          *)
(* transactions.  CachedViews lists the views and writes of the program.   *)
(***************************************************************************)
EXTENDS Integers, Sequences, FiniteSets

CONSTANTS
  Rows, Views,
  Direct,      \* the rows each view queries
  Inner,       \* the views each view gets from their own cache
  Broken,      \* views whose computation raises after its queries
  Ttl,         \* time to live of each view
  Lag,         \* how old what a view shows may be
  Calls,       \* requests for a view that are served at the same time
  Threads,     \* computations of inner views
  Writers,     \* requests that write, at the same time
  Writes,      \* what they may write, and how
  Guarded,     \* views whose keys every write of their rows is to take care of
  Client, NoView, NoWrite,
  MaxClock,    \* bound: ticks of the clock
  MaxCommits,  \* bound: no write starts when its row has had so many
  MaxCrashes   \* bound: writers that die

Procs == Calls \cup Threads
\* A write may read the row first, delete its keys before the commit, delete
\* them after it, and set them at the end.
Write == [row : Rows, keys : SUBSET Views, reads : BOOLEAN, before : BOOLEAN,
          after : BOOLEAN, sets : BOOLEAN]
WriterStages == {"idle", "begun", "read", "dropped", "committed", "deleted", "dead"}

ASSUME ReadThroughAssumption ==
  /\ Direct \in [Views -> SUBSET Rows] /\ Inner \in [Views -> SUBSET Views]
  /\ Ttl \in [Views -> Nat] /\ Lag \in [Views -> Nat]
  /\ \A v \in Views : Lag[v] >= Ttl[v] + 1
  /\ \A v \in Views : \A w \in Inner[v] : Lag[v] >= Ttl[v] + 1 + Lag[w]
  /\ Writes \subseteq Write /\ Guarded \subseteq Views /\ NoWrite \notin Writes
  /\ \A x \in Writes : \A v \in x.keys : x.row \in Direct[v]
  /\ Calls \cap Threads = {} /\ Client \notin Procs /\ Procs \cap Writers = {}
  /\ Rows \cap Views = {} /\ NoView \notin Views
  /\ MaxClock \in Nat /\ MaxCommits \in Nat /\ MaxCrashes \in Nat

VARIABLES
  clock, ended, shown,  \* as in StaleRegister
  entry,    \* the cache
  asked,    \* the view a call or thread computes
  parent,   \* the computation a thread works for
  began,    \* when a call, thread or write began
  todo,     \* the rows and views still to be read
  got,      \* what has been read
  write,    \* what each writer writes
  stage,    \* how far it has got
  held,     \* the version of the row it holds in its object
  disturbed \* history: a write overlapped this computation or write

vars == <<clock, ended, shown, entry, asked, parent, began, todo, got, write, stage,
          held, disturbed>>
reading == <<asked, parent, todo, got>>
writing == <<write, stage, held>>

Register == INSTANCE StaleRegister

Latest(row) == Len(ended[row])
Sighting == Rows \X Nat
NoEntry == [stored |-> FALSE, content |-> {}, expires |-> 0, quiet |-> TRUE]
Entry == [stored : BOOLEAN, content : SUBSET Sighting, expires : Nat, quiet : BOOLEAN]

Init ==
  /\ clock = 0
  /\ ended = [row \in Rows |-> <<>>]
  /\ shown = <<>>
  /\ entry = [v \in Views |-> NoEntry]
  /\ asked = [p \in Procs |-> NoView]
  /\ parent = [p \in Procs |-> Client]
  /\ began = [p \in Procs \cup Writers |-> 0]
  /\ todo = [p \in Procs |-> {}]
  /\ got = [p \in Procs |-> {}]
  /\ write = [w \in Writers |-> NoWrite]
  /\ stage = [w \in Writers |-> "idle"]
  /\ held = [w \in Writers |-> 0]
  /\ disturbed = [p \in Procs \cup Writers |-> FALSE]

Computing(p) == asked[p] # NoView
\* A writer that died in the middle of its write never gets out of it.
Amid(w) == stage[w] # "idle"

-----------------------------------------------------------------------------
(* Reads                                                                   *)

\* Mutant: an entry is served however old it is.
HitEver(v) == entry[v].stored

\* The tick in which an entry expires may still see it.
Hit(v) == entry[v].stored /\ clock <= entry[v].expires

\* if cached: return cached
Serve(v) ==
  /\ Hit(v)
  /\ shown' = <<v, entry[v].content>>
  /\ UNCHANGED <<clock, ended, entry, began, disturbed, reading, writing>>

Begin(p, v, for) ==
  /\ asked' = [asked EXCEPT ![p] = v]
  /\ parent' = [parent EXCEPT ![p] = for]
  /\ began' = [began EXCEPT ![p] = clock]
  /\ disturbed' = [disturbed EXCEPT ![p] = \E w \in Writers : Amid(w)]

Miss(c) ==
  /\ ~Computing(c)
  /\ \E v \in Views :
       /\ ~Hit(v)
       /\ Begin(c, v, Client)
       /\ todo' = [todo EXCEPT ![c] = Direct[v] \cup Inner[v]]
  /\ shown' = <<>>
  /\ UNCHANGED <<clock, ended, entry, got, writing>>

Query(p) ==
  /\ Computing(p)
  /\ \E row \in todo[p] \cap Rows :
       /\ got' = [got EXCEPT ![p] = @ \cup {<<row, Latest(row)>>}]
       /\ todo' = [todo EXCEPT ![p] = @ \ {row}]
  /\ shown' = <<>>
  /\ UNCHANGED <<clock, ended, entry, asked, parent, began, disturbed, writing>>

InnerHit(p) ==
  /\ Computing(p)
  /\ \E v \in todo[p] \cap Views :
       /\ Hit(v)
       /\ got' = [got EXCEPT ![p] = @ \cup entry[v].content]
       /\ todo' = [todo EXCEPT ![p] = @ \ {v}]
  /\ shown' = <<>>
  /\ UNCHANGED <<clock, ended, entry, asked, parent, began, disturbed, writing>>

InnerMiss(p, t) ==
  /\ Computing(p) /\ ~Computing(t)
  /\ \E v \in todo[p] \cap Views :
       /\ ~Hit(v)
       /\ Begin(t, v, p)
       /\ todo' = [todo EXCEPT ![p] = @ \ {v}, ![t] = Direct[v] \cup Inner[v]]
  /\ shown' = <<>>
  /\ UNCHANGED <<clock, ended, entry, got, writing>>

\* All has been read, by the computation and by the threads that work for it.
Ready(p) ==
  /\ Computing(p) /\ todo[p] = {}
  /\ \A t \in Threads : Computing(t) => parent[t] # p

Finish(p) ==
  /\ asked' = [asked EXCEPT ![p] = NoView]
  /\ parent' = [parent EXCEPT ![p] = Client]
  /\ began' = [began EXCEPT ![p] = 0]
  /\ disturbed' = [disturbed EXCEPT ![p] = FALSE]

\* cache.set(cache_key, result, ttl)
Fill(p) ==
  /\ Ready(p)
  /\ asked[p] \notin Broken
  /\ Finish(p)
  /\ entry' = [entry EXCEPT ![asked[p]] =
                 [stored |-> TRUE, content |-> got[p], expires |-> clock + Ttl[asked[p]],
                  quiet |-> ~disturbed[p]]]
  /\ UNCHANGED <<clock, ended, todo, writing>>

\* return result
Answer(c) ==
  /\ Fill(c)
  /\ shown' = <<asked[c], got[c]>>
  /\ got' = [got EXCEPT ![c] = {}]

HandOver(t) ==
  /\ Fill(t)
  /\ got' = [got EXCEPT ![parent[t]] = @ \cup got[t], ![t] = {}]
  /\ shown' = <<>>

\* The exception ends the request, and nothing is stored.
Raise(c) ==
  /\ Ready(c)
  /\ asked[c] \in Broken
  /\ Finish(c)
  /\ got' = [got EXCEPT ![c] = {}]
  /\ shown' = <<>>
  /\ UNCHANGED <<clock, ended, entry, todo, writing>>

-----------------------------------------------------------------------------
(* Writes                                                                  *)

\* A write disturbs all that is under way.
Start(w) ==
  /\ stage[w] = "idle"
  /\ \E x \in Writes :
       /\ Latest(x.row) < MaxCommits
       /\ write' = [write EXCEPT ![w] = x]
  /\ stage' = [stage EXCEPT ![w] = "begun"]
  /\ began' = [began EXCEPT ![w] = clock]
  /\ disturbed' = [p \in Procs \cup Writers |->
       IF p = w THEN \E x \in Writers : Amid(x)
       ELSE disturbed[p] \/ (IF p \in Writers THEN Amid(p) ELSE Computing(p))]
  /\ shown' = <<>>
  /\ UNCHANGED <<clock, ended, entry, held, reading>>

Step(w, from, to) ==
  /\ Amid(w) /\ stage[w] = from
  /\ stage' = [stage EXCEPT ![w] = to]
  /\ shown' = <<>>
  /\ IF to = "idle"
     THEN /\ write' = [write EXCEPT ![w] = NoWrite]
          /\ began' = [began EXCEPT ![w] = 0]
          /\ disturbed' = [disturbed EXCEPT ![w] = FALSE]
     ELSE UNCHANGED <<write, began, disturbed>>

\* Mutant: the deleted key is not the one that is read.
DropElsewhere(keys) == entry' = entry

Drop(keys) == entry' = [v \in Views |-> IF v \in keys THEN NoEntry ELSE entry[v]]

Read(w) ==
  /\ Step(w, "begun", "read")
  /\ write[w].reads
  /\ held' = [held EXCEPT ![w] = Latest(write[w].row)]
  /\ UNCHANGED <<clock, ended, entry, reading>>

Unsaved(w) == IF write[w].reads THEN "read" ELSE "begun"

\* cache.delete inside the transaction: by the service or by a post_save signal.
DeleteBefore(w) ==
  /\ Step(w, Unsaved(w), "dropped")
  /\ write[w].before
  /\ Drop(write[w].keys)
  /\ UNCHANGED <<clock, ended, reading, held>>

\* A save of some columns leaves the others in the object as they were read.
Held(w) ==
  LET row == write[w].row IN
  IF ~write[w].sets THEN 0
  ELSE IF write[w].reads /\ held[w] # Latest(row) THEN held[w] ELSE Latest(row) + 1

Commit(w) ==
  /\ Step(w, IF write[w].before THEN "dropped" ELSE Unsaved(w),
             IF write[w].after \/ write[w].sets THEN "committed" ELSE "idle")
  /\ ended' = [ended EXCEPT ![write[w].row] = Append(@, clock)]
  /\ held' = [held EXCEPT ![w] = Held(w)]
  /\ UNCHANGED <<clock, entry, reading>>

DeleteAfter(w) ==
  /\ Step(w, "committed", IF write[w].sets THEN "deleted" ELSE "idle")
  /\ write[w].after
  /\ Drop(write[w].keys)
  /\ UNCHANGED <<clock, ended, reading, held>>

Set(w) ==
  /\ Step(w, IF write[w].after THEN "deleted" ELSE "committed", "idle")
  /\ write[w].sets
  /\ entry' = [v \in Views |->
       IF v \in write[w].keys
       THEN [stored |-> TRUE, content |-> {<<write[w].row, held[w]>>},
             expires |-> clock + Ttl[v], quiet |-> ~disturbed[w]]
       ELSE entry[v]]
  /\ held' = [held EXCEPT ![w] = 0]
  /\ UNCHANGED <<clock, ended, reading>>

Die(w) ==
  /\ Amid(w) /\ stage[w] # "dead"
  /\ Cardinality({x \in Writers : stage[x] = "dead"}) < MaxCrashes
  /\ stage' = [stage EXCEPT ![w] = "dead"]
  /\ shown' = <<>>
  /\ UNCHANGED <<clock, ended, entry, began, disturbed, reading, write, held>>

-----------------------------------------------------------------------------
\* Memory is short, or an administrator calls invalidate_pattern.
Evict(v) ==
  /\ entry[v].stored
  /\ entry' = [entry EXCEPT ![v] = NoEntry]
  /\ shown' = <<>>
  /\ UNCHANGED <<clock, ended, began, disturbed, reading, writing>>

\* A request under way at a tick ends before the next.
Tick ==
  /\ clock < MaxClock
  /\ \A p \in Procs : Computing(p) => began[p] = clock
  /\ \A w \in Writers : Amid(w) /\ stage[w] # "dead" => began[w] = clock
  /\ clock' = clock + 1
  /\ shown' = <<>>
  /\ UNCHANGED <<ended, entry, began, disturbed, reading, writing>>

Next ==
  \/ \E v \in Views : Serve(v) \/ Evict(v)
  \/ \E c \in Calls : Miss(c) \/ Answer(c) \/ Raise(c)
  \/ \E p \in Procs : Query(p) \/ InnerHit(p)
  \/ \E p \in Procs, t \in Threads : InnerMiss(p, t)
  \/ \E t \in Threads : HandOver(t)
  \/ \E w \in Writers :
       \/ Start(w) \/ Read(w) \/ DeleteBefore(w) \/ Commit(w) \/ DeleteAfter(w)
       \/ Set(w) \/ Die(w)
  \/ Tick

Spec == Init /\ [][Next]_vars

-----------------------------------------------------------------------------
(* Properties                                                              *)

\* Entries and what computations have read are sets of versions; stages and
\* processes are those of the model.
TypeOK ==
  /\ clock \in Nat
  /\ ended \in [Rows -> Seq(Nat)]
  /\ entry \in [Views -> Entry]
  /\ asked \in [Procs -> Views \cup {NoView}]
  /\ parent \in [Procs -> Procs \cup {Client}]
  /\ began \in [Procs \cup Writers -> Nat]
  /\ todo \in [Procs -> SUBSET (Rows \cup Views)]
  /\ got \in [Procs -> SUBSET Sighting]
  /\ write \in [Writers -> Writes \cup {NoWrite}]
  /\ \A w \in Writers : Amid(w) => write[w] \in Writes
  /\ stage \in [Writers -> WriterStages]
  /\ held \in [Writers -> Nat]
  /\ disturbed \in [Procs \cup Writers -> BOOLEAN]

\* However reads, writes, evictions and crashes interleave, an answer shows no
\* version that stopped being current more than Lag[view] ago: the time to live,
\* the duration of one request, and the lag of a view it is made from.
BoundedStaleness == Register!Spec

\* The views that QuietEntriesAreCurrent is about are made from rows only, and
\* whoever writes one of these rows drops or sets the key of the view.
GuardsAreKept ==
  \A v \in Guarded :
    /\ Inner[v] = {}
    /\ \A x \in Writes :
         x.row \in Direct[v] => v \in x.keys /\ (x.before \/ x.after \/ x.sets)

\* Between writes the cache of a guarded view is exact: an entry that was not
\* computed while a write was under way shows the current rows, unless a writer
\* has died between its commit and its delete.
QuietEntriesAreCurrent ==
  (\A w \in Writers : ~Amid(w)) =>
    \A v \in Guarded :
      entry[v].stored /\ entry[v].quiet =>
        \A s \in entry[v].content : s[2] = Latest(s[1])
=============================================================================
