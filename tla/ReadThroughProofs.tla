------------------------- MODULE ReadThroughProofs -------------------------
(***************************************************************************)
(* ReadThrough implements StaleRegister, for all views, rows, writes and   *)
(* times to live, and every number of requests, threads and writers.       *)
(* Between writes, the entries of guarded views are exact.                 *)
(***************************************************************************)
EXTENDS ReadThrough, TLAPS

\* Each version in the content has existed, and was current at time t or later.
Sound(content, t, history) ==
  \A s \in content :
    /\ s \in Sighting /\ s[2] <= Len(history[s[1]])
    /\ s[2] < Len(history[s[1]]) => history[s[1]][s[2] + 1] >= t

Since(v, start) == start + Ttl[v] + 1 - Lag[v]

Shape ==
  /\ clock \in Nat
  /\ ended \in [Rows -> Seq(Nat)]
  /\ entry = [v \in Views |-> entry[v]]
  /\ asked \in [Procs -> Views \cup {NoView}]
  /\ parent \in [Procs -> Procs \cup {Client}]
  /\ began \in [Procs \cup Writers -> Nat]
  /\ todo \in [Procs -> SUBSET (Rows \cup Views)]
  /\ got = [p \in Procs |-> got[p]]
  /\ write \in [Writers -> Writes \cup {NoWrite}]
  /\ stage \in [Writers -> WriterStages]
  /\ held = [w \in Writers |-> held[w]]

EntryOK(v) ==
  entry[v].stored =>
    /\ entry[v].expires \in Nat /\ entry[v].expires <= clock + Ttl[v]
    /\ Sound(entry[v].content, entry[v].expires - Lag[v], ended)

\* A computation ends within a tick of its start.
ProcOK(p) ==
  /\ ~Computing(p) => got[p] = {}
  /\ Computing(p) =>
       /\ began[p] <= clock /\ clock <= began[p] + 1
       /\ todo[p] \subseteq Direct[asked[p]] \cup Inner[asked[p]]
       /\ Sound(got[p], Since(asked[p], began[p]), ended)

ThreadOK(t) ==
  Computing(t) =>
    /\ parent[t] \in Procs /\ parent[t] # t /\ Computing(parent[t])
    /\ asked[t] \in Inner[asked[parent[t]]]
    /\ began[parent[t]] <= began[t]

\* What the object of a writer holds was current when the write began.
Holds(w) ==
  \/ stage[w] \in {"read", "dropped"} /\ write[w].reads
  \/ stage[w] \in {"committed", "deleted"} /\ write[w].sets

WriterOK(w) ==
  /\ Amid(w) => write[w] \in Writes
  /\ Amid(w) /\ stage[w] # "dead" => began[w] <= clock /\ clock <= began[w] + 1
  /\ Holds(w) => Sound({<<write[w].row, held[w]>>}, began[w], ended)

IInv ==
  /\ Shape
  /\ \A v \in Views : EntryOK(v)
  /\ \A p \in Procs : ProcOK(p)
  /\ \A t \in Threads : ThreadOK(t)
  /\ \A w \in Writers : WriterOK(w)

-----------------------------------------------------------------------------
(* Versions                                                                *)

LEMMA SoundEarlier ==
  ASSUME Shape, NEW content, NEW t \in Int, NEW u \in Int, u <= t, Sound(content, t, ended)
  PROVE  Sound(content, u, ended)
  BY DEF Sound, Sighting, Shape

LEMMA SoundUnion ==
  ASSUME NEW A, NEW B, NEW t, NEW e, Sound(A, t, e), Sound(B, t, e)
  PROVE  Sound(A \cup B, t, e)
  BY DEF Sound

LEMMA SoundNothing ==
  ASSUME NEW t, NEW e
  PROVE  Sound({}, t, e)
  BY DEF Sound

\* What is current now was current at any time up to now.
LEMMA SoundLatest ==
  ASSUME Shape, NEW row \in Rows, NEW t
  PROVE  Sound({<<row, Latest(row)>>}, t, ended)
<1>1. Len(ended[row]) \in Nat
  BY DEF Shape
<1>2. QED
  BY <1>1 DEF Sound, Sighting, Latest

\* A commit ends the current version now, and no earlier one anew.
LEMMA SoundAfterCommit ==
  ASSUME Shape, NEW row \in Rows, ended' = [ended EXCEPT ![row] = Append(@, clock)],
         NEW content, NEW t \in Int, t <= clock, Sound(content, t, ended)
  PROVE  Sound(content, t, ended')
<1> SUFFICES ASSUME NEW s \in content
             PROVE  /\ s \in Sighting /\ s[2] <= Len(ended'[s[1]])
                    /\ s[2] < Len(ended'[s[1]]) => ended'[s[1]][s[2] + 1] >= t
  BY DEF Sound
<1>1. s[1] \in Rows /\ s[2] \in Nat /\ s \in Sighting
  BY DEF Sound, Sighting
<1>2. /\ s[2] <= Len(ended[s[1]])
      /\ s[2] < Len(ended[s[1]]) => ended[s[1]][s[2] + 1] >= t
  BY DEF Sound
<1>3. CASE s[1] # row
  BY <1>1, <1>2, <1>3 DEF Shape
<1>4. CASE s[1] = row
  <2> DEFINE old == ended[row]
  <2>1. old \in Seq(Nat) /\ ended'[row] = Append(old, clock) /\ clock \in Nat
    BY DEF Shape
  <2>2. /\ Len(ended'[row]) = Len(old) + 1 /\ Len(old) \in Nat
        /\ ended'[row][Len(old) + 1] = clock
        /\ \A i \in 1..Len(old) : ended'[row][i] = old[i]
    BY <2>1
  <2>3. CASE s[2] < Len(old)
    BY <1>1, <1>2, <1>4, <2>2, <2>3
  <2>4. CASE s[2] = Len(old)
    BY <1>1, <1>4, <2>2, <2>4
  <2>5. QED
    BY <1>1, <1>2, <1>4, <2>2, <2>3, <2>4
<1>5. QED
  BY <1>3, <1>4

\* Content that is sound enough may be shown.
LEMMA MayReply ==
  ASSUME Shape, NEW v \in Views, NEW content, Sound(content, clock - Lag[v], ended),
         shown' = <<v, content>>, UNCHANGED <<clock, ended>>
  PROVE  Register!Reply(v)
<1>1. content \subseteq Register!Versions
  <2> SUFFICES ASSUME NEW s \in content PROVE s \in Register!Versions
    OBVIOUS
  <2>1. s \in Rows \X Nat /\ s[2] <= Len(ended[s[1]])
    BY DEF Sound, Sighting
  <2>2. Len(ended[s[1]]) \in Nat
    BY <2>1 DEF Shape
  <2>3. s \in {s[1]} \X (0..Len(ended[s[1]])) /\ s[1] \in Rows
    BY <2>1, <2>2
  <2>4. QED
    BY <2>3 DEF Register!Versions, Register!Latest
<1>2. Register!Fresh(content, clock - Lag[v])
  BY DEF Sound, Register!Fresh, Register!Latest
<1>3. QED
  BY <1>1, <1>2 DEF Register!Reply

-----------------------------------------------------------------------------
(* What a step leaves alone                                                *)

LEMMA Times ==
  ASSUME NEW v \in Views
  PROVE  /\ Ttl[v] \in Nat /\ Lag[v] \in Nat /\ Lag[v] >= Ttl[v] + 1
         /\ \A w \in Inner[v] : w \in Views /\ Lag[v] >= Ttl[v] + 1 + Lag[w]
         /\ \A w \in (Direct[v] \cup Inner[v]) \cap Views : w \in Inner[v]
         /\ Direct[v] \cup Inner[v] \subseteq Rows \cup Views
  BY ReadThroughAssumption

LEMMA EntryKept ==
  ASSUME NEW v \in Views, EntryOK(v), UNCHANGED <<clock, ended>>, entry'[v] = entry[v]
  PROVE  EntryOK(v)'
  BY DEF EntryOK

LEMMA ProcKept ==
  ASSUME NEW p \in Procs, ProcOK(p), UNCHANGED <<clock, ended>>, asked'[p] = asked[p],
         began'[p] = began[p], todo'[p] \subseteq todo[p], got'[p] = got[p]
  PROVE  ProcOK(p)'
  BY DEF ProcOK, Computing

LEMMA ThreadKept ==
  ASSUME NEW t \in Threads, ThreadOK(t), asked'[t] = asked[t], parent'[t] = parent[t],
         began'[t] = began[t],
         Computing(t) => asked'[parent[t]] = asked[parent[t]] /\ began'[parent[t]] = began[parent[t]]
  PROVE  ThreadOK(t)'
  BY DEF ThreadOK, Computing

LEMMA WritersKept ==
  ASSUME IInv, UNCHANGED <<clock, ended, writing>>, \A w \in Writers : began'[w] = began[w]
  PROVE  \A w \in Writers : WriterOK(w)'
  BY DEF IInv, WriterOK, Amid, Holds, writing

\* A process that was not computing begins.
LEMMA Begun ==
  ASSUME IInv, NEW p \in Procs, NEW v \in Views, ~Computing(p), NEW for \in Procs \cup {Client},
         Begin(p, v, for), UNCHANGED <<clock, ended, entry, got, writing>>,
         todo' \in [Procs -> SUBSET (Rows \cup Views)],
         todo'[p] = Direct[v] \cup Inner[v],
         \A q \in Procs \ {p} : todo'[q] \subseteq todo[q],
         p \in Threads => /\ for \in Procs \ {p} /\ Computing(for)
                          /\ v \in Inner[asked[for]]
  PROVE  IInv'
<1>1. /\ asked' = [asked EXCEPT ![p] = v] /\ parent' = [parent EXCEPT ![p] = for]
      /\ began' = [began EXCEPT ![p] = clock]
  BY DEF Begin
<1>2. Shape'
  BY <1>1, ReadThroughAssumption DEF IInv, Shape, writing
<1>3. \A q \in Procs : /\ asked'[q] = IF q = p THEN v ELSE asked[q]
                       /\ parent'[q] = IF q = p THEN for ELSE parent[q]
                       /\ began'[q] = IF q = p THEN clock ELSE began[q]
  BY <1>1 DEF IInv, Shape
<1>4. \A w \in Writers : began'[w] = began[w]
  BY <1>1, ReadThroughAssumption DEF IInv, Shape
<1>5. \A q \in Views : EntryOK(q)'
  BY EntryKept DEF IInv
<1>6. ASSUME NEW q \in Procs
      PROVE  ProcOK(q)'
  <2>1. CASE q = p
    <3>1. got'[p] = {} /\ asked'[p] = v /\ began'[p] = clock /\ clock \in Nat
      BY <1>3 DEF IInv, ProcOK, Shape
    <3>2. v # NoView
      BY ReadThroughAssumption
    <3>3. QED
      BY <2>1, <3>1, <3>2, SoundNothing DEF ProcOK, Computing
  <2>2. CASE q # p
    BY <1>3, <2>2, ProcKept DEF IInv
  <2>3. QED
    BY <2>1, <2>2
<1>7. ASSUME NEW t \in Threads
      PROVE  ThreadOK(t)'
  <2>1. t \in Procs
    BY DEF Procs
  <2>2. CASE t = p
    <3>1. for \in Procs \ {p} /\ Computing(for) /\ v \in Inner[asked[for]]
      BY <2>2
    <3>2. began[for] <= clock /\ asked'[for] = asked[for] /\ began'[for] = began[for]
      BY <1>3, <3>1 DEF IInv, ProcOK
    <3>3. /\ asked'[t] = v /\ parent'[t] = for /\ began'[t] = clock
      BY <1>3, <2>1, <2>2
    <3>4. Computing(for)'
      BY <3>1, <3>2 DEF Computing
    <3>5. QED
      BY <2>2, <3>1, <3>2, <3>3, <3>4 DEF ThreadOK
  <2>3. CASE t # p
    <3>1. asked'[t] = asked[t] /\ parent'[t] = parent[t] /\ began'[t] = began[t] /\ ThreadOK(t)
      BY <1>3, <2>1, <2>3 DEF IInv
    <3>2. Computing(t) => parent[t] \in Procs /\ parent[t] # p
      BY <3>1 DEF ThreadOK
    <3>3. QED
      BY <1>3, <3>1, <3>2, ThreadKept
  <2>4. QED
    BY <2>2, <2>3
<1>8. QED
  BY <1>2, <1>4, <1>5, <1>6, <1>7, WritersKept DEF IInv

\* A process reads something that is sound for it.
LEMMA ReadMore ==
  ASSUME IInv, NEW p \in Procs, Computing(p), NEW content,
         Sound(content, Since(asked[p], began[p]), ended),
         got' = [got EXCEPT ![p] = @ \cup content],
         \E x : todo' = [todo EXCEPT ![p] = @ \ {x}],
         UNCHANGED <<clock, ended, entry, asked, parent, began, writing>>
  PROVE  IInv'
<1>1. PICK x : todo' = [todo EXCEPT ![p] = @ \ {x}]
  OBVIOUS
<1>2. Shape'
  BY <1>1 DEF IInv, Shape, writing
<1>3. \A q \in Procs : /\ todo'[q] \subseteq todo[q]
                       /\ got'[q] = IF q = p THEN got[p] \cup content ELSE got[q]
  BY <1>1 DEF IInv, Shape
<1>4. \A v \in Views : EntryOK(v)'
  BY EntryKept DEF IInv
<1>5. ASSUME NEW q \in Procs
      PROVE  ProcOK(q)'
  <2>1. CASE q = p
    <3>1. Sound(got'[p], Since(asked[p], began[p]), ended)
      BY <1>3, SoundUnion DEF IInv, ProcOK
    <3>2. QED
      BY <1>3, <2>1, <3>1 DEF IInv, ProcOK, Computing
  <2>2. CASE q # p
    BY <1>3, <2>2, ProcKept DEF IInv
  <2>3. QED
    BY <2>1, <2>2
<1>6. \A t \in Threads : ThreadOK(t)'
  BY ThreadKept DEF IInv
<1>7. QED
  BY <1>2, <1>4, <1>5, <1>6, WritersKept DEF IInv

-----------------------------------------------------------------------------
(* Reads                                                                   *)

\* When what a process reads may be from, in terms of now.
LEMMA SinceNow ==
  ASSUME IInv, NEW p \in Procs, Computing(p)
  PROVE  /\ asked[p] \in Views /\ Since(asked[p], began[p]) \in Int
         /\ Since(asked[p], began[p]) <= clock
         /\ Since(asked[p], began[p]) >= clock + Ttl[asked[p]] - Lag[asked[p]]
         /\ \A v \in Inner[asked[p]] : /\ v \in Views
                                       /\ Since(asked[p], began[p]) <= began[p] - Lag[v]
<1>1. asked[p] \in Views /\ began[p] \in Nat /\ clock \in Nat
  BY DEF IInv, Shape, Computing
<1>2. began[p] <= clock /\ clock <= began[p] + 1
  BY DEF IInv, ProcOK
<1>3. QED
  BY <1>1, <1>2, Times DEF Since

\* A process ends; a thread hands what it has read over to whom it works for.
LEMMA Finished ==
  ASSUME IInv, NEW p \in Procs, Ready(p), Finish(p),
         UNCHANGED <<clock, ended, todo, writing>>,
         \/ got' = [got EXCEPT ![p] = {}]
         \/ p \in Threads /\ got' = [got EXCEPT ![parent[p]] = @ \cup got[p], ![p] = {}],
         Shape => entry' = [v \in Views |-> entry'[v]],
         \A v \in Views : EntryOK(v)'
  PROVE  IInv'
<1>1. /\ asked' = [asked EXCEPT ![p] = NoView] /\ parent' = [parent EXCEPT ![p] = Client]
      /\ began' = [began EXCEPT ![p] = 0]
  BY DEF Finish
<1>2. got' = [q \in Procs |-> got'[q]]
  BY DEF IInv, Shape
<1>3. Shape'
  BY <1>1, <1>2 DEF IInv, Shape, writing
<1>4. \A q \in Procs : /\ asked'[q] = IF q = p THEN NoView ELSE asked[q]
                       /\ parent'[q] = IF q = p THEN Client ELSE parent[q]
                       /\ began'[q] = IF q = p THEN 0 ELSE began[q]
  BY <1>1 DEF IInv, Shape
<1>5. \A w \in Writers : began'[w] = began[w]
  BY <1>1, ReadThroughAssumption DEF IInv, Shape
<1>6. got'[p] = {}
  BY DEF IInv, Shape
<1>7. \A q \in Procs : q # p =>
        \/ got'[q] = got[q]
        \/ p \in Threads /\ q = parent[p] /\ got'[q] = got[q] \cup got[p]
  BY DEF IInv, Shape
<1>8. ASSUME NEW q \in Procs
      PROVE  ProcOK(q)'
  <2>1. CASE q = p
    BY <1>4, <1>6, <2>1 DEF ProcOK, Computing
  <2>2. CASE q # p /\ got'[q] = got[q]
    BY <1>4, <2>2, ProcKept DEF IInv
  <2>3. CASE q # p /\ p \in Threads /\ q = parent[p] /\ got'[q] = got[q] \cup got[p]
    <3>1. /\ Computing(p) /\ Computing(q) /\ asked[p] \in Inner[asked[q]]
          /\ began[q] <= began[p]
      BY <2>3 DEF IInv, ThreadOK, Ready
    <3>2. /\ Since(asked[q], began[q]) \in Int /\ Since(asked[p], began[p]) \in Int
          /\ Since(asked[q], began[q]) <= began[q] - Lag[asked[p]]
          /\ asked[p] \in Views
      BY <3>1, SinceNow
    <3>3. Since(asked[p], began[p]) >= began[p] - Lag[asked[p]]
      BY <3>2, Times DEF Since, IInv, Shape
    <3>4. Since(asked[q], began[q]) <= Since(asked[p], began[p])
      BY <3>1, <3>2, <3>3, Times DEF IInv, Shape
    <3>5. Sound(got[p], Since(asked[p], began[p]), ended)
      BY <3>1 DEF IInv, ProcOK
    <3>6. Sound(got[p], Since(asked[q], began[q]), ended)
      BY <3>2, <3>4, <3>5, SoundEarlier DEF IInv
    <3>7. Sound(got'[q], Since(asked[q], began[q]), ended)
      BY <2>3, <3>1, <3>6, SoundUnion DEF IInv, ProcOK
    <3>8. QED
      BY <1>4, <2>3, <3>1, <3>7 DEF IInv, ProcOK, Computing
  <2>4. QED
    BY <1>7, <2>1, <2>2, <2>3
<1>9. ASSUME NEW t \in Threads
      PROVE  ThreadOK(t)'
  <2>1. t \in Procs
    BY DEF Procs
  <2>2. CASE t = p
    BY <1>4, <2>1, <2>2 DEF ThreadOK, Computing
  <2>3. CASE t # p
    <3>1. asked'[t] = asked[t] /\ parent'[t] = parent[t] /\ began'[t] = began[t] /\ ThreadOK(t)
      BY <1>4, <2>1, <2>3 DEF IInv
    <3>2. Computing(t) => parent[t] \in Procs /\ parent[t] # p
      BY <3>1 DEF ThreadOK, Ready
    <3>3. QED
      BY <1>4, <3>1, <3>2, ThreadKept
  <2>4. QED
    BY <2>2, <2>3
<1>10. QED
  BY <1>3, <1>5, <1>8, <1>9, WritersKept DEF IInv

\* What is stored and shown at the end is fresh enough.
LEMMA Filled ==
  ASSUME IInv, NEW p \in Procs, Fill(p)
  PROVE  /\ Ready(p) /\ Finish(p) /\ UNCHANGED <<clock, ended, todo, writing>>
         /\ asked[p] \in Views /\ Sound(got[p], clock - Lag[asked[p]], ended)
         /\ entry' = [v \in Views |-> entry'[v]]
         /\ \A v \in Views : EntryOK(v)'
<1>1. /\ Computing(p) /\ Ready(p) /\ Finish(p) /\ UNCHANGED <<clock, ended, todo, writing>>
  BY DEF Fill, Ready
<1> DEFINE v == asked[p]
           new == [stored |-> TRUE, content |-> got[p], expires |-> clock + Ttl[v],
                   quiet |-> ~disturbed[p]]
<1>2. /\ v \in Views /\ Since(v, began[p]) \in Int
      /\ Since(v, began[p]) >= clock + Ttl[v] - Lag[v]
  BY <1>1, SinceNow
<1>3. Sound(got[p], Since(v, began[p]), ended)
  BY <1>1 DEF IInv, ProcOK
<1>4. clock \in Nat /\ Ttl[v] \in Nat /\ Lag[v] \in Nat
  BY <1>2, Times DEF IInv, Shape
<1>5. Sound(got[p], clock + Ttl[v] - Lag[v], ended) /\ Sound(got[p], clock - Lag[v], ended)
  <2>1. clock + Ttl[v] - Lag[v] \in Int /\ clock - Lag[v] \in Int
    BY <1>4
  <2>2. clock - Lag[v] <= Since(v, began[p])
    BY <1>2, <1>4
  <2>3. QED
    BY <1>2, <1>3, <2>1, <2>2, SoundEarlier DEF IInv
<1>6. entry' = [entry EXCEPT ![v] = new]
  BY DEF Fill
<1>7. new.stored /\ new.content = got[p] /\ new.expires = clock + Ttl[v]
  OBVIOUS
<1> HIDE DEF new, v
<1>8. \A x \in Views : entry'[x] = IF x = v THEN new ELSE entry[x]
  BY <1>6 DEF IInv, Shape
<1>9. ASSUME NEW x \in Views
      PROVE  EntryOK(x)'
  <2>1. CASE x = v
    <3>1. entry'[x].expires = clock + Ttl[v] /\ entry'[x].content = got[p]
      BY <1>7, <1>8, <2>1
    <3>2. QED
      BY <1>1, <1>4, <1>5, <2>1, <3>1 DEF EntryOK
  <2>2. CASE x # v
    BY <1>1, <1>8, <2>2, EntryKept DEF IInv
  <2>3. QED
    BY <2>1, <2>2
<1>10. entry' = [x \in Views |-> entry'[x]]
  BY <1>6 DEF IInv, Shape
<1>11. QED
  BY <1>1, <1>2, <1>5, <1>9, <1>10 DEF v

-----------------------------------------------------------------------------
(* Writes                                                                  *)

Committing(row) == ended' = [ended EXCEPT ![row] = Append(@, clock)]

LEMMA SoundKept ==
  ASSUME Shape, ended' = ended \/ \E row \in Rows : Committing(row),
         NEW content, NEW t \in Int, t <= clock, Sound(content, t, ended)
  PROVE  Sound(content, t, ended')
<1>1. CASE ended' = ended
  BY <1>1
<1>2. ASSUME NEW row \in Rows, Committing(row)
      PROVE  Sound(content, t, ended')
  BY <1>2, SoundAfterCommit DEF Committing
<1>3. QED
  BY <1>1, <1>2

\* A writer takes a step: the others and the readers see a commit at most, and
\* the entries that it does not touch stay what they are.
LEMMA WriterStep ==
  ASSUME IInv, NEW w \in Writers, UNCHANGED <<clock, reading>>,
         ended' = ended \/ \E row \in Rows : Committing(row),
         began' \in [Procs \cup Writers -> Nat],
         \A p \in Procs \cup Writers : p # w => began'[p] = began[p],
         write' \in [Writers -> Writes \cup {NoWrite}],
         stage' \in [Writers -> WriterStages],
         held' = [x \in Writers |-> held'[x]],
         entry' = [v \in Views |-> entry'[v]],
         \A x \in Writers : x # w =>
           write'[x] = write[x] /\ stage'[x] = stage[x] /\ held'[x] = held[x],
         \A v \in Views : entry'[v] = entry[v] \/ EntryOK(v)',
         WriterOK(w)'
  PROVE  IInv'
<1>1. ended' \in [Rows -> Seq(Nat)]
  <2>1. ended \in [Rows -> Seq(Nat)] /\ clock \in Nat
    BY DEF IInv, Shape
  <2>2. ASSUME NEW row \in Rows, Committing(row)
        PROVE  ended' \in [Rows -> Seq(Nat)]
    <3>1. Append(ended[row], clock) \in Seq(Nat)
      BY <2>1
    <3>2. QED
      BY <2>1, <2>2, <3>1 DEF Committing
  <2>3. QED
    BY <2>1, <2>2
<1>2. Shape'
  BY <1>1 DEF IInv, Shape, reading
<1>3. w \notin Procs
  BY ReadThroughAssumption
<1>4. ASSUME NEW v \in Views, entry'[v] = entry[v]
      PROVE  EntryOK(v)'
  <2> SUFFICES ASSUME entry[v].stored
               PROVE  /\ entry[v].expires \in Nat /\ entry[v].expires <= clock + Ttl[v]
                      /\ Sound(entry[v].content, entry[v].expires - Lag[v], ended')
    BY <1>4 DEF EntryOK
  <2>1. /\ entry[v].expires \in Nat /\ entry[v].expires <= clock + Ttl[v]
        /\ Sound(entry[v].content, entry[v].expires - Lag[v], ended)
    BY DEF IInv, EntryOK
  <2>2. entry[v].expires - Lag[v] \in Int /\ entry[v].expires - Lag[v] <= clock
    BY <2>1, Times DEF IInv, Shape
  <2>3. QED
    BY <2>1, <2>2, SoundKept DEF IInv
<1>5. ASSUME NEW p \in Procs
      PROVE  ProcOK(p)'
  <2>1. began'[p] = began[p] /\ UNCHANGED <<clock, asked, todo, got>>
    BY <1>3 DEF reading
  <2>2. Computing(p) => Sound(got[p], Since(asked[p], began[p]), ended')
    <3> SUFFICES ASSUME Computing(p) PROVE Sound(got[p], Since(asked[p], began[p]), ended')
      OBVIOUS
    <3>1. Since(asked[p], began[p]) \in Int /\ Since(asked[p], began[p]) <= clock
      BY SinceNow
    <3>2. QED
      BY <3>1, SoundKept DEF IInv, ProcOK
  <2>3. QED
    BY <2>1, <2>2 DEF IInv, ProcOK, Computing
<1>6. ASSUME NEW t \in Threads
      PROVE  ThreadOK(t)'
  <2>1. t \in Procs /\ UNCHANGED <<asked, parent>>
    BY DEF Procs, reading
  <2>2. Computing(t) => parent[t] \in Procs
    BY DEF IInv, ThreadOK
  <2>3. QED
    BY <1>3, <2>1, <2>2, ThreadKept DEF IInv
<1>7. ASSUME NEW x \in Writers, x # w
      PROVE  WriterOK(x)'
  <2>1. /\ write'[x] = write[x] /\ stage'[x] = stage[x] /\ held'[x] = held[x]
        /\ began'[x] = began[x] /\ UNCHANGED clock
    BY <1>7
  <2>2. Holds(x) => Sound({<<write[x].row, held[x]>>}, began[x], ended')
    <3> SUFFICES ASSUME Holds(x) PROVE Sound({<<write[x].row, held[x]>>}, began[x], ended')
      OBVIOUS
    <3>1. began[x] \in Int /\ began[x] <= clock
      <4>1. Amid(x) /\ stage[x] # "dead"
        BY DEF Holds, Amid
      <4>2. began[x] \in Nat
        BY DEF IInv, Shape
      <4>3. WriterOK(x)
        BY DEF IInv
      <4>4. QED
        BY <4>1, <4>2, <4>3 DEF WriterOK
    <3>2. QED
      BY <3>1, SoundKept DEF IInv, WriterOK
  <2>3. QED
    BY <2>1, <2>2 DEF IInv, WriterOK, Holds, Amid
<1>8. QED
  BY <1>2, <1>4, <1>5, <1>6, <1>7 DEF IInv

\* What a step of a write does to write, stage and began.
LEMMA Stepped ==
  ASSUME IInv, NEW w \in Writers, NEW from, NEW to \in WriterStages, Step(w, from, to)
  PROVE  /\ Amid(w) /\ stage[w] = from /\ write[w] \in Writes /\ write[w].row \in Rows
         /\ stage' \in [Writers -> WriterStages] /\ stage'[w] = to
         /\ write' \in [Writers -> Writes \cup {NoWrite}]
         /\ began' \in [Procs \cup Writers -> Nat]
         /\ \A p \in Procs \cup Writers : p # w => began'[p] = began[p]
         /\ \A x \in Writers : x # w => write'[x] = write[x] /\ stage'[x] = stage[x]
         /\ to # "idle" => write'[w] = write[w] /\ began'[w] = began[w]
         /\ from # "dead" => began[w] <= clock /\ clock <= began[w] + 1
         /\ shown' = <<>>
<1>1. Amid(w) /\ stage[w] = from /\ write[w] \in Writes
  BY DEF Step, IInv, WriterOK
<1>2. write[w].row \in Rows
  BY <1>1, ReadThroughAssumption DEF Write
<1>3. stage' = [stage EXCEPT ![w] = to]
  BY DEF Step
<1>4. \/ to = "idle" /\ write' = [write EXCEPT ![w] = NoWrite] /\ began' = [began EXCEPT ![w] = 0]
      \/ to # "idle" /\ UNCHANGED <<write, began>>
  BY DEF Step
<1>5. from # "dead" => began[w] <= clock /\ clock <= began[w] + 1
  BY <1>1 DEF IInv, WriterOK
<1>6. /\ stage \in [Writers -> WriterStages] /\ write \in [Writers -> Writes \cup {NoWrite}]
      /\ began \in [Procs \cup Writers -> Nat]
  BY DEF IInv, Shape
<1>7. /\ stage' \in [Writers -> WriterStages] /\ stage'[w] = to
      /\ \A x \in Writers : x # w => stage'[x] = stage[x]
  BY <1>3, <1>6
<1>8. /\ write' \in [Writers -> Writes \cup {NoWrite}]
      /\ \A x \in Writers : x # w => write'[x] = write[x]
      /\ to # "idle" => write'[w] = write[w]
  BY <1>4, <1>6
<1>9. /\ began' \in [Procs \cup Writers -> Nat]
      /\ \A p \in Procs \cup Writers : p # w => began'[p] = began[p]
      /\ to # "idle" => began'[w] = began[w]
  BY <1>4, <1>6
<1>10. shown' = <<>>
  BY DEF Step
<1>11. QED
  BY <1>1, <1>2, <1>5, <1>7, <1>8, <1>9, <1>10

LEMMA Dropped ==
  ASSUME NEW keys, Drop(keys)
  PROVE  /\ entry' = [v \in Views |-> entry'[v]]
         /\ \A v \in Views : entry'[v] = entry[v] \/ EntryOK(v)'
  BY DEF Drop, NoEntry, EntryOK

LEMMA WriteStep ==
  ASSUME IInv, NEW w \in Writers,
         \/ Start(w) \/ Read(w) \/ DeleteBefore(w) \/ Commit(w) \/ DeleteAfter(w)
         \/ Set(w) \/ Die(w)
  PROVE  IInv' /\ [Register!Next]_(Register!vars)
<1> USE DEF Holds
<1>1. CASE Start(w)
  <2>1. PICK x \in Writes : write' = [write EXCEPT ![w] = x]
    BY <1>1 DEF Start
  <2>2. /\ stage' = [stage EXCEPT ![w] = "begun"] /\ began' = [began EXCEPT ![w] = clock]
        /\ UNCHANGED <<clock, ended, entry, held, reading>> /\ shown' = <<>>
    BY <1>1 DEF Start
  <2>3. /\ stage' \in [Writers -> WriterStages] /\ write' \in [Writers -> Writes \cup {NoWrite}]
        /\ began' \in [Procs \cup Writers -> Nat]
    BY <2>1, <2>2 DEF IInv, Shape, WriterStages
  <2>4. \A y \in Writers : y # w => write'[y] = write[y] /\ stage'[y] = stage[y]
    BY <2>1, <2>2 DEF IInv, Shape
  <2>5. \A p \in Procs \cup Writers : p # w => began'[p] = began[p]
    BY <2>2 DEF IInv, Shape
  <2>6. stage'[w] = "begun" /\ write'[w] = x /\ began'[w] = clock /\ clock \in Nat
    BY <2>1, <2>2 DEF IInv, Shape
  <2>7. WriterOK(w)'
    BY <2>2, <2>6 DEF WriterOK, Amid
  <2>8. IInv'
    BY <2>2, <2>3, <2>4, <2>5, <2>7, WriterStep DEF IInv, Shape
  <2>9. QED
    BY <2>2, <2>8 DEF Register!Next, Register!Other
<1>2. CASE Read(w)
  <2>1. /\ Step(w, "begun", "read") /\ held' = [held EXCEPT ![w] = Latest(write[w].row)]
        /\ UNCHANGED <<clock, ended, entry, reading>>
    BY <1>2 DEF Read
  <2>2. /\ write[w].row \in Rows /\ stage'[w] = "read" /\ write'[w] = write[w]
        /\ began'[w] = began[w] /\ began[w] <= clock /\ clock <= began[w] + 1
        /\ write[w] \in Writes
    BY <2>1, Stepped DEF WriterStages
  <2>3. held'[w] = Latest(write[w].row)
    BY <2>1 DEF IInv, Shape
  <2>4. WriterOK(w)'
    BY <2>1, <2>2, <2>3, SoundLatest DEF WriterOK, Amid, IInv
  <2>5. IInv'
    BY <2>1, <2>4, Stepped, WriterStep DEF IInv, Shape, WriterStages
  <2>6. QED
    BY <2>1, <2>5, Stepped DEF Register!Next, Register!Other, WriterStages
<1>3. CASE DeleteBefore(w)
  <2>1. /\ Step(w, Unsaved(w), "dropped") /\ Drop(write[w].keys)
        /\ UNCHANGED <<clock, ended, reading, held>>
    BY <1>3 DEF DeleteBefore
  <2>2. /\ stage[w] = Unsaved(w) /\ stage'[w] = "dropped" /\ write'[w] = write[w]
        /\ began'[w] = began[w] /\ write[w] \in Writes
        /\ began[w] <= clock /\ clock <= began[w] + 1
    BY <2>1, Stepped DEF WriterStages, Unsaved
  <2>3. WriterOK(w) /\ (write[w].reads => stage[w] = "read")
    BY <2>2 DEF Unsaved, IInv
  <2>4. WriterOK(w)'
    BY <2>1, <2>2, <2>3 DEF WriterOK, Amid
  <2>5. IInv'
    BY <2>1, <2>4, Stepped, Dropped, WriterStep DEF IInv, Shape, WriterStages
  <2>6. QED
    BY <2>1, <2>5, Stepped DEF Register!Next, Register!Other, WriterStages
<1>4. CASE Commit(w)
  <2> DEFINE row == write[w].row
             from == IF write[w].before THEN "dropped" ELSE Unsaved(w)
             to == IF write[w].after \/ write[w].sets THEN "committed" ELSE "idle"
  <2>1. /\ Step(w, from, to)
        /\ ended' = [ended EXCEPT ![row] = Append(@, clock)]
        /\ held' = [held EXCEPT ![w] = Held(w)]
        /\ UNCHANGED <<clock, entry, reading>>
    BY <1>4 DEF Commit
  <2>2. from \in {"dropped", "read", "begun"} /\ to \in WriterStages
    BY DEF Unsaved, WriterStages
  <2>3. /\ row \in Rows /\ write[w] \in Writes /\ stage[w] = from /\ stage'[w] = to
        /\ began[w] <= clock /\ clock <= began[w] + 1
        /\ to # "idle" => write'[w] = write[w] /\ began'[w] = began[w]
        /\ shown' = <<>>
    BY <2>1, <2>2, Stepped
  <2>4. Committing(row)
    BY <2>1 DEF Committing
  <2>5. held'[w] = Held(w)
    BY <2>1 DEF IInv, Shape
  <2>6. write[w].sets => Sound({<<row, Held(w)>>}, began[w], ended')
    <3>1. CASE write[w].reads /\ held[w] # Latest(row)
      <4>1. stage[w] \in {"read", "dropped"}
        BY <2>3, <3>1 DEF Unsaved
      <4>2. Sound({<<row, held[w]>>}, began[w], ended)
        BY <3>1, <4>1 DEF IInv, WriterOK
      <4>3. began[w] \in Int
        BY DEF IInv, Shape
      <4>4. Sound({<<row, held[w]>>}, began[w], ended')
        BY <2>3, <2>4, <4>2, <4>3, SoundKept DEF IInv
      <4>5. QED
        BY <3>1, <4>4 DEF Held
    <3>2. CASE ~(write[w].reads /\ held[w] # Latest(row))
      <4>1. ended[row] \in Seq(Nat) /\ clock \in Nat
        BY <2>3 DEF IInv, Shape
      <4>2. ended'[row] = Append(ended[row], clock)
        BY <2>1, <2>3 DEF IInv, Shape
      <4>3. Len(ended'[row]) = Latest(row) + 1 /\ Latest(row) \in Nat
        BY <4>1, <4>2 DEF Latest
      <4>4. write[w].sets => Held(w) = Latest(row) + 1
        BY <3>2 DEF Held
      <4>5. QED
        BY <2>3, <4>3, <4>4 DEF Sound, Sighting
    <3>3. QED
      BY <3>1, <3>2
  <2>7. WriterOK(w)'
    <3>1. Amid(w)' <=> to # "idle"
      BY <2>3 DEF Amid
    <3>2. Holds(w)' => to = "committed" /\ write'[w] = write[w] /\ write[w].sets
      BY <2>3
    <3>3. QED
      BY <2>1, <2>3, <2>5, <2>6, <3>1, <3>2 DEF WriterOK
  <2>8. IInv'
    <3>1. held' = [x \in Writers |-> held'[x]]
      BY <2>1 DEF IInv, Shape
    <3>2. \A x \in Writers : x # w => held'[x] = held[x]
      BY <2>1 DEF IInv, Shape
    <3>3. entry' = [v \in Views |-> entry'[v]]
      BY <2>1 DEF IInv, Shape
    <3>4. \E r \in Rows : Committing(r)
      BY <2>3, <2>4
    <3>5. /\ stage' \in [Writers -> WriterStages]
          /\ write' \in [Writers -> Writes \cup {NoWrite}]
          /\ began' \in [Procs \cup Writers -> Nat]
          /\ \A p \in Procs \cup Writers : p # w => began'[p] = began[p]
          /\ \A x \in Writers : x # w => write'[x] = write[x] /\ stage'[x] = stage[x]
      BY <2>1, <2>2, Stepped
    <3>6. QED
      BY <2>1, <2>7, <3>1, <3>2, <3>3, <3>4, <3>5, WriterStep
  <2>9. Register!Commit(row)
    BY <2>1, <2>3 DEF Register!Commit
  <2>10. QED
    BY <2>3, <2>8, <2>9 DEF Register!Next
<1>5. CASE DeleteAfter(w)
  <2> DEFINE to == IF write[w].sets THEN "deleted" ELSE "idle"
  <2>1. /\ Step(w, "committed", to) /\ Drop(write[w].keys)
        /\ UNCHANGED <<clock, ended, reading, held>>
    BY <1>5 DEF DeleteAfter
  <2>2. to \in WriterStages
    BY DEF WriterStages
  <2> HIDE DEF to
  <2>3. /\ stage[w] = "committed" /\ stage'[w] = to /\ write[w] \in Writes
        /\ began[w] <= clock /\ clock <= began[w] + 1
        /\ to # "idle" => write'[w] = write[w] /\ began'[w] = began[w]
        /\ shown' = <<>>
        /\ stage' \in [Writers -> WriterStages]
        /\ write' \in [Writers -> Writes \cup {NoWrite}]
        /\ began' \in [Procs \cup Writers -> Nat]
        /\ \A p \in Procs \cup Writers : p # w => began'[p] = began[p]
        /\ \A x \in Writers : x # w => write'[x] = write[x] /\ stage'[x] = stage[x]
    BY <2>1, <2>2, Stepped
  <2> USE DEF to
  <2>4. WriterOK(w)'
    <3>1. WriterOK(w)
      BY DEF IInv
    <3>2. Amid(w)' <=> write[w].sets
      BY <2>3 DEF Amid
    <3>3. QED
      BY <2>1, <2>3, <3>1, <3>2 DEF WriterOK
  <2>5. IInv'
    <3>1. held' = [x \in Writers |-> held'[x]] /\ \A x \in Writers : held'[x] = held[x]
      BY <2>1 DEF IInv, Shape
    <3>2. /\ entry' = [v \in Views |-> entry'[v]]
          /\ \A v \in Views : entry'[v] = entry[v] \/ EntryOK(v)'
      BY <2>1, Dropped
    <3>3. QED
      BY <2>1, <2>3, <2>4, <3>1, <3>2, WriterStep
  <2>6. QED
    BY <2>1, <2>3, <2>5 DEF Register!Next, Register!Other
<1>6. CASE Set(w)
  <2> DEFINE from == IF write[w].after THEN "deleted" ELSE "committed"
             new(v) == [stored |-> TRUE, content |-> {<<write[w].row, held[w]>>},
                        expires |-> clock + Ttl[v], quiet |-> ~disturbed[w]]
  <2>1. /\ Step(w, from, "idle") /\ write[w].sets
        /\ entry' = [v \in Views |-> IF v \in write[w].keys THEN new(v) ELSE entry[v]]
        /\ held' = [held EXCEPT ![w] = 0]
        /\ UNCHANGED <<clock, ended, reading>>
    BY <1>6 DEF Set
  <2>2. /\ from # "dead" /\ "idle" \in WriterStages
    BY DEF WriterStages
  <2>3. /\ stage[w] = from /\ stage'[w] = "idle"
        /\ began[w] <= clock /\ clock <= began[w] + 1
        /\ shown' = <<>>
        /\ stage' \in [Writers -> WriterStages]
        /\ write' \in [Writers -> Writes \cup {NoWrite}]
        /\ began' \in [Procs \cup Writers -> Nat]
        /\ \A p \in Procs \cup Writers : p # w => began'[p] = began[p]
        /\ \A x \in Writers : x # w => write'[x] = write[x] /\ stage'[x] = stage[x]
    BY <2>1, <2>2, Stepped
  <2>4. Sound({<<write[w].row, held[w]>>}, began[w], ended)
    BY <2>1, <2>3 DEF IInv, WriterOK
  <2>5. ASSUME NEW v \in Views
        PROVE  entry'[v] = entry[v] \/ EntryOK(v)'
    <3>1. CASE v \notin write[w].keys
      BY <2>1, <3>1
    <3>2. CASE v \in write[w].keys
      <4>1. /\ entry'[v].expires = clock + Ttl[v]
            /\ entry'[v].content = {<<write[w].row, held[w]>>}
        BY <2>1, <3>2
      <4>2. /\ clock \in Nat /\ began[w] \in Nat /\ Ttl[v] \in Nat /\ Lag[v] \in Nat
            /\ Lag[v] >= Ttl[v] + 1
        BY Times DEF IInv, Shape
      <4>3. clock + Ttl[v] - Lag[v] \in Int /\ clock + Ttl[v] - Lag[v] <= began[w]
        BY <2>3, <4>2
      <4>4. Sound({<<write[w].row, held[w]>>}, clock + Ttl[v] - Lag[v], ended)
        BY <2>4, <4>2, <4>3, SoundEarlier DEF IInv
      <4>5. QED
        BY <2>1, <4>1, <4>2, <4>4 DEF EntryOK
    <3>3. QED
      BY <3>1, <3>2
  <2>6. WriterOK(w)'
    BY <2>3 DEF WriterOK, Amid
  <2>7. IInv'
    <3>1. held' = [x \in Writers |-> held'[x]] /\ \A x \in Writers : x # w => held'[x] = held[x]
      BY <2>1 DEF IInv, Shape
    <3>2. entry' = [v \in Views |-> entry'[v]]
      BY <2>1
    <3>3. QED
      BY <2>1, <2>3, <2>5, <2>6, <3>1, <3>2, WriterStep
  <2>8. QED
    BY <2>1, <2>3, <2>7 DEF Register!Next, Register!Other
<1>7. CASE Die(w)
  <2>1. /\ Amid(w) /\ stage' = [stage EXCEPT ![w] = "dead"] /\ shown' = <<>>
        /\ UNCHANGED <<clock, ended, entry, began, reading, write, held>>
    BY <1>7 DEF Die
  <2>2. stage' \in [Writers -> WriterStages] /\ stage'[w] = "dead"
    BY <2>1 DEF IInv, Shape, WriterStages
  <2>3. \A x \in Writers : x # w => stage'[x] = stage[x]
    BY <2>1 DEF IInv, Shape
  <2>4. write[w] \in Writes
    BY <2>1 DEF IInv, WriterOK
  <2>5. WriterOK(w)'
    BY <2>1, <2>2, <2>4 DEF WriterOK
  <2>6. IInv'
    BY <2>1, <2>2, <2>3, <2>5, WriterStep DEF IInv, Shape
  <2>7. QED
    BY <2>1, <2>6 DEF Register!Next, Register!Other
<1>8. QED
  BY <1>1, <1>2, <1>3, <1>4, <1>5, <1>6, <1>7

-----------------------------------------------------------------------------
(* Every step                                                              *)

LEMMA ReadStep ==
  ASSUME IInv,
         \/ \E v \in Views : Serve(v) \/ Evict(v)
         \/ \E c \in Calls : Miss(c) \/ Answer(c) \/ Raise(c)
         \/ \E p \in Procs : Query(p) \/ InnerHit(p)
         \/ \E p \in Procs, t \in Threads : InnerMiss(p, t)
         \/ \E t \in Threads : HandOver(t)
  PROVE  IInv' /\ [Register!Next]_(Register!vars)
<1>1. ASSUME NEW v \in Views, Serve(v)
      PROVE  IInv' /\ Register!Next
  <2>1. /\ Hit(v) /\ shown' = <<v, entry[v].content>>
        /\ UNCHANGED <<clock, ended, entry, began, reading, writing>>
    BY <1>1 DEF Serve
  <2>2. /\ entry[v].expires \in Nat /\ clock <= entry[v].expires
        /\ Sound(entry[v].content, entry[v].expires - Lag[v], ended)
    BY <2>1 DEF Hit, IInv, EntryOK
  <2>3. Sound(entry[v].content, clock - Lag[v], ended)
    <3>1. /\ clock - Lag[v] \in Int /\ entry[v].expires - Lag[v] \in Int
          /\ clock - Lag[v] <= entry[v].expires - Lag[v]
      BY <2>2, Times DEF IInv, Shape
    <3>2. QED
      BY <2>2, <3>1, SoundEarlier DEF IInv
  <2>4. Register!Reply(v)
    BY <2>1, <2>3, MayReply DEF IInv
  <2>5. Shape'
    BY <2>1 DEF IInv, Shape, reading, writing
  <2>6. \A p \in Procs : ProcOK(p)'
    BY <2>1, ProcKept DEF IInv, reading
  <2>7. \A t \in Threads : ThreadOK(t)'
    BY <2>1, ThreadKept DEF IInv, reading
  <2>8. \A x \in Views : EntryOK(x)'
    BY <2>1, EntryKept DEF IInv
  <2>9. IInv'
    BY <2>1, <2>5, <2>6, <2>7, <2>8, WritersKept DEF IInv
  <2>10. QED
    BY <2>4, <2>9 DEF Register!Next
<1>2. ASSUME NEW v \in Views, Evict(v)
      PROVE  IInv' /\ Register!Next
  <2>1. /\ entry' = [entry EXCEPT ![v] = NoEntry] /\ shown' = <<>>
        /\ UNCHANGED <<clock, ended, began, reading, writing>>
    BY <1>2 DEF Evict
  <2>2. Shape'
    BY <2>1 DEF IInv, Shape, reading, writing
  <2>3. \A p \in Procs : ProcOK(p)'
    BY <2>1, ProcKept DEF IInv, reading
  <2>4. \A t \in Threads : ThreadOK(t)'
    BY <2>1, ThreadKept DEF IInv, reading
  <2>5. ASSUME NEW x \in Views
        PROVE  EntryOK(x)'
    <3>1. CASE x = v
      BY <2>1, <3>1 DEF IInv, Shape, EntryOK, NoEntry
    <3>2. CASE x # v
      BY <2>1, <3>2, EntryKept DEF IInv, Shape
    <3>3. QED
      BY <3>1, <3>2
  <2>6. IInv'
    BY <2>1, <2>2, <2>3, <2>4, <2>5, WritersKept DEF IInv
  <2>7. QED
    BY <2>1, <2>6 DEF Register!Next, Register!Other
<1>3. ASSUME NEW c \in Calls, Miss(c)
      PROVE  IInv' /\ Register!Next
  <2>1. PICK v \in Views : /\ Begin(c, v, Client)
                           /\ todo' = [todo EXCEPT ![c] = Direct[v] \cup Inner[v]]
    BY <1>3 DEF Miss
  <2>2. /\ ~Computing(c) /\ shown' = <<>> /\ UNCHANGED <<clock, ended, entry, got, writing>>
    BY <1>3 DEF Miss
  <2>3. c \in Procs /\ c \notin Threads
    BY ReadThroughAssumption DEF Procs
  <2>4. /\ todo' \in [Procs -> SUBSET (Rows \cup Views)]
        /\ todo'[c] = Direct[v] \cup Inner[v]
        /\ \A q \in Procs \ {c} : todo'[q] \subseteq todo[q]
    BY <2>1, <2>3, Times DEF IInv, Shape
  <2>5. IInv'
    BY <2>1, <2>2, <2>3, <2>4, Begun
  <2>6. QED
    BY <2>2, <2>5 DEF Register!Next, Register!Other
<1>4. ASSUME NEW p \in Procs, NEW t \in Threads, InnerMiss(p, t)
      PROVE  IInv' /\ Register!Next
  <2>1. PICK v \in todo[p] \cap Views :
          /\ Begin(t, v, p)
          /\ todo' = [todo EXCEPT ![p] = @ \ {v}, ![t] = Direct[v] \cup Inner[v]]
    BY <1>4 DEF InnerMiss
  <2>2. /\ Computing(p) /\ ~Computing(t) /\ shown' = <<>>
        /\ UNCHANGED <<clock, ended, entry, got, writing>>
    BY <1>4 DEF InnerMiss
  <2>3. t \in Procs /\ p # t
    BY <2>2 DEF Procs
  <2>4. v \in Inner[asked[p]]
    <3>1. asked[p] \in Views /\ todo[p] \subseteq Direct[asked[p]] \cup Inner[asked[p]]
      BY <2>2, SinceNow DEF IInv, ProcOK
    <3>2. QED
      BY <2>1, <3>1, Times
  <2>5. /\ todo' \in [Procs -> SUBSET (Rows \cup Views)]
        /\ todo'[t] = Direct[v] \cup Inner[v]
        /\ \A q \in Procs \ {t} : todo'[q] \subseteq todo[q]
    BY <2>1, <2>3, Times DEF IInv, Shape
  <2>6. IInv'
    BY <2>1, <2>2, <2>3, <2>4, <2>5, Begun
  <2>7. QED
    BY <2>2, <2>6 DEF Register!Next, Register!Other
<1>5. ASSUME NEW p \in Procs, Query(p)
      PROVE  IInv' /\ Register!Next
  <2>1. PICK row \in Rows : /\ got' = [got EXCEPT ![p] = @ \cup {<<row, Latest(row)>>}]
                            /\ todo' = [todo EXCEPT ![p] = @ \ {row}]
    BY <1>5 DEF Query
  <2>2. /\ Computing(p) /\ shown' = <<>>
        /\ UNCHANGED <<clock, ended, entry, asked, parent, began, writing>>
    BY <1>5 DEF Query
  <2>3. Sound({<<row, Latest(row)>>}, Since(asked[p], began[p]), ended)
    BY SoundLatest DEF IInv
  <2>4. IInv'
    BY <2>1, <2>2, <2>3, ReadMore
  <2>5. QED
    BY <2>2, <2>4 DEF Register!Next, Register!Other
<1>6. ASSUME NEW p \in Procs, InnerHit(p)
      PROVE  IInv' /\ Register!Next
  <2>1. PICK v \in todo[p] \cap Views :
          /\ Hit(v) /\ got' = [got EXCEPT ![p] = @ \cup entry[v].content]
          /\ todo' = [todo EXCEPT ![p] = @ \ {v}]
    BY <1>6 DEF InnerHit
  <2>2. /\ Computing(p) /\ shown' = <<>>
        /\ UNCHANGED <<clock, ended, entry, asked, parent, began, writing>>
    BY <1>6 DEF InnerHit
  <2>3. v \in Views /\ v \in Inner[asked[p]]
    <3>1. asked[p] \in Views /\ todo[p] \subseteq Direct[asked[p]] \cup Inner[asked[p]]
      BY <2>2, SinceNow DEF IInv, ProcOK
    <3>2. QED
      BY <2>1, <3>1, Times
  <2>4. /\ entry[v].expires \in Nat /\ clock <= entry[v].expires
        /\ Sound(entry[v].content, entry[v].expires - Lag[v], ended)
    BY <2>1, <2>3 DEF Hit, IInv, EntryOK
  <2>5. /\ Since(asked[p], began[p]) \in Int
        /\ Since(asked[p], began[p]) <= began[p] - Lag[v]
        /\ began[p] \in Nat /\ began[p] <= clock /\ clock \in Nat /\ Lag[v] \in Nat
    BY <2>2, <2>3, SinceNow, Times DEF IInv, ProcOK, Shape
  <2>6. /\ entry[v].expires - Lag[v] \in Int
        /\ Since(asked[p], began[p]) <= entry[v].expires - Lag[v]
    BY <2>4, <2>5
  <2>7. Sound(entry[v].content, Since(asked[p], began[p]), ended)
    BY <2>4, <2>5, <2>6, SoundEarlier DEF IInv
  <2>8. IInv'
    BY <2>1, <2>2, <2>7, ReadMore
  <2>9. QED
    BY <2>2, <2>8 DEF Register!Next, Register!Other
<1>7. ASSUME NEW c \in Calls, Answer(c)
      PROVE  IInv' /\ Register!Next
  <2>1. c \in Procs /\ Fill(c) /\ shown' = <<asked[c], got[c]>> /\ got' = [got EXCEPT ![c] = {}]
    BY <1>7 DEF Answer, Procs
  <2>2. /\ Ready(c) /\ Finish(c) /\ UNCHANGED <<clock, ended, todo, writing>>
        /\ asked[c] \in Views /\ Sound(got[c], clock - Lag[asked[c]], ended)
        /\ entry' = [v \in Views |-> entry'[v]]
        /\ \A v \in Views : EntryOK(v)'
    BY <2>1, Filled
  <2>3. IInv'
    BY <2>1, <2>2, Finished
  <2>4. Register!Reply(asked[c])
    BY <2>1, <2>2, MayReply DEF IInv
  <2>5. QED
    BY <2>2, <2>3, <2>4 DEF Register!Next
<1>8. ASSUME NEW t \in Threads, HandOver(t)
      PROVE  IInv' /\ Register!Next
  <2>1. /\ t \in Procs /\ Fill(t) /\ shown' = <<>>
        /\ got' = [got EXCEPT ![parent[t]] = @ \cup got[t], ![t] = {}]
    BY <1>8 DEF HandOver, Procs
  <2>2. /\ Ready(t) /\ Finish(t) /\ UNCHANGED <<clock, ended, todo, writing>>
        /\ entry' = [v \in Views |-> entry'[v]]
        /\ \A v \in Views : EntryOK(v)'
    BY <2>1, Filled
  <2>3. IInv'
    BY <2>1, <2>2, Finished
  <2>4. QED
    BY <2>1, <2>2, <2>3 DEF Register!Next, Register!Other
<1>9. ASSUME NEW c \in Calls, Raise(c)
      PROVE  IInv' /\ Register!Next
  <2>1. /\ c \in Procs /\ Ready(c) /\ Finish(c) /\ shown' = <<>>
        /\ got' = [got EXCEPT ![c] = {}]
        /\ UNCHANGED <<clock, ended, entry, todo, writing>>
    BY <1>9 DEF Raise, Procs
  <2>2. \A v \in Views : EntryOK(v)'
    BY <2>1, EntryKept DEF IInv
  <2>3. entry' = [v \in Views |-> entry'[v]]
    BY <2>1 DEF IInv, Shape
  <2>4. IInv'
    BY <2>1, <2>2, <2>3, Finished
  <2>5. QED
    BY <2>1, <2>4 DEF Register!Next, Register!Other
<1>10. QED
  BY <1>1, <1>2, <1>3, <1>4, <1>5, <1>6, <1>7, <1>8, <1>9

LEMMA TickStep ==
  ASSUME IInv, Tick
  PROVE  IInv' /\ Register!Next
<1>1. /\ clock' = clock + 1 /\ clock \in Nat /\ shown' = <<>>
      /\ UNCHANGED <<ended, entry, began, reading, writing>>
  BY DEF Tick, IInv, Shape
<1>2. /\ \A p \in Procs : Computing(p) => began[p] = clock
      /\ \A w \in Writers : Amid(w) /\ stage[w] # "dead" => began[w] = clock
  BY DEF Tick
<1>3. Shape'
  BY <1>1 DEF IInv, Shape, reading, writing
<1>4. \A v \in Views : EntryOK(v)'
  BY <1>1, Times DEF IInv, EntryOK
<1>5. \A p \in Procs : ProcOK(p)'
  BY <1>1, <1>2 DEF IInv, ProcOK, Computing, reading
<1>6. \A t \in Threads : ThreadOK(t)'
  BY <1>1, ThreadKept DEF IInv, reading
<1>7. \A w \in Writers : WriterOK(w)'
  <2> SUFFICES ASSUME NEW w \in Writers PROVE WriterOK(w)'
    OBVIOUS
  <2>1. /\ stage' = stage /\ write' = write /\ held' = held /\ began' = began
        /\ ended' = ended /\ clock' = clock + 1 /\ clock \in Nat
    BY <1>1 DEF writing
  <2>2. /\ Amid(w) => write[w] \in Writes
        /\ Holds(w) => Sound({<<write[w].row, held[w]>>}, began[w], ended)
    BY DEF IInv, WriterOK
  <2>3. (Amid(w)' <=> Amid(w)) /\ (Holds(w)' <=> Holds(w))
    BY <2>1 DEF Amid, Holds
  <2>4. /\ (Amid(w) => write[w] \in Writes)'
        /\ (Holds(w) => Sound({<<write[w].row, held[w]>>}, began[w], ended))'
    BY <2>1, <2>2, <2>3
  <2>5. (Amid(w) /\ stage[w] # "dead" => began[w] <= clock /\ clock <= began[w] + 1)'
    BY <1>2, <2>1, <2>3
  <2>6. QED
    BY <2>4, <2>5 DEF WriterOK
<1>8. QED
  BY <1>1, <1>3, <1>4, <1>5, <1>6, <1>7 DEF IInv, Register!Next, Register!Tick

LEMMA NextStep ==
  ASSUME IInv, [Next]_vars
  PROVE  IInv' /\ [Register!Next]_(Register!vars)
<1>1. CASE UNCHANGED vars
  <2>1. UNCHANGED <<clock, ended, shown, entry, began, reading, writing>>
    BY <1>1 DEF vars, reading, writing
  <2>2. Shape'
    BY <2>1 DEF IInv, Shape, reading, writing
  <2>3. \A v \in Views : EntryOK(v)'
    BY <2>1, EntryKept DEF IInv
  <2>4. \A p \in Procs : ProcOK(p)'
    BY <2>1, ProcKept DEF IInv, reading
  <2>5. \A t \in Threads : ThreadOK(t)'
    BY <2>1, ThreadKept DEF IInv, reading
  <2>6. QED
    BY <2>1, <2>2, <2>3, <2>4, <2>5, WritersKept DEF IInv, Register!vars
<1>2. QED
  BY <1>1, ReadStep, WriteStep, TickStep DEF Next

LEMMA CachesBegin == Init => IInv
<1> SUFFICES ASSUME Init PROVE IInv
  OBVIOUS
<1>1. Shape
  BY ReadThroughAssumption DEF Init, Shape, WriterStages
<1>2. \A v \in Views : EntryOK(v)
  BY DEF Init, EntryOK, NoEntry
<1>3. \A p \in Procs : ProcOK(p)
  BY DEF Init, ProcOK, Computing
<1>4. \A t \in Threads : ThreadOK(t)
  BY DEF Init, ThreadOK, Computing, Procs
<1>5. \A w \in Writers : WriterOK(w)
  BY DEF Init, WriterOK, Amid, Holds
<1>6. QED
  BY <1>1, <1>2, <1>3, <1>4, <1>5 DEF IInv

\* What the caches show is bounded in age: the reads and writes through them
\* implement StaleRegister, whatever they interleave with, drop or leave behind.
THEOREM CachesImplementRegister == Spec => BoundedStaleness
<1>1. Init => IInv
  BY CachesBegin
<1>2. Init => Register!Init
  BY DEF Init, Register!Init
<1>3. IInv /\ [Next]_vars => IInv' /\ [Register!Next]_(Register!vars)
  BY NextStep
<1>4. QED
  BY <1>1, <1>2, <1>3, PTL DEF Spec, BoundedStaleness, Register!Spec


-----------------------------------------------------------------------------
(* What nothing disturbs is current                                        *)

Current(content) == \A s \in content : s[2] = Latest(s[1])
About(content, v) == \A s \in content : s[1] \in Direct[v]

\* A write of a row of the view is about to take care of its key, or died.
Overtaken(v) ==
  \/ \E w \in Writers : stage[w] = "dead"
  \/ \E w \in Writers : /\ stage[w] = "committed" /\ write[w].row \in Direct[v]
                        /\ write[w].after \/ write[w].sets

Exact(v) ==
  v \in Guarded /\ entry[v].stored =>
    /\ About(entry[v].content, v)
    /\ entry[v].quiet => Current(entry[v].content) \/ Overtaken(v)

\* Whom nothing disturbs reads what is current, for no one writes.
Undisturbed(p) ==
  Computing(p) =>
    /\ asked[p] \in Guarded => About(got[p], asked[p])
    /\ ~disturbed[p] => /\ \A w \in Writers : ~Amid(w)
                        /\ asked[p] \in Guarded => Current(got[p])

Alone(w) ==
  Amid(w) /\ ~disturbed[w] =>
    /\ \A x \in Writers : Amid(x) => x = w
    /\ Holds(w) => held[w] = Latest(write[w].row)

\* Nothing quiet is stored between a delete and its commit.
Cleared(w) ==
  stage[w] = "dropped" =>
    \A v \in Guarded \cap write[w].keys : ~(entry[v].stored /\ entry[v].quiet)

QuietInv ==
  /\ disturbed \in [Procs \cup Writers -> BOOLEAN]
  /\ \A v \in Views : Exact(v)
  /\ \A p \in Procs : Undisturbed(p)
  /\ \A w \in Writers : Alone(w) /\ Cleared(w)

LEMMA ExactKept ==
  ASSUME NEW v \in Views, Exact(v), UNCHANGED ended, entry'[v] = entry[v] \/ entry'[v] = NoEntry,
         Overtaken(v) => Overtaken(v)'
  PROVE  Exact(v)'
  BY DEF Exact, NoEntry, About, Current, Latest

LEMMA UndisturbedKept ==
  ASSUME NEW p \in Procs, Undisturbed(p), UNCHANGED ended, asked'[p] = asked[p],
         got'[p] = got[p] \/ asked[p] \notin Guarded, disturbed'[p] = disturbed[p],
         ~disturbed[p] => \A w \in Writers : Amid(w)' => Amid(w)
  PROVE  Undisturbed(p)'
  BY DEF Undisturbed, Computing, About, Current, Latest

LEMMA AloneKept ==
  ASSUME QuietInv, UNCHANGED <<ended, writing>>, \A w \in Writers : disturbed'[w] = disturbed[w]
  PROVE  \A w \in Writers : Alone(w)'
  BY DEF QuietInv, Alone, Amid, Holds, Latest, writing

LEMMA ClearedKept ==
  ASSUME NEW w \in Writers, Cleared(w), stage'[w] = stage[w], write'[w] = write[w],
         \A v \in Guarded : \/ entry'[v] = entry[v]
                            \/ ~(entry'[v].stored /\ entry'[v].quiet)
                            \/ stage[w] = "idle"
  PROVE  Cleared(w)'
  BY DEF Cleared

\* Nothing that matters to what is quiet moves.
LEMMA AtRest ==
  ASSUME QuietInv, UNCHANGED <<ended, asked, got, disturbed, writing>>,
         \A v \in Views : entry'[v] = entry[v] \/ entry'[v] = NoEntry
  PROVE  QuietInv'
<1>1. \A v \in Views : Overtaken(v) => Overtaken(v)'
  BY DEF Overtaken, writing
<1>2. \A v \in Views : Exact(v)'
  BY <1>1, ExactKept DEF QuietInv
<1>3. \A p \in Procs : Undisturbed(p)'
  BY UndisturbedKept DEF QuietInv, Amid, writing
<1>4. \A w \in Writers : Alone(w)'
  BY AloneKept
<1>5. \A w \in Writers : Cleared(w)'
  BY ClearedKept, ReadThroughAssumption DEF QuietInv, NoEntry, writing
<1>6. QED
  BY <1>2, <1>3, <1>4, <1>5 DEF QuietInv

LEMMA BegunQuiet ==
  ASSUME IInv, QuietInv, NEW p \in Procs, NEW v \in Views, ~Computing(p), NEW for,
         Begin(p, v, for), UNCHANGED <<ended, entry, got, writing>>
  PROVE  QuietInv'
<1>1. /\ \A q \in Procs : asked'[q] = IF q = p THEN v ELSE asked[q]
      /\ \A q \in Procs \cup Writers :
           disturbed'[q] = IF q = p THEN \E w \in Writers : Amid(w) ELSE disturbed[q]
      /\ disturbed' \in [Procs \cup Writers -> BOOLEAN]
  BY DEF Begin, QuietInv, IInv, Shape
<1>2. got'[p] = {}
  BY DEF IInv, ProcOK
<1>3. \A w \in Writers : Amid(w)' <=> Amid(w)
  BY DEF Amid, writing
<1>4. \A q \in Procs : Undisturbed(q)'
  <2> SUFFICES ASSUME NEW q \in Procs PROVE Undisturbed(q)'
    OBVIOUS
  <2>1. CASE q = p
    BY <1>1, <1>2, <1>3, <2>1 DEF Undisturbed, About, Current
  <2>2. CASE q # p
    BY <1>1, <1>3, <2>2, UndisturbedKept DEF QuietInv
  <2>3. QED
    BY <2>1, <2>2
<1>5. \A w \in Writers : Alone(w)'
  BY <1>1, AloneKept, ReadThroughAssumption
<1>6. \A w \in Writers : Cleared(w)'
  BY ClearedKept DEF QuietInv, writing
<1>7. \A x \in Views : Exact(x)'
  <2>1. \A x \in Views : Overtaken(x) => Overtaken(x)'
    BY DEF Overtaken, writing
  <2>2. QED
    BY <2>1, ExactKept DEF QuietInv
<1>8. QED
  BY <1>1, <1>4, <1>5, <1>6, <1>7 DEF QuietInv

\* A guarded view reads rows only.
LEMMA ReadsRows ==
  ASSUME GuardsAreKept, IInv, NEW p \in Procs, Computing(p), asked[p] \in Guarded
  PROVE  todo[p] \subseteq Direct[asked[p]] /\ todo[p] \cap Views = {}
  BY ReadThroughAssumption DEF GuardsAreKept, IInv, ProcOK

LEMMA ReadMoreQuiet ==
  ASSUME IInv, QuietInv, NEW p \in Procs, Computing(p), NEW content,
         got' = [got EXCEPT ![p] = @ \cup content],
         asked[p] \in Guarded => About(content, asked[p]) /\ Current(content),
         UNCHANGED <<ended, entry, asked, disturbed, writing>>
  PROVE  QuietInv'
<1>1. \A q \in Procs : got'[q] = IF q = p THEN got[p] \cup content ELSE got[q]
  BY DEF IInv, Shape
<1>2. \A w \in Writers : Amid(w)' <=> Amid(w)
  BY DEF Amid, writing
<1>3. \A q \in Procs : Undisturbed(q)'
  <2> SUFFICES ASSUME NEW q \in Procs PROVE Undisturbed(q)'
    OBVIOUS
  <2>1. CASE q = p
    BY <1>1, <1>2, <2>1 DEF QuietInv, Undisturbed, Computing, About, Current, Latest
  <2>2. CASE q # p
    BY <1>1, <1>2, <2>2, UndisturbedKept DEF QuietInv
  <2>3. QED
    BY <2>1, <2>2
<1>4. \A w \in Writers : Alone(w)'
  BY AloneKept
<1>5. \A w \in Writers : Cleared(w)'
  BY ClearedKept DEF QuietInv, writing
<1>6. \A x \in Views : Exact(x)'
  <2>1. \A x \in Views : Overtaken(x) => Overtaken(x)'
    BY DEF Overtaken, writing
  <2>2. QED
    BY <2>1, ExactKept DEF QuietInv
<1>7. QED
  BY <1>3, <1>4, <1>5, <1>6 DEF QuietInv

\* A computation that ends leaves what it has read, or nothing, in the cache.
LEMMA FinishedQuiet ==
  ASSUME GuardsAreKept, IInv, QuietInv, NEW p \in Procs, Computing(p), Finish(p),
         UNCHANGED <<ended, writing>>,
         \A q \in Procs : \/ q = p
                          \/ got'[q] = got[q]
                          \/ Computing(q) /\ asked[p] \in Inner[asked[q]],
         \A v \in Views :
           \/ entry'[v] = entry[v]
           \/ v = asked[p] /\ entry'[v].content = got[p] /\ entry'[v].quiet = ~disturbed[p]
  PROVE  QuietInv'
<1>1. /\ \A q \in Procs : asked'[q] = IF q = p THEN NoView ELSE asked[q]
      /\ \A q \in Procs \cup Writers :
           disturbed'[q] = IF q = p THEN FALSE ELSE disturbed[q]
      /\ disturbed' \in [Procs \cup Writers -> BOOLEAN]
  BY DEF Finish, QuietInv, IInv, Shape
<1>2. \A w \in Writers : Amid(w)' <=> Amid(w)
  BY DEF Amid, writing
<1>3. \A q \in Procs : Undisturbed(q)'
  <2> SUFFICES ASSUME NEW q \in Procs PROVE Undisturbed(q)'
    OBVIOUS
  <2>1. CASE q = p
    BY <1>1, <2>1 DEF Undisturbed, Computing
  <2>2. CASE q # p
    <3>1. got'[q] = got[q] \/ asked[q] \notin Guarded
      BY <2>2 DEF GuardsAreKept
    <3>2. QED
      BY <1>1, <1>2, <2>2, <3>1, UndisturbedKept DEF QuietInv
  <2>3. QED
    BY <2>1, <2>2
<1>4. \A w \in Writers : Alone(w)'
  BY <1>1, AloneKept, ReadThroughAssumption
<1>5. ~disturbed[p] => \A w \in Writers : ~Amid(w)
  BY DEF QuietInv, Undisturbed
<1>6. ASSUME NEW w \in Writers
      PROVE  Cleared(w)'
  <2>1. \A v \in Guarded : \/ entry'[v] = entry[v]
                           \/ ~(entry'[v].stored /\ entry'[v].quiet)
                           \/ stage[w] = "idle"
    BY <1>5, ReadThroughAssumption DEF Amid
  <2>2. stage'[w] = stage[w] /\ write'[w] = write[w]
    BY DEF writing
  <2>3. QED
    BY <2>1, <2>2, ClearedKept DEF QuietInv
<1>7. ASSUME NEW v \in Views
      PROVE  Exact(v)'
  <2>1. Overtaken(v) => Overtaken(v)'
    BY DEF Overtaken, writing
  <2>2. CASE entry'[v] = entry[v]
    BY <2>1, <2>2, ExactKept DEF QuietInv
  <2>3. CASE v = asked[p] /\ entry'[v].content = got[p] /\ entry'[v].quiet = ~disturbed[p]
    BY <2>3 DEF QuietInv, Undisturbed, Exact, About, Current, Latest
  <2>4. QED
    BY <2>2, <2>3
<1>8. QED
  BY <1>1, <1>3, <1>4, <1>6, <1>7 DEF QuietInv

LEMMA ReadStepQuiet ==
  ASSUME GuardsAreKept, IInv, QuietInv,
         \/ \E v \in Views : Serve(v) \/ Evict(v)
         \/ \E c \in Calls : Miss(c) \/ Answer(c) \/ Raise(c)
         \/ \E p \in Procs : Query(p) \/ InnerHit(p)
         \/ \E p \in Procs, t \in Threads : InnerMiss(p, t)
         \/ \E t \in Threads : HandOver(t)
  PROVE  QuietInv'
<1>1. ASSUME NEW v \in Views, Serve(v) \/ Evict(v)
      PROVE  QuietInv'
  <2>1. /\ UNCHANGED <<ended, asked, got, disturbed, writing>>
        /\ entry' = entry \/ entry' = [entry EXCEPT ![v] = NoEntry]
    BY <1>1 DEF Serve, Evict, reading
  <2>2. \A x \in Views : entry'[x] = entry[x] \/ entry'[x] = NoEntry
    BY <2>1 DEF IInv, Shape
  <2>3. QED
    BY <2>1, <2>2, AtRest
<1>2. ASSUME NEW c \in Calls, Miss(c)
      PROVE  QuietInv'
  <2>1. c \in Procs
    BY DEF Procs
  <2>2. QED
    BY <1>2, <2>1, BegunQuiet DEF Miss
<1>3. ASSUME NEW p \in Procs, NEW t \in Threads, InnerMiss(p, t)
      PROVE  QuietInv'
  <2>1. t \in Procs
    BY DEF Procs
  <2>2. QED
    BY <1>3, <2>1, BegunQuiet DEF InnerMiss
<1>4. ASSUME NEW p \in Procs, Query(p)
      PROVE  QuietInv'
  <2>1. PICK row \in todo[p] : got' = [got EXCEPT ![p] = @ \cup {<<row, Latest(row)>>}]
    BY <1>4 DEF Query
  <2>2. Computing(p) /\ UNCHANGED <<ended, entry, asked, disturbed, writing>>
    BY <1>4 DEF Query
  <2>3. asked[p] \in Guarded => /\ About({<<row, Latest(row)>>}, asked[p])
                                /\ Current({<<row, Latest(row)>>})
    BY <2>1, <2>2, ReadsRows DEF About, Current
  <2>4. QED
    BY <2>1, <2>2, <2>3, ReadMoreQuiet
<1>5. ASSUME NEW p \in Procs, InnerHit(p)
      PROVE  QuietInv'
  <2>1. PICK v \in todo[p] \cap Views : got' = [got EXCEPT ![p] = @ \cup entry[v].content]
    BY <1>5 DEF InnerHit
  <2>2. Computing(p) /\ UNCHANGED <<ended, entry, asked, disturbed, writing>>
    BY <1>5 DEF InnerHit
  <2>3. asked[p] \notin Guarded
    BY <2>1, <2>2, ReadsRows
  <2>4. QED
    BY <2>1, <2>2, <2>3, ReadMoreQuiet
<1>6. ASSUME NEW p \in Procs, Ready(p), Finish(p), UNCHANGED <<ended, writing>>,
             \/ got' = [got EXCEPT ![p] = {}]
             \/ p \in Threads /\ got' = [got EXCEPT ![parent[p]] = @ \cup got[p], ![p] = {}],
             entry' = entry \/ Fill(p)
      PROVE  QuietInv'
  <2>1. Computing(p)
    BY <1>6 DEF Ready
  <2>2. \A q \in Procs : \/ q = p
                         \/ got'[q] = got[q]
                         \/ Computing(q) /\ asked[p] \in Inner[asked[q]]
    <3>1. CASE got' = [got EXCEPT ![p] = {}]
      BY <3>1 DEF IInv, Shape
    <3>2. CASE p \in Threads /\ got' = [got EXCEPT ![parent[p]] = @ \cup got[p], ![p] = {}]
      <4>1. Computing(parent[p]) /\ asked[p] \in Inner[asked[parent[p]]]
        BY <2>1, <3>2 DEF IInv, ThreadOK
      <4>2. \A q \in Procs : q = p \/ q = parent[p] \/ got'[q] = got[q]
        BY <3>2 DEF IInv, Shape
      <4>3. QED
        BY <4>1, <4>2
    <3>3. QED
      BY <1>6, <3>1, <3>2
  <2>3. \A v \in Views :
          \/ entry'[v] = entry[v]
          \/ v = asked[p] /\ entry'[v].content = got[p] /\ entry'[v].quiet = ~disturbed[p]
    BY <1>6 DEF Fill, IInv, Shape
  <2>4. QED
    BY <1>6, <2>1, <2>2, <2>3, FinishedQuiet
<1>7. ASSUME NEW c \in Calls, Answer(c) \/ Raise(c)
      PROVE  QuietInv'
  <2>1. c \in Procs
    BY DEF Procs
  <2>2. QED
    BY <1>6, <1>7, <2>1 DEF Answer, Raise, Fill
<1>8. ASSUME NEW t \in Threads, HandOver(t)
      PROVE  QuietInv'
  <2>1. t \in Procs
    BY DEF Procs
  <2>2. QED
    BY <1>6, <1>8, <2>1 DEF HandOver, Fill
<1>9. QED
  BY <1>1, <1>2, <1>3, <1>4, <1>5, <1>7, <1>8

\* A step of a write that has begun: what is under way is disturbed by it.
LEMMA WriterStepQuiet ==
  ASSUME IInv, QuietInv, NEW w \in Writers, Amid(w),
         UNCHANGED <<asked, got>>,
         \A x \in Writers : x # w => /\ stage'[x] = stage[x] /\ write'[x] = write[x]
                                     /\ held'[x] = held[x],
         disturbed' \in [Procs \cup Writers -> BOOLEAN],
         \A q \in Procs \cup Writers : q # w => disturbed'[q] = disturbed[q],
         Alone(w)', Cleared(w)',
         \A v \in Guarded : \/ entry'[v] = entry[v]
                            \/ ~(entry'[v].stored /\ entry'[v].quiet)
                            \/ \A x \in Writers : Amid(x) => x = w,
         \A v \in Views : Exact(v)'
  PROVE  QuietInv'
<1>1. \A p \in Procs : Undisturbed(p)'
  <2> SUFFICES ASSUME NEW p \in Procs PROVE Undisturbed(p)'
    OBVIOUS
  <2>1. Computing(p) => disturbed[p]
    BY DEF QuietInv, Undisturbed
  <2>2. disturbed'[p] = disturbed[p]
    BY ReadThroughAssumption
  <2>3. QED
    BY <2>1, <2>2 DEF QuietInv, Undisturbed, Computing, About
<1>2. ASSUME NEW x \in Writers, x # w
      PROVE  Alone(x)'
  <2>1. Amid(x) => disturbed[x]
    BY <1>2 DEF QuietInv, Alone
  <2>2. QED
    BY <1>2, <2>1 DEF Alone, Amid
<1>3. ASSUME NEW x \in Writers, x # w
      PROVE  Cleared(x)'
  BY <1>3 DEF QuietInv, Cleared, Amid
<1>4. QED
  BY <1>1, <1>2, <1>3 DEF QuietInv

LEMMA SteppedQuiet ==
  ASSUME IInv, QuietInv, NEW w \in Writers, NEW from, NEW to, Step(w, from, to)
  PROVE  /\ Amid(w) /\ stage[w] = from /\ stage'[w] = to
         /\ \A x \in Writers : x # w => stage'[x] = stage[x] /\ write'[x] = write[x]
         /\ disturbed' \in [Procs \cup Writers -> BOOLEAN]
         /\ \A q \in Procs \cup Writers : q # w => disturbed'[q] = disturbed[q]
         /\ to # "idle" => disturbed'[w] = disturbed[w] /\ write'[w] = write[w]
  BY DEF Step, IInv, Shape, QuietInv

LEMMA StartQuiet ==
  ASSUME IInv, QuietInv, NEW w \in Writers, Start(w)
  PROVE  QuietInv'
<1>1. /\ stage[w] = "idle" /\ UNCHANGED <<ended, entry, asked, got>>
      /\ \A x \in Writers : stage'[x] = IF x = w THEN "begun" ELSE stage[x]
      /\ \A x \in Writers : x # w => write'[x] = write[x] /\ held'[x] = held[x]
  BY DEF Start, reading, IInv, Shape
<1>2. \A q \in Procs \cup Writers : disturbed'[q] =
        IF q = w THEN \E x \in Writers : Amid(x)
        ELSE disturbed[q] \/ (IF q \in Writers THEN Amid(q) ELSE Computing(q))
  BY DEF Start
<1>3. disturbed' \in [Procs \cup Writers -> BOOLEAN]
  BY DEF Start, QuietInv, Amid, Computing
<1>4. ASSUME NEW p \in Procs
      PROVE  Undisturbed(p)'
  <2>1. Computing(p) => disturbed'[p]
    <3>1. p # w /\ p \notin Writers
      BY ReadThroughAssumption
    <3>2. QED
      BY <1>2, <3>1
  <2>2. QED
    BY <1>1, <2>1 DEF QuietInv, Undisturbed, Computing, About
<1>5. ASSUME NEW x \in Writers
      PROVE  Alone(x)'
  <2>1. CASE x = w
    BY <1>1, <1>2, <2>1 DEF Alone, Amid, Holds
  <2>2. CASE x # w
    BY <1>1, <1>2, <2>2 DEF Alone, Amid
  <2>3. QED
    BY <2>1, <2>2
<1>6. ASSUME NEW x \in Writers
      PROVE  Cleared(x)'
  BY <1>1 DEF QuietInv, Cleared
<1>7. \A v \in Views : Exact(v)'
  <2>1. \A v \in Views : Overtaken(v) => Overtaken(v)'
    BY <1>1 DEF Overtaken
  <2>2. QED
    BY <1>1, <2>1, ExactKept DEF QuietInv
<1>8. QED
  BY <1>3, <1>4, <1>5, <1>6, <1>7 DEF QuietInv

\* A delete, or a set, ends what a commit of the same write has overtaken.
LEMMA OvertakenByOthers ==
  ASSUME GuardsAreKept, IInv, NEW w \in Writers, Amid(w), NEW v \in Guarded, Overtaken(v),
         stage[w] # "dead",
         \A x \in Writers : x # w => stage'[x] = stage[x] /\ write'[x] = write[x],
         stage[w] # "committed" \/ v \notin write[w].keys
  PROVE  Overtaken(v)'
<1>1. stage[w] = "committed" => write[w].row \notin Direct[v]
  BY DEF GuardsAreKept, IInv, WriterOK
<1>2. QED
  BY <1>1 DEF Overtaken

LEMMA WriteStepQuiet ==
  ASSUME GuardsAreKept, IInv, QuietInv, NEW w \in Writers,
         \/ Start(w) \/ Read(w) \/ DeleteBefore(w) \/ Commit(w) \/ DeleteAfter(w)
         \/ Set(w) \/ Die(w)
  PROVE  QuietInv'
<1>1. CASE Read(w)
  <2>1. /\ Step(w, "begun", "read") /\ UNCHANGED <<ended, entry, asked, got>>
        /\ held' = [held EXCEPT ![w] = Latest(write[w].row)]
    BY <1>1 DEF Read, reading
  <2>2. /\ Amid(w) /\ stage[w] = "begun" /\ stage'[w] = "read"
        /\ \A x \in Writers : x # w => stage'[x] = stage[x] /\ write'[x] = write[x]
        /\ disturbed' \in [Procs \cup Writers -> BOOLEAN]
        /\ \A q \in Procs \cup Writers : q # w => disturbed'[q] = disturbed[q]
        /\ disturbed'[w] = disturbed[w] /\ write'[w] = write[w]
    BY <2>1, SteppedQuiet
  <2>3. /\ \A x \in Writers : x # w => held'[x] = held[x]
        /\ held'[w] = Latest(write[w].row)
    BY <2>1 DEF IInv, Shape
  <2>4. Alone(w)'
    BY <2>1, <2>2, <2>3 DEF QuietInv, Alone, Amid, Holds, Latest
  <2>5. Cleared(w)'
    BY <2>2 DEF Cleared
  <2>6. \A v \in Views : Exact(v)'
    <3>1. \A v \in Views : Overtaken(v) => Overtaken(v)'
      BY <2>2 DEF Overtaken
    <3>2. QED
      BY <2>1, <3>1, ExactKept DEF QuietInv
  <2>7. QED
    BY <2>1, <2>2, <2>3, <2>4, <2>5, <2>6, WriterStepQuiet
<1>2. CASE DeleteBefore(w)
  <2>1. /\ Step(w, Unsaved(w), "dropped") /\ Drop(write[w].keys)
        /\ UNCHANGED <<ended, asked, got, held>>
    BY <1>2 DEF DeleteBefore, reading
  <2>2. /\ Amid(w) /\ stage[w] = Unsaved(w) /\ stage'[w] = "dropped"
        /\ \A x \in Writers : x # w => stage'[x] = stage[x] /\ write'[x] = write[x]
        /\ disturbed' \in [Procs \cup Writers -> BOOLEAN]
        /\ \A q \in Procs \cup Writers : q # w => disturbed'[q] = disturbed[q]
        /\ disturbed'[w] = disturbed[w] /\ write'[w] = write[w]
    BY <2>1, SteppedQuiet DEF Unsaved
  <2>3. \A v \in Views : entry'[v] = IF v \in write[w].keys THEN NoEntry ELSE entry[v]
    BY <2>1 DEF Drop
  <2>4. Alone(w)'
    BY <2>1, <2>2 DEF QuietInv, Alone, Amid, Holds, Unsaved, Latest
  <2>5. Cleared(w)'
    BY <2>2, <2>3, ReadThroughAssumption DEF Cleared, NoEntry
  <2>6. \A v \in Views : Exact(v)'
    <3>1. \A v \in Views : Overtaken(v) => Overtaken(v)'
      BY <2>2 DEF Overtaken, Unsaved
    <3>2. QED
      BY <2>1, <2>3, <3>1, ExactKept DEF QuietInv
  <2>7. \A v \in Guarded : entry'[v] = entry[v] \/ ~entry'[v].stored
    BY <2>3, ReadThroughAssumption DEF NoEntry
  <2>8. QED
    BY <2>1, <2>2, <2>4, <2>5, <2>6, <2>7, WriterStepQuiet
<1>3. CASE Commit(w)
  <2> DEFINE from == IF write[w].before THEN "dropped" ELSE Unsaved(w)
             to == IF write[w].after \/ write[w].sets THEN "committed" ELSE "idle"
             row == write[w].row
  <2>1. /\ Step(w, from, to) /\ UNCHANGED <<entry, asked, got>>
        /\ ended' = [ended EXCEPT ![row] = Append(@, clock)]
        /\ held' = [held EXCEPT ![w] = Held(w)]
    BY <1>3 DEF Commit, reading
  <2>2. /\ Amid(w) /\ stage[w] = from /\ stage'[w] = to
        /\ \A x \in Writers : x # w => stage'[x] = stage[x] /\ write'[x] = write[x]
        /\ disturbed' \in [Procs \cup Writers -> BOOLEAN]
        /\ \A q \in Procs \cup Writers : q # w => disturbed'[q] = disturbed[q]
        /\ to # "idle" => disturbed'[w] = disturbed[w] /\ write'[w] = write[w]
    <3>1. from \in {"dropped", "read", "begun"} /\ to \in WriterStages
      BY DEF Unsaved, WriterStages
    <3>2. QED
      BY <2>1, <3>1, SteppedQuiet
  <2>3. /\ \A x \in Writers : x # w => held'[x] = held[x]
        /\ held'[w] = Held(w)
    BY <2>1 DEF IInv, Shape
  <2>4. /\ write[w] \in Writes /\ row \in Rows
        /\ \A r \in Rows : r # row => Latest(r)' = Latest(r)
        /\ Latest(row) \in Nat /\ Len(ended'[row]) = Latest(row) + 1
    <3>1. write[w] \in Writes /\ row \in Rows
      <4>1. write[w] \in Writes
        BY <2>2 DEF IInv, WriterOK
      <4>2. QED
        BY <4>1, ReadThroughAssumption DEF Write
    <3>2. \A r \in Rows : r # row => Latest(r)' = Latest(r)
      BY <2>1, <3>1 DEF IInv, Shape, Latest
    <3>3. ended[row] \in Seq(Nat) /\ clock \in Nat /\ ended'[row] = Append(ended[row], clock)
      BY <2>1, <3>1 DEF IInv, Shape
    <3>4. QED
      BY <3>1, <3>2, <3>3 DEF Latest
  <2>5. Alone(w)'
    <3> SUFFICES ASSUME Amid(w)', ~disturbed'[w]
                 PROVE  /\ \A x \in Writers : Amid(x)' => x = w
                        /\ Holds(w)' => held'[w] = Latest(write[w].row)'
      BY DEF Alone
    <3>1. to = "committed" /\ disturbed'[w] = disturbed[w] /\ write'[w] = write[w]
      BY <2>2 DEF Amid
    <3>2. \A x \in Writers : Amid(x)' => x = w
      BY <2>2, <3>1 DEF QuietInv, Alone, Amid
    <3>3. write[w].reads => Holds(w)
      BY <2>2 DEF Holds, Unsaved
    <3>4. write[w].reads => held[w] = Latest(row)
      BY <2>2, <3>1, <3>3 DEF QuietInv, Alone
    <3>5. write[w].sets => held'[w] = Latest(row) + 1
      BY <2>3, <3>4 DEF Held
    <3>6. Holds(w)' => write[w].sets
      BY <2>2, <3>1 DEF Holds
    <3>7. QED
      BY <2>4, <3>1, <3>2, <3>5, <3>6 DEF Latest
  <2>6. Cleared(w)'
    BY <2>2 DEF Cleared
  <2>7. ASSUME NEW v \in Views
        PROVE  Exact(v)'
    <3>1. Overtaken(v) => Overtaken(v)'
      BY <2>2 DEF Overtaken, Unsaved
    <3>2. CASE row \notin Direct[v]
      <4>1. \A s \in entry[v].content : s[1] \in Direct[v] => Latest(s[1])' = Latest(s[1])
        BY <2>4, <3>2, ReadThroughAssumption
      <4>2. QED
        BY <2>1, <3>1, <4>1 DEF QuietInv, Exact, About, Current
    <3>3. CASE row \in Direct[v] /\ v \in Guarded
      <4>1. v \in write[w].keys /\ (write[w].before \/ write[w].after \/ write[w].sets)
        BY <2>4, <3>3 DEF GuardsAreKept
      <4>2. CASE write[w].before
        BY <2>1, <2>2, <3>3, <4>1, <4>2 DEF QuietInv, Cleared, Exact, About
      <4>3. CASE write[w].after \/ write[w].sets
        <5>1. Overtaken(v)'
          BY <2>2, <3>3, <4>3 DEF Overtaken
        <5>2. QED
          BY <2>1, <5>1 DEF QuietInv, Exact, About
      <4>4. QED
        BY <4>1, <4>2, <4>3
    <3>4. QED
      BY <3>2, <3>3 DEF Exact
  <2>8. QED
    BY <2>1, <2>2, <2>3, <2>5, <2>6, <2>7, WriterStepQuiet
<1>4. CASE DeleteAfter(w)
  <2> DEFINE to == IF write[w].sets THEN "deleted" ELSE "idle"
  <2>1. /\ Step(w, "committed", to) /\ Drop(write[w].keys)
        /\ UNCHANGED <<ended, asked, got, held>>
    BY <1>4 DEF DeleteAfter, reading
  <2>2. /\ Amid(w) /\ stage[w] = "committed" /\ stage'[w] = to
        /\ \A x \in Writers : x # w => stage'[x] = stage[x] /\ write'[x] = write[x]
        /\ disturbed' \in [Procs \cup Writers -> BOOLEAN]
        /\ \A q \in Procs \cup Writers : q # w => disturbed'[q] = disturbed[q]
        /\ to # "idle" => disturbed'[w] = disturbed[w] /\ write'[w] = write[w]
    BY <2>1, SteppedQuiet
  <2>3. \A v \in Views : entry'[v] = IF v \in write[w].keys THEN NoEntry ELSE entry[v]
    BY <2>1 DEF Drop
  <2>4. Alone(w)'
    BY <2>1, <2>2 DEF QuietInv, Alone, Amid, Holds, Latest
  <2>5. Cleared(w)'
    BY <2>2 DEF Cleared
  <2>6. ASSUME NEW v \in Views
        PROVE  Exact(v)'
    <3>1. CASE v \in write[w].keys
      BY <2>3, <3>1 DEF Exact, NoEntry
    <3>2. CASE v \notin write[w].keys /\ v \in Guarded
      <4>1. Overtaken(v) => Overtaken(v)'
        BY <2>2, <3>2, OvertakenByOthers
      <4>2. QED
        BY <2>1, <2>3, <3>2, <4>1, ExactKept DEF QuietInv
    <3>3. QED
      BY <3>1, <3>2 DEF Exact
  <2>7. \A v \in Guarded : entry'[v] = entry[v] \/ ~entry'[v].stored
    BY <2>3, ReadThroughAssumption DEF NoEntry
  <2>8. QED
    BY <2>1, <2>2, <2>4, <2>5, <2>6, <2>7, WriterStepQuiet
<1>5. CASE Set(w)
  <2> DEFINE from == IF write[w].after THEN "deleted" ELSE "committed"
             new(v) == [stored |-> TRUE, content |-> {<<write[w].row, held[w]>>},
                        expires |-> clock + Ttl[v], quiet |-> ~disturbed[w]]
  <2>1. /\ Step(w, from, "idle") /\ write[w].sets /\ UNCHANGED <<ended, asked, got>>
        /\ entry' = [v \in Views |-> IF v \in write[w].keys THEN new(v) ELSE entry[v]]
        /\ held' = [held EXCEPT ![w] = 0]
    BY <1>5 DEF Set, reading
  <2>2. /\ Amid(w) /\ stage[w] = from /\ stage'[w] = "idle"
        /\ \A x \in Writers : x # w => stage'[x] = stage[x] /\ write'[x] = write[x]
        /\ disturbed' \in [Procs \cup Writers -> BOOLEAN]
        /\ \A q \in Procs \cup Writers : q # w => disturbed'[q] = disturbed[q]
    BY <2>1, SteppedQuiet
  <2>3. /\ \A x \in Writers : x # w => held'[x] = held[x]
        /\ Alone(w)' /\ Cleared(w)'
    BY <2>1, <2>2 DEF IInv, Shape, Alone, Amid, Cleared
  <2>4. ~disturbed[w] => /\ \A x \in Writers : Amid(x) => x = w
                         /\ held[w] = Latest(write[w].row)
    BY <2>1, <2>2 DEF QuietInv, Alone, Holds
  <2>5. ASSUME NEW v \in Views
        PROVE  Exact(v)'
    <3>1. CASE v \in write[w].keys
      <4>1. /\ entry'[v].content = {<<write[w].row, held[w]>>}
            /\ entry'[v].quiet => ~disturbed[w]
        BY <2>1, <3>1
      <4>2. write[w].row \in Direct[v]
        BY <2>2, <3>1, ReadThroughAssumption DEF IInv, WriterOK
      <4>3. About(entry[v].content, v)' /\ (entry[v].quiet => Current(entry[v].content))'
        BY <2>1, <2>4, <4>1, <4>2 DEF About, Current, Latest
      <4>4. QED
        BY <4>3 DEF Exact
    <3>2. CASE v \notin write[w].keys /\ v \in Guarded
      <4>1. Overtaken(v) => Overtaken(v)'
        BY <2>2, <3>2, OvertakenByOthers
      <4>2. QED
        BY <2>1, <3>2, <4>1, ExactKept DEF QuietInv
    <3>3. QED
      BY <3>1, <3>2 DEF Exact
  <2>6. \A v \in Guarded : \/ entry'[v] = entry[v]
                           \/ ~(entry'[v].stored /\ entry'[v].quiet)
                           \/ \A x \in Writers : Amid(x) => x = w
    BY <2>1, <2>4, ReadThroughAssumption
  <2>7. QED
    BY <2>1, <2>2, <2>3, <2>5, <2>6, WriterStepQuiet
<1>6. CASE Die(w)
  <2>1. /\ Amid(w) /\ UNCHANGED <<ended, entry, asked, got, disturbed, write, held>>
        /\ stage'[w] = "dead" /\ \A x \in Writers : x # w => stage'[x] = stage[x]
    BY <1>6 DEF Die, reading, IInv, Shape
  <2>2. Alone(w)' /\ Cleared(w)'
    BY <2>1 DEF QuietInv, Alone, Cleared, Amid, Holds
  <2>3. \A v \in Views : Exact(v)'
    <3>1. \A v \in Views : Overtaken(v)'
      BY <2>1 DEF Overtaken
    <3>2. QED
      BY <2>1, <3>1, ExactKept DEF QuietInv
  <2>4. QED
    BY <2>1, <2>2, <2>3, WriterStepQuiet DEF QuietInv
<1>7. QED
  BY <1>1, <1>2, <1>3, <1>4, <1>5, <1>6, StartQuiet

\* Between writes what a guarded view keeps in the cache is exact, unless it was
\* computed while a write was under way: if nothing but rows goes into these
\* views, and each write of their rows drops or sets their keys.
THEOREM GuardedViewsAreExact == GuardsAreKept => (Spec => []QuietEntriesAreCurrent)
<1> SUFFICES ASSUME GuardsAreKept PROVE Spec => []QuietEntriesAreCurrent
  OBVIOUS
<1>1. Init => IInv
  BY CachesBegin
<1>2. Init => QuietInv
  <2> SUFFICES ASSUME Init PROVE QuietInv
    OBVIOUS
  <2>1. disturbed \in [Procs \cup Writers -> BOOLEAN] /\ \A w \in Writers : Alone(w) /\ Cleared(w)
    BY DEF Init, Alone, Cleared, Amid
  <2>2. \A v \in Views : Exact(v)
    BY DEF Init, Exact, NoEntry
  <2>3. \A p \in Procs : Undisturbed(p)
    BY DEF Init, Undisturbed, Computing
  <2>4. QED
    BY <2>1, <2>2, <2>3 DEF QuietInv
<1>3. IInv /\ QuietInv /\ [Next]_vars => IInv' /\ QuietInv'
  <2> SUFFICES ASSUME IInv, QuietInv, [Next]_vars PROVE IInv' /\ QuietInv'
    OBVIOUS
  <2>1. IInv'
    BY NextStep
  <2>2. CASE UNCHANGED vars \/ Tick
    <3>1. UNCHANGED <<ended, entry, asked, got, disturbed, writing>>
      BY <2>2 DEF vars, Tick, reading, writing
    <3>2. \A v \in Views : entry'[v] = entry[v]
      BY <3>1
    <3>3. QED
      BY <2>1, <3>1, <3>2, AtRest
  <2>3. QED
    BY <2>1, <2>2, ReadStepQuiet, WriteStepQuiet DEF Next
<1>4. QuietInv => QuietEntriesAreCurrent
  BY ReadThroughAssumption DEF QuietInv, Exact, Overtaken, Amid, Current, QuietEntriesAreCurrent
<1>5. QED
  BY <1>1, <1>2, <1>3, <1>4, PTL DEF Spec
=============================================================================
