--------------------------- MODULE PlatformProofs ---------------------------
(***************************************************************************)
(* Theorems about the rows of MCPlatform, each about its own specification *)
(* and for every timeout, limit and clock; about EventBus for every number *)
(* of events, runs and crashes, every batch size and limit of retries; and *)
(* about AuditChain for every number of calls, types and deaths.           *)
(***************************************************************************)
EXTENDS MCPlatform, EventBus, AuditChain, SumLemmas, SequenceTheorems, TLAPS

-----------------------------------------------------------------------------
(* Sessions                                                                *)

\* What may be said of the row, and of the rows that were read and not yet saved.
Fits(row) == sessionEdited \/ (S!Coherent(row) /\ (sessionOverlaid \/ S!OneEnding(row)))

SessionJobs == \A w \in Workers :
  sessionJob[w] # Idle => Fits(sessionJob[w].held)

SessionInv == S!TypeOK /\ EndIsCoherent /\ SessionJobs

LEMMA SessionStep ==
  ASSUME SessionInv, S!Next
  PROVE  SessionInv'
<1> USE PlatformAssumption DEF SessionInv, SessionJobs, EndIsCoherent, S!EndIsCoherent, S!TypeOK,
                               S!Exists, S!Row, S!Jobs, S!Statuses, S!Codes, Fits
<1>1. CASE S!StartSession
  <2>1. /\ session # Gone /\ session' = [session EXCEPT !.status = "running", !.started = now]
        /\ sessionOverlaid' = (sessionOverlaid \/ session.ended)
        /\ now' = now /\ sessionJob' = sessionJob /\ sessionEdited' = sessionEdited
    BY <1>1 DEF S!StartSession
  <2>2. session' \in S!Row /\ session \in S!Row
    BY <2>1
  <2>3. Fits(session)
    BY <2>1
  <2>4. S!Coherent(session) => S!Coherent(session')
    BY <2>1, <2>2 DEF S!Coherent
  <2>5. S!Coherent(session) /\ S!OneEnding(session) /\ ~ session.ended => S!OneEnding(session')
    BY <2>1, <2>2 DEF S!Coherent, S!OneEnding
  <2>6. QED
    BY <2>1, <2>2, <2>3, <2>4, <2>5
<1>2. CASE S!CompleteSession
  BY <1>2 DEF S!CompleteSession, S!Coherent, S!OneEnding
<1>3. CASE S!Delete
  BY <1>3 DEF S!Delete
<1>4. CASE S!Tick
  BY <1>4 DEF S!Tick
<1>5. ASSUME NEW w \in Workers, S!ListStale(w) \/ S!EnforceSandbox(w) \/ S!RequestKill(w)
                                  \/ S!PatchReads(w)
      PROVE  SessionInv'
  BY <1>5 DEF S!ListStale, S!EnforceSandbox, S!RequestKill, S!PatchReads, S!Take
<1>6. ASSUME NEW w \in Workers, S!KillReads(w)
      PROVE  SessionInv'
  BY <1>6 DEF S!KillReads, S!Does, S!Done
<1>7. ASSUME NEW w \in Workers, S!KillSaves(w)
      PROVE  SessionInv'
  BY <1>7 DEF S!KillSaves, S!Does, S!Done, S!Coherent, S!OneEnding
<1>8. ASSUME NEW w \in Workers, S!PatchSaves(w)
      PROVE  SessionInv'
  <2>1. sessionJob[w] \in S!Jobs /\ sessionJob' = [sessionJob EXCEPT ![w] = Idle]
        /\ now' = now /\ sessionOverlaid' = sessionOverlaid
    BY <1>8 DEF S!PatchSaves, S!Does, S!Done
  <2>2. PICK status \in S!Statuses, code \in S!Codes :
          session' = [sessionJob[w].held EXCEPT !.status = status, !.code = code]
    BY <1>8 DEF S!PatchSaves
  <2>3. session' \in S!Row
    BY <2>1, <2>2
  <2>4. sessionEdited' = (sessionEdited \/ session' # sessionJob[w].held)
    BY <1>8 DEF S!PatchSaves
  <2>5. Fits(sessionJob[w].held)
    BY <1>8 DEF S!PatchSaves, S!Does
  <2>6. sessionEdited' \in BOOLEAN /\ (sessionEdited => sessionEdited')
    BY <2>4
  <2>7. sessionEdited' \/ session' = sessionJob[w].held
    BY <2>4
  <2>8. S!TypeOK'
    BY <2>1, <2>3, <2>6
  <2>9. EndIsCoherent'
    BY <2>1, <2>5, <2>6, <2>7
  <2>10. SessionJobs'
    BY <2>1, <2>6
  <2>11. QED
    BY <2>8, <2>9, <2>10
<1>9. QED
  BY <1>1, <1>2, <1>3, <1>4, <1>5, <1>6, <1>7, <1>8 DEF S!Next

\* Start, end, kills and PATCHes of other columns overwrite one another, yet the status of
\* a session that nobody PATCHed by hand agrees with what was saved with it, and nothing
\* is left of another ending unless an ended session was started or a completed one killed.
THEOREM SessionsEndCoherently == S!Spec => []EndIsCoherent
<1>1. S!Init => SessionInv
  <2> SUFFICES ASSUME S!Init PROVE SessionInv
    OBVIOUS
  <2>1. S!Created \in S!Row /\ S!Coherent(S!Created) /\ S!OneEnding(S!Created)
    BY DEF S!Created, S!Coherent, S!OneEnding, S!Row, S!Statuses, S!Codes
  <2>2. S!TypeOK
    BY <2>1 DEF S!Init, S!TypeOK
  <2>3. EndIsCoherent
    BY <2>1 DEF S!Init, EndIsCoherent, S!EndIsCoherent
  <2>4. SessionJobs
    BY DEF S!Init, SessionJobs
  <2>5. QED
    BY <2>2, <2>3, <2>4 DEF SessionInv
<1>2. SessionInv /\ UNCHANGED S!vars => SessionInv'
  BY DEF S!vars, SessionInv, SessionJobs, EndIsCoherent, S!EndIsCoherent, S!TypeOK, S!Exists,
         S!Coherent, S!OneEnding, Fits
<1>3. SessionInv /\ [S!Next]_(S!vars) => SessionInv'
  BY <1>2, SessionStep
<1>4. SessionInv => EndIsCoherent
  BY DEF SessionInv
<1>5. QED
  BY <1>1, <1>3, <1>4, PTL DEF S!Spec

-----------------------------------------------------------------------------
(* Providers                                                               *)

Follows(row) == ~row.chosen => row.status = P!StatusOf(row.rate)

\* A row that is down with nobody at work is only seen by PATCHes.
ProviderInv ==
  /\ P!TypeOK
  /\ Follows(provider)
  /\ \A w \in Workers : providerJob[w] # Idle => Follows(providerJob[w].held)
  /\ buried => /\ provider.status = "down"
               /\ \A w \in Workers : providerJob[w] # Idle =>
                    providerJob[w].op = "patch" /\ providerJob[w].held.status = "down"

LEMMA RatesStayInRange ==
  ASSUME NEW rate \in 0..10, NEW success \in BOOLEAN
  PROVE  P!RateAfter(rate, success) \subseteq 0..10
  BY DEF P!RateAfter, P!Rounded

LEMMA ProviderStep ==
  ASSUME ProviderInv, P!Next
  PROVE  ProviderInv'
<1> USE DEF ProviderInv, Follows, P!TypeOK, P!Row, P!Ops
<1>1. ASSUME NEW w \in Workers, P!SyncProviders(w)
      PROVE  ProviderInv'
  BY <1>1 DEF P!SyncProviders, P!Hold, P!Listed
<1>2. ASSUME NEW w \in Workers, P!ReadHealth(w)
      PROVE  ProviderInv'
  BY <1>2 DEF P!ReadHealth, P!Does, P!Hold
<1>3. ASSUME NEW w \in Workers, P!SaveHealth(w)
      PROVE  ProviderInv'
  <2>1. providerJob[w] # Idle /\ providerJob[w].op = "save" /\ providerJob[w].held.rate \in 0..10
    <3>1. P!Does(w, "save")
      BY <1>3 DEF P!SaveHealth
    <3>2. providerJob[w] \in [op : P!Ops, held : P!Row] \cup {Idle}
      OBVIOUS
    <3>3. providerJob[w] # Idle /\ providerJob[w].op = "save"
      BY <3>1 DEF P!Does
    <3>4. providerJob[w].held \in P!Row
      BY <3>2, <3>3
    <3>5. QED
      BY <3>3, <3>4
  <2>2. PICK rate \in UNION {P!RateAfter(providerJob[w].held.rate, success) : success \in BOOLEAN} :
          provider' = [status |-> P!StatusOf(rate), rate |-> rate, chosen |-> FALSE]
    BY <1>3 DEF P!SaveHealth
  <2>3. rate \in 0..10
    BY <2>1, <2>2, RatesStayInRange
  <2>4. provider' \in P!Row /\ Follows(provider')
    BY <2>2, <2>3 DEF P!StatusOf, P!Statuses
  <2>5. /\ \/ providerJob' = [providerJob EXCEPT ![w].op = "announce"]
           \/ providerJob' = [providerJob EXCEPT ![w] = Idle]
        /\ UNCHANGED events
        /\ buried' = (buried \/ P!Quiet')
    BY <1>3 DEF P!SaveHealth, P!Done, P!Remember
  <2>6. ~buried
    BY <2>1
  <2>7. providerJob' \in [Workers -> [op : P!Ops, held : P!Row] \cup {Idle}]
    BY <2>1, <2>5
  <2>8. \A x \in Workers : providerJob'[x] # Idle =>
          providerJob[x] # Idle /\ providerJob'[x].held = providerJob[x].held
    BY <2>1, <2>5
  <2>9. QED
    BY <2>4, <2>5, <2>6, <2>7, <2>8 DEF P!Quiet
<1>4. ASSUME NEW w \in Workers, P!AnnounceFailover(w) \/ P!Die(w)
      PROVE  ProviderInv'
  BY <1>4 DEF P!AnnounceFailover, P!Die, P!Does, P!Done, P!Remember, P!Quiet
<1>5. ASSUME NEW w \in Workers, P!PatchReads(w)
      PROVE  ProviderInv'
  BY <1>5 DEF P!PatchReads, P!Hold
<1>6. ASSUME NEW w \in Workers, P!PatchSaves(w)
      PROVE  ProviderInv'
  BY <1>6 DEF P!PatchSaves, P!Does, P!Done, P!Remember, P!Quiet, P!Statuses
<1>7. QED
  BY <1>1, <1>2, <1>3, <1>4, <1>5, <1>6 DEF P!Next

LEMMA ProvidersInvariant == P!Spec => []ProviderInv
<1>1. P!Init => ProviderInv
  <2> SUFFICES ASSUME P!Init PROVE ProviderInv
    OBVIOUS
  <2>1. provider \in P!Row /\ Follows(provider)
    BY DEF P!Init, Follows, P!Row, P!Statuses, P!StatusOf
  <2>2. P!TypeOK
    BY <2>1 DEF P!Init, P!TypeOK
  <2>3. \A w \in Workers : providerJob[w] = Idle
    BY DEF P!Init
  <2>4. ~buried
    BY DEF P!Init
  <2>5. QED
    BY <2>1, <2>2, <2>3, <2>4 DEF ProviderInv
<1>2. ProviderInv /\ UNCHANGED P!vars => ProviderInv'
  BY DEF P!vars, ProviderInv, Follows, P!TypeOK, P!StatusOf
<1>3. ProviderInv /\ [P!Next]_(P!vars) => ProviderInv'
  BY <1>2, ProviderStep
<1>4. QED
  BY <1>1, <1>3, PTL DEF P!Spec

\* Status and success rate of a provider come from one measurement, whatever
\* measurements overlap and PATCHes bring an old row back.
THEOREM StatusComesFromRate == P!Spec => []StatusFollowsRate
<1>1. ProviderInv => StatusFollowsRate
  BY DEF ProviderInv, Follows, StatusFollowsRate, P!StatusFollowsRate
<1>2. QED
  BY <1>1, ProvidersInvariant, PTL

\* A provider that was down at a moment when nobody was at work on it is down until an
\* administrator sets its status.  (A measurement that overlaps the one that put it down
\* may bring it back.)
THEOREM DownUntilPatched == P!Spec => []DownStaysDown
<1>1. ProviderInv => DownStaysDown
  BY DEF ProviderInv, DownStaysDown, P!DownStaysDown
<1>2. QED
  BY <1>1, ProvidersInvariant, PTL

-----------------------------------------------------------------------------
(* Reverts                                                                 *)

\* The row was written by hand, a revert has lifted its measure, or what the measure
\* was against is gone.
Told(action, kind) ==
  action \in actionEdited \/ action \in lifted \/ \A t \in R!Measure(kind) : ~ there[t]

\* A row keeps its kind while nobody edits it; a request that is to mark it, or
\* has seen it marked, follows a lift.
RevertInv ==
  /\ R!TypeOK
  /\ RevertedWasLifted
  /\ \A w \in Workers : revertJob[w] # Idle =>
       LET at == revertJob[w].action IN
       /\ log[at] # R!NotLogged
       /\ at \in actionEdited \/ log[at].kind = revertJob[w].held.kind
       /\ revertJob[w].stage = "mark" => Told(at, revertJob[w].held.kind)
       /\ revertJob[w].stage # "mark" /\ revertJob[w].held.reverted
            => Told(at, revertJob[w].held.kind)

LEMMA RevertStep ==
  ASSUME RevertInv, R!Next
  PROVE  RevertInv'
<1> USE DEF RevertInv, RevertedWasLifted, R!RevertedWasLifted, R!TypeOK, Told
<1>1. ASSUME NEW t \in R!Targets, R!Impose(t) \/ R!Lift(t) \/ R!Remove(t)
      PROVE  RevertInv'
  <2>1. /\ log' = log /\ revertJob' = revertJob /\ lifted' = lifted /\ actionEdited' = actionEdited
        /\ there' \in [R!Targets -> BOOLEAN] /\ inForce' \in [R!Targets -> BOOLEAN]
        /\ \A u \in R!Targets : there'[u] => there[u]
    BY <1>1 DEF R!Impose, R!Lift, R!Remove
  <2>2. \A kind : R!Measure(kind) \subseteq R!Targets
    BY DEF R!Measure
  <2>3. QED
    BY <2>1, <2>2
<1>2. ASSUME NEW a \in Actions, R!LogAction(a)
      PROVE  RevertInv'
  BY <1>2 DEF R!LogAction
<1>3. ASSUME NEW w \in Workers, NEW a \in Actions, R!RevertAction(w, a) \/ R!PatchReads(w, a)
      PROVE  RevertInv'
  <2>1. PICK next \in {"lift", "patch"} : R!Take(w, a, next)
    BY <1>3 DEF R!RevertAction, R!PatchReads
  <2>2. UNCHANGED <<there, inForce, log, lifted, actionEdited>>
    BY <1>3 DEF R!RevertAction, R!PatchReads
  <2> DEFINE new == [action |-> a, stage |-> next, held |-> log[a]]
  <2>3. log[a] \in R!Row /\ log[a] # R!NotLogged
    BY <2>1 DEF R!Take
  <2>4. new \in [action : Actions, stage : R!Stages, held : R!Row]
    BY <2>3 DEF R!Stages
  <2>5. revertJob' = [revertJob EXCEPT ![w] = new]
    BY <2>1 DEF R!Take
  <2>6. \A x \in Workers : revertJob'[x] = IF x = w THEN new ELSE revertJob[x]
    BY <2>5
  <2>7. new.action = a /\ new.held = log[a] /\ new.stage # "mark"
    BY <2>1
  <2>8. log[a].reverted => Told(a, log[a].kind)
    BY <2>3
  <2> HIDE DEF new
  <2>9. QED
    BY <2>2, <2>3, <2>4, <2>5, <2>6, <2>7, <2>8
<1>4. ASSUME NEW w \in Workers, R!RevertLifts(w)
      PROVE  RevertInv'
  <2> DEFINE targets == {t \in R!Measure(revertJob[w].held.kind) : there[t]}
             new == IF targets = {} THEN lifted ELSE lifted \cup {revertJob[w].action}
  <2>1. /\ revertJob[w] # Idle /\ revertJob[w].stage = "lift"
        /\ revertJob' = [revertJob EXCEPT ![w].stage = "mark"]
        /\ UNCHANGED <<there, log, actionEdited>>
        /\ inForce' \in [R!Targets -> BOOLEAN]
        /\ lifted' = new
    BY <1>4 DEF R!RevertLifts, R!Does
  <2>2. revertJob[w].action \in Actions
    BY <2>1
  <2>3. lifted \subseteq lifted' /\ lifted' \subseteq Actions
    BY <2>1, <2>2
  <2>4. targets # {} => revertJob[w].action \in lifted'
    BY <2>1
  <2>5. revertJob' \in [Workers -> [action : Actions, stage : R!Stages, held : R!Row] \cup {Idle}]
    BY <2>1 DEF R!Stages
  <2>6. \A x \in Workers : revertJob'[x] # Idle =>
          /\ revertJob[x] # Idle
          /\ revertJob'[x].action = revertJob[x].action /\ revertJob'[x].held = revertJob[x].held
          /\ x # w => revertJob'[x].stage = revertJob[x].stage
          /\ x = w => revertJob'[x].stage = "mark"
    BY <2>1
  <2> HIDE DEF new, targets
  <2>7. QED
    BY <2>1, <2>3, <2>4, <2>5, <2>6 DEF targets
<1>5. ASSUME NEW w \in Workers, R!RevertMarks(w)
      PROVE  RevertInv'
  <2> DEFINE at == revertJob[w].action
  <2>1. /\ revertJob[w] # Idle /\ revertJob[w].stage = "mark"
        /\ log' = [log EXCEPT ![at].reverted = TRUE]
        /\ revertJob' = [revertJob EXCEPT ![w] = Idle]
        /\ there' = there /\ inForce' = inForce /\ lifted' = lifted /\ actionEdited' = actionEdited
    BY <1>5 DEF R!RevertMarks, R!Does, R!Done
  <2>2. at \in Actions /\ log[at] \in R!Row /\ log[at] # R!NotLogged
    BY <2>1
  <2>3. Told(at, log[at].kind)
    BY <2>1
  <2>4. log'[at] \in R!Row /\ log'[at] # R!NotLogged /\ log'[at].kind = log[at].kind
    BY <2>1, <2>2 DEF R!Row, R!NotLogged, R!Kinds
  <2>5. \A a \in Actions : a # at => log'[a] = log[a]
    BY <2>1
  <2>6. \A x \in Workers : revertJob'[x] # Idle => revertJob'[x] = revertJob[x]
    BY <2>1
  <2>7. R!TypeOK'
    BY <2>1, <2>2, <2>4
  <2> HIDE DEF at
  <2>8. RevertedWasLifted'
    BY <2>1, <2>3, <2>4, <2>5
  <2>9. QED
    BY <2>1, <2>4, <2>5, <2>6, <2>7, <2>8
<1>6. ASSUME NEW w \in Workers, R!Die(w)
      PROVE  RevertInv'
  BY <1>6 DEF R!Die, R!Done
<1>7. ASSUME NEW w \in Workers, R!PatchSaves(w)
      PROVE  RevertInv'
  <2> DEFINE at == revertJob[w].action
  <2>1. /\ revertJob[w] # Idle /\ revertJob[w].stage = "patch"
        /\ revertJob' = [revertJob EXCEPT ![w] = Idle]
        /\ UNCHANGED <<there, inForce, lifted>>
    BY <1>7 DEF R!PatchSaves, R!Does, R!Done
  <2>2. PICK row \in R!Row :
          /\ log' = [log EXCEPT ![at] = row]
          /\ \/ row = revertJob[w].held /\ UNCHANGED actionEdited
             \/ actionEdited' = actionEdited \cup {at}
    BY <1>7, <2>1 DEF R!PatchSaves
  <2>3. at \in Actions
    BY <2>1
  <2>4. row # R!NotLogged
    BY <2>2 DEF R!Row, R!NotLogged, R!Kinds
  <2>5. at \in actionEdited' \/ row = revertJob[w].held
    BY <2>2
  <2>6. \A a \in Actions : log'[a] = IF a = at THEN row ELSE log[a]
    BY <2>2, <2>3
  <2>7. actionEdited \subseteq actionEdited' /\ actionEdited' \subseteq Actions
    BY <2>2, <2>3
  <2>8. \A x \in Workers : revertJob'[x] # Idle =>
          revertJob'[x] = revertJob[x] /\ revertJob[x].action \in Actions
    BY <2>1
  <2>9. R!TypeOK'
    BY <2>1, <2>2, <2>3, <2>7
  <2>10. RevertedWasLifted'
    BY <2>1, <2>5, <2>6, <2>7
  <2>11. \A x \in Workers : revertJob[x] # Idle /\ revertJob[x].action = at =>
           at \in actionEdited' \/ row.kind = revertJob[x].held.kind
    BY <2>1, <2>2, <2>5, <2>7
  <2> HIDE DEF at
  <2>12. QED
    BY <2>1, <2>4, <2>6, <2>7, <2>8, <2>9, <2>10, <2>11
<1>8. QED
  BY <1>1, <1>2, <1>3, <1>4, <1>5, <1>6, <1>7 DEF R!Next

\* The log never says reverted of a freeze or suspension that no revert lifted, unless
\* its wallet or skill is gone or somebody wrote it there.
THEOREM RevertsAreTold == R!Spec => []RevertedWasLifted
<1>1. R!Init => RevertInv
  BY DEF R!Init, RevertInv, RevertedWasLifted, R!RevertedWasLifted, R!TypeOK, R!NotLogged
<1>2. RevertInv /\ UNCHANGED R!vars => RevertInv'
  BY DEF R!vars, RevertInv, RevertedWasLifted, R!RevertedWasLifted, R!TypeOK, Told
<1>3. RevertInv /\ [R!Next]_(R!vars) => RevertInv'
  BY <1>2, RevertStep
<1>4. RevertInv => RevertedWasLifted
  BY DEF RevertInv
<1>5. QED
  BY <1>1, <1>3, <1>4, PTL DEF R!Spec


-----------------------------------------------------------------------------
(* The marketplace                                                         *)

\* Who is alone is the only one at work, and what it has read is still true.
Trusted(w) ==
  marketJob[w] # Idle /\ marketJob[w].alone =>
    /\ \A x \in Workers \ {w} : marketJob[x] = Idle
    /\ marketJob[w].op = "save" => marketJob[w].rating = M!RatingOf(reviews)
    /\ marketJob[w].op = "patch" => marketJob[w].rating = skill.rating

Record(j) == j = [op |-> j.op, rating |-> j.rating, alone |-> j.alone] /\ j.alone \in BOOLEAN

RatingInv ==
  /\ settled \in BOOLEAN
  /\ skill = [lifecycle |-> skill.lifecycle, approved |-> skill.approved,
              rating |-> skill.rating]
  /\ marketJob = [w \in Workers |-> marketJob[w]]
  /\ \A w \in Workers : marketJob[w] # Idle => Record(marketJob[w])
  /\ RatingIsCurrent
  /\ \A w \in Workers : Trusted(w)

LEMMA RatingUnchanged ==
  ASSUME UNCHANGED reviews
  PROVE  M!RatingOf(reviews)' = M!RatingOf(reviews)
  OBVIOUS

LEMMA Spoilt ==
  ASSUME NEW j, Record(j)
  PROVE  Record([j EXCEPT !.alone = FALSE]) /\ ~[j EXCEPT !.alone = FALSE].alone
<1> DEFINE new == [op |-> j.op, rating |-> j.rating, alone |-> FALSE]
<1>1. [j EXCEPT !.alone = FALSE] = new
  <2>1. PICK op, rating, alone : j = [op |-> op, rating |-> rating, alone |-> alone]
    BY DEF Record
  <2>2. \A k : [j EXCEPT !.alone = k] = [op |-> op, rating |-> rating, alone |-> k]
    BY <2>1
  <2>3. j.op = op /\ j.rating = rating
    BY <2>1
  <2>4. QED
    BY <2>2, <2>3
<1>2. Record(new) /\ ~new.alone
  BY DEF Record
<1>3. QED
  BY <1>1, <1>2

\* A worker that begins is alone, or else nobody is any more.
LEMMA Disturbed ==
  ASSUME RatingInv, NEW w \in Workers, marketJob[w] = Idle, NEW op, NEW rating,
         M!Disturb(w, op, rating)
  PROVE  /\ marketJob' = [x \in Workers |-> marketJob'[x]]
         /\ marketJob'[w] = [op |-> op, rating |-> rating, alone |-> marketJob'[w].alone]
         /\ marketJob'[w].alone => \A y \in Workers \ {w} : marketJob'[y] = Idle
         /\ \A x \in Workers \ {w} : marketJob'[x] # Idle =>
              Record(marketJob'[x]) /\ ~marketJob'[x].alone
         /\ Record(marketJob'[w])
<1> DEFINE alone == \A y \in Workers \ {w} : marketJob[y] = Idle
           new == [op |-> op, rating |-> rating, alone |-> alone]
<1>1. alone \in BOOLEAN
  OBVIOUS
<1> HIDE DEF alone
<1>2. new = [op |-> new.op, rating |-> new.rating, alone |-> new.alone] /\ new.alone = alone
  OBVIOUS
<1> HIDE DEF new
<1>3. marketJob' = [x \in Workers |-> IF x = w THEN new
                                      ELSE IF marketJob[x] = Idle THEN Idle
                                      ELSE [marketJob[x] EXCEPT !.alone = FALSE]]
  BY DEF M!Disturb, new, alone
<1>4. \A x \in Workers : marketJob[x] # Idle => Record(marketJob[x])
  BY DEF RatingInv
<1>5. \A x \in Workers \ {w} : marketJob'[x] # Idle =>
        Record(marketJob'[x]) /\ ~marketJob'[x].alone
  BY <1>3, <1>4, Spoilt
<1>6. marketJob'[w] = new
  BY <1>3
<1>7. Record(new)
  BY <1>1, <1>2 DEF Record
<1>8. marketJob'[w].alone => \A y \in Workers \ {w} : marketJob'[y] = Idle
  BY <1>2, <1>3, <1>6 DEF alone
<1>9. marketJob'[w] = [op |-> op, rating |-> rating, alone |-> marketJob'[w].alone]
  BY <1>2, <1>6 DEF new
<1>10. marketJob' = [x \in Workers |-> marketJob'[x]]
  BY <1>3
<1>11. QED
  BY <1>5, <1>6, <1>7, <1>8, <1>9, <1>10

LEMMA RatingStep ==
  ASSUME RatingInv, M!Next
  PROVE  RatingInv'
<1>1. CASE M!Approve \/ M!Suspend
  <2>1. UNCHANGED <<reviews, marketJob, settled>> /\ skill'.rating = skill.rating
    BY <1>1 DEF M!Approve, M!Suspend, RatingInv
  <2>2. skill' = [lifecycle |-> skill'.lifecycle, approved |-> skill'.approved,
                  rating |-> skill'.rating]
    BY <1>1 DEF M!Approve, M!Suspend, RatingInv
  <2>3. QED
    BY <2>1, <2>2, RatingUnchanged
       DEF RatingInv, RatingIsCurrent, M!RatingIsCurrent, Trusted
<1>2. ASSUME NEW u \in Users, M!WriteReview(u)
      PROVE  RatingInv'
  <2>1. settled' = FALSE /\ UNCHANGED skill
    BY <1>2 DEF M!WriteReview
  <2>2. /\ marketJob' = [w \in Workers |-> marketJob'[w]]
        /\ \A w \in Workers : marketJob'[w] # Idle =>
             Record(marketJob'[w]) /\ ~marketJob'[w].alone
    <3>1. marketJob' = [w \in Workers |-> IF marketJob[w] = Idle THEN Idle
                                          ELSE [marketJob[w] EXCEPT !.alone = FALSE]]
      BY <1>2 DEF M!WriteReview
    <3>2. \A w \in Workers : marketJob[w] # Idle => Record(marketJob[w])
      BY DEF RatingInv
    <3>3. QED
      BY <3>1, <3>2, Spoilt
  <2>3. QED
    BY <2>1, <2>2 DEF RatingInv, RatingIsCurrent, M!RatingIsCurrent, Trusted
<1>3. ASSUME NEW w \in Workers, M!AddReview(w) \/ M!PatchReads(w)
      PROVE  RatingInv'
  <2>1. PICK op \in {"rate", "patch"} :
          \E rating : /\ M!Disturb(w, op, rating)
                      /\ op = "patch" => rating = skill.rating
    BY <1>3 DEF M!AddReview, M!PatchReads
  <2>2. PICK rating : M!Disturb(w, op, rating) /\ (op = "patch" => rating = skill.rating)
    BY <2>1
  <2>3. /\ marketJob[w] = Idle /\ UNCHANGED skill
        /\ settled' = FALSE \/ (UNCHANGED <<settled, reviews>>)
    BY <1>3 DEF M!AddReview, M!PatchReads
  <2>4. /\ marketJob' = [x \in Workers |-> marketJob'[x]]
        /\ marketJob'[w] = [op |-> op, rating |-> rating, alone |-> marketJob'[w].alone]
        /\ marketJob'[w].alone => \A y \in Workers \ {w} : marketJob'[y] = Idle
        /\ \A x \in Workers \ {w} : marketJob'[x] # Idle =>
             Record(marketJob'[x]) /\ ~marketJob'[x].alone
        /\ Record(marketJob'[w])
    BY <2>2, <2>3, Disturbed
  <2>5. marketJob'[w].op = op /\ marketJob'[w].rating = rating
    BY <2>4
  <2>6. \A x \in Workers : Trusted(x)'
    BY <2>1, <2>2, <2>3, <2>4, <2>5 DEF Trusted
  <2>7. RatingIsCurrent'
    BY <2>3, RatingUnchanged DEF RatingInv, RatingIsCurrent, M!RatingIsCurrent
  <2>8. QED
    BY <2>3, <2>4, <2>6, <2>7 DEF RatingInv
<1>4. ASSUME NEW w \in Workers, M!SumUp(w)
      PROVE  RatingInv'
  <2>1. /\ marketJob[w] # Idle
        /\ marketJob' = [marketJob EXCEPT ![w].op = "save", ![w].rating = M!RatingOf(reviews)]
        /\ UNCHANGED <<skill, reviews, settled>>
    BY <1>4 DEF M!SumUp, M!Does
  <2>2. Record(marketJob[w])
    BY <2>1 DEF RatingInv
  <2>3. \A x \in Workers : x # w => marketJob'[x] = marketJob[x]
    BY <2>1 DEF RatingInv
  <2>4. marketJob'[w] = [op |-> "save", rating |-> M!RatingOf(reviews),
                         alone |-> marketJob[w].alone]
    BY <2>1, <2>2 DEF RatingInv, Record
  <2>5. marketJob' = [x \in Workers |-> marketJob'[x]]
    BY <2>1 DEF RatingInv
  <2>6. Record(marketJob'[w])
    BY <2>2, <2>4 DEF Record
  <2>7. ASSUME NEW x \in Workers
        PROVE  Trusted(x)'
    BY <2>1, <2>2, <2>3, <2>4, RatingUnchanged DEF RatingInv, Trusted
  <2>8. QED
    BY <2>1, <2>3, <2>5, <2>6, <2>7, RatingUnchanged
       DEF RatingInv, RatingIsCurrent, M!RatingIsCurrent
<1>5. ASSUME NEW w \in Workers, M!SaveRating(w) \/ M!PatchSaves(w)
      PROVE  RatingInv'
  <2>1. /\ marketJob[w] # Idle /\ marketJob[w].op \in {"save", "patch"}
        /\ marketJob' = [marketJob EXCEPT ![w] = Idle]
        /\ UNCHANGED reviews
    BY <1>5 DEF M!SaveRating, M!PatchSaves, M!Does, M!Done
  <2>2. /\ skill'.rating = marketJob[w].rating
        /\ skill' = [lifecycle |-> skill'.lifecycle, approved |-> skill'.approved,
                     rating |-> skill'.rating]
    BY <1>5 DEF M!SaveRating, M!PatchSaves, RatingInv
  <2>3. Record(marketJob[w]) /\ Trusted(w)
    BY <2>1 DEF RatingInv
  <2>4. /\ settled' \in BOOLEAN
        /\ settled' => /\ marketJob[w].alone
                       /\ marketJob[w].op = "patch" => settled
    BY <1>5, <2>3 DEF M!SaveRating, M!PatchSaves, M!Does, RatingInv, Record
  <2>5. RatingIsCurrent'
    BY <2>1, <2>2, <2>3, <2>4, RatingUnchanged
       DEF Trusted, RatingInv, RatingIsCurrent, M!RatingIsCurrent
  <2>6. \A x \in Workers : marketJob'[x] = IF x = w THEN Idle ELSE marketJob[x]
    BY <2>1 DEF RatingInv
  <2>7. ASSUME NEW x \in Workers
        PROVE  Trusted(x)'
    BY <2>1, <2>6, RatingUnchanged DEF RatingInv, Trusted
  <2>8. QED
    BY <2>1, <2>2, <2>4, <2>5, <2>6, <2>7 DEF RatingInv
<1>6. QED
  BY <1>1, <1>2, <1>3, <1>4, <1>5 DEF M!Next

LEMMA NothingSumsToNothing ==
  ASSUME \A u \in Users : reviews[u] = 0
  PROVE  M!RatingOf(reviews) = [sum |-> 0, count |-> 0]
<1> DEFINE given == {u \in Users : reviews[u] # 0}
<1>1. given = {}
  OBVIOUS
<1>2. M!Cardinality({}) = 0
  BY DEF M!Cardinality
<1>3. M!MapThenSumSet(LAMBDA u : reviews[u], {}) = 0
  BY DEF M!MapThenSumSet, M!MapThenFoldSet
<1>4. QED
  BY <1>1, <1>2, <1>3 DEF M!RatingOf, M!NoReview

\* The rating of a skill is that of its reviews after an add_review that was alone,
\* until a request comes that does not keep it.
THEOREM RatingFollowsReviews == M!Spec => []RatingIsCurrent
<1>1. M!Init => RatingInv
  <2> SUFFICES ASSUME M!Init PROVE RatingInv
    OBVIOUS
  <2>1. \A u \in Users : reviews[u] = 0
    BY DEF M!Init, M!NoReview
  <2>2. M!RatingOf(reviews) = skill.rating
    BY <2>1, NothingSumsToNothing DEF M!Init, M!Unrated
  <2>3. QED
    BY <2>2 DEF M!Init, RatingInv, RatingIsCurrent, M!RatingIsCurrent, Trusted
<1>2. RatingInv /\ UNCHANGED M!vars => RatingInv'
  BY RatingUnchanged DEF M!vars, RatingInv, RatingIsCurrent, M!RatingIsCurrent, Trusted
<1>3. RatingInv /\ [M!Next]_(M!vars) => RatingInv'
  BY <1>2, RatingStep
<1>4. RatingInv => RatingIsCurrent
  BY DEF RatingInv
<1>5. QED
  BY <1>1, <1>3, <1>4, PTL DEF M!Spec

-----------------------------------------------------------------------------
(* The event bus                                                           *)

\* A run that works has a copy before it.
Busy == \A r \in Runs : pc[r] # "idle" => batch[r] # <<>>

\* A copy never says more failures than there were.
CopyOK(c) == c.retries <= failed[c.id]
CopiesOK == \A r \in Runs : \A i \in 1..Len(batch[r]) : CopyOK(batch[r][i])

\* What a run has seen of its event has happened.
TurnsOK == \A r \in Runs :
  /\ pc[r] = "handled" => handled[Current(r).id] > 0
  /\ pc[r] = "raised" => Current(r).retries + 1 <= failed[Current(r).id]

CountsOK == \A e \in Events : event[e].retries <= failed[e]

BusInv == TypeOK /\ Busy /\ CopiesOK /\ TurnsOK /\ CountsOK /\ ProcessedWasHandled

\* The first copy of a run that works, and what is left after it.
LEMMA FirstCopy ==
  ASSUME BusInv, NEW r \in Runs, pc[r] # "idle"
  PROVE  /\ Current(r) \in Copy /\ CopyOK(Current(r)) /\ Len(batch[r]) >= 1
         /\ Tail(batch[r]) \in Seq(Copy) /\ Len(Tail(batch[r])) = Len(batch[r]) - 1
         /\ \A i \in 1..Len(Tail(batch[r])) : CopyOK(Tail(batch[r])[i])
         /\ Len(batch[r]) # 1 => Tail(batch[r]) # <<>>
<1>1. batch[r] \in Seq(Copy) /\ batch[r] # <<>>
  BY DEF BusInv, TypeOK, Busy
<1>2. Len(batch[r]) \in Nat /\ Len(batch[r]) >= 1
  BY <1>1, EmptySeq
<1>3. Current(r) = batch[r][1] /\ 1 \in 1..Len(batch[r])
  BY <1>1, <1>2 DEF Current
<1>4. Current(r) \in Copy /\ CopyOK(Current(r))
  BY <1>1, <1>3, ElementOfSeq DEF BusInv, CopiesOK
<1>5. /\ Tail(batch[r]) \in Seq(Copy) /\ Len(Tail(batch[r])) = Len(batch[r]) - 1
      /\ \A i \in 1..Len(Tail(batch[r])) : Tail(batch[r])[i] = batch[r][i + 1]
  BY <1>1, HeadTailProperties
<1>6. \A i \in 1..Len(Tail(batch[r])) : i + 1 \in 1..Len(batch[r])
  BY <1>2, <1>5
<1>7. \A i \in 1..Len(Tail(batch[r])) : CopyOK(Tail(batch[r])[i])
  BY <1>5, <1>6 DEF BusInv, CopiesOK
<1>8. Len(batch[r]) # 1 => Tail(batch[r]) # <<>>
  <2>1. Len(batch[r]) # 1 => Len(Tail(batch[r])) # 0
    BY <1>2, <1>5
  <2>2. QED
    BY <2>1, <1>5, EmptySeq
<1>9. QED
  BY <1>2, <1>4, <1>5, <1>7, <1>8

\* The copies of a fetched batch say what the rows say.
LEMMA Fetched ==
  ASSUME BusInv, NEW ids \in NewestFirst(Pending)
  PROVE  /\ Copies(ids) \in Seq(Copy) /\ Copies(ids) # <<>> /\ Len(Copies(ids)) <= BatchSize
         /\ \A i \in 1..Len(Copies(ids)) : CopyOK(Copies(ids)[i])
<1>1. PICK n \in 1..BatchSize : ids \in [1..n -> Pending]
  BY DEF NewestFirst
<1>2. n \in Nat /\ Pending \subseteq Events
  BY <1>1, EventBusAssumption DEF Pending
<1>3. Len(ids) = n
  BY <1>1, <1>2
<1>4. Copies(ids) = [i \in 1..n |-> [id |-> ids[i], retries |-> event[ids[i]].retries]]
  BY <1>3 DEF Copies
<1>5. \A i \in 1..n : ids[i] \in Events
  BY <1>1, <1>2
<1>6. \A i \in 1..n : [id |-> ids[i], retries |-> event[ids[i]].retries] \in Copy
  BY <1>5 DEF BusInv, TypeOK, Row, Copy
<1>7. Copies(ids) \in Seq(Copy) /\ Len(Copies(ids)) = n
  BY <1>2, <1>4, <1>6
<1>8. \A i \in 1..n : CopyOK(Copies(ids)[i])
  BY <1>4, <1>5 DEF CopyOK, BusInv, CountsOK
<1>9. n >= 1 /\ n <= BatchSize
  BY <1>1, EventBusAssumption
<1>10. QED
  BY <1>2, <1>7, <1>8, <1>9

\* A step of the bus keeps the invariant, action by action.
LEMMA BusStep ==
  ASSUME BusInv, [Next]_vars
  PROVE  BusInv'
<1> USE EventBusAssumption
<1>1. CASE Publish
  <2> DEFINE e == last + 1
  <2>1. e \in Events /\ e \in 0..MaxEvents
    BY <1>1 DEF Publish, BusInv, TypeOK, Events
  <2>2. last' = e /\ event' = [event EXCEPT ![e].stored = TRUE]
    BY <1>1 DEF Publish
  <2>3. UNCHANGED <<batch, pc, handled, failed, crashes>>
    BY <1>1 DEF Publish
  <2> HIDE DEF e
  <2>4. QED
    BY <2>1, <2>2, <2>3
       DEF BusInv, TypeOK, Row, Busy, CopiesOK, CopyOK, TurnsOK, Current, CountsOK,
           ProcessedWasHandled
<1>2. ASSUME NEW e \in Events, Delete(e)
      PROVE  BusInv'
  BY <1>2 DEF Delete, BusInv, TypeOK, Row, Busy, CopiesOK, CopyOK, TurnsOK, Current, CountsOK,
              ProcessedWasHandled
<1>3. ASSUME NEW r \in Runs, Fetch(r)
      PROVE  BusInv'
  <2>1. PICK ids \in NewestFirst(Pending) : batch' = [batch EXCEPT ![r] = Copies(ids)]
    BY <1>3 DEF Fetch
  <2>2. pc' = [pc EXCEPT ![r] = "next"] /\ UNCHANGED <<event, last, handled, failed, crashes>>
    BY <1>3 DEF Fetch
  <2>3. /\ Copies(ids) \in Seq(Copy) /\ Copies(ids) # <<>> /\ Len(Copies(ids)) <= BatchSize
        /\ \A i \in 1..Len(Copies(ids)) : CopyOK(Copies(ids)[i])
    BY Fetched
  <2>4. \A s \in Runs : /\ batch'[s] = IF s = r THEN Copies(ids) ELSE batch[s]
                        /\ pc'[s] = IF s = r THEN "next" ELSE pc[s]
    BY <2>1, <2>2 DEF BusInv, TypeOK
  <2>5. TypeOK' /\ Busy'
    BY <2>1, <2>2, <2>3, <2>4 DEF BusInv, TypeOK, Busy
  <2>6. CopiesOK'
    BY <2>2, <2>3, <2>4 DEF BusInv, CopiesOK, CopyOK
  <2>7. TurnsOK'
    BY <2>2, <2>4 DEF BusInv, TurnsOK, Current
  <2>8. CountsOK' /\ ProcessedWasHandled'
    BY <2>2 DEF BusInv, CountsOK, ProcessedWasHandled
  <2>9. QED
    BY <2>5, <2>6, <2>7, <2>8 DEF BusInv
<1>4. ASSUME NEW r \in Runs, HandleWell(r) \/ HandleBadly(r) \/ SaveMisses(r)
      PROVE  BusInv'
  <2> DEFINE e == Current(r).id
  <2>1. pc[r] # "idle" /\ UNCHANGED <<event, last, batch, crashes>>
    BY <1>4 DEF HandleWell, HandleBadly, SaveMisses
  <2>2. Current(r) \in Copy /\ CopyOK(Current(r))
    BY <2>1, FirstCopy
  <2>3. e \in Events /\ Current(r).retries \in Nat /\ Current(r).retries <= failed[e]
    BY <2>2 DEF Copy, CopyOK
  <2>4. \/ /\ handled' = [handled EXCEPT ![e] = @ + 1] /\ UNCHANGED failed
           /\ pc' = [pc EXCEPT ![r] = "handled"]
        \/ /\ failed' = [failed EXCEPT ![e] = @ + 1] /\ UNCHANGED handled
           /\ pc' = [pc EXCEPT ![r] = "raised"]
    BY <1>4 DEF HandleWell, HandleBadly, SaveMisses
  <2> HIDE DEF e
  <2>5. /\ handled' \in [Events -> Nat] /\ failed' \in [Events -> Nat]
        /\ \A d \in Events : handled'[d] >= handled[d] /\ failed'[d] >= failed[d]
    <3>1. handled \in [Events -> Nat] /\ failed \in [Events -> Nat]
      BY DEF BusInv, TypeOK
    <3>2. CASE handled' = [handled EXCEPT ![e] = @ + 1] /\ UNCHANGED failed
      BY <2>3, <3>1, <3>2
    <3>3. CASE failed' = [failed EXCEPT ![e] = @ + 1] /\ UNCHANGED handled
      BY <2>3, <3>1, <3>3
    <3>4. QED
      BY <2>4, <3>2, <3>3
  <2>6. TypeOK' /\ Busy'
    BY <2>1, <2>4, <2>5 DEF BusInv, TypeOK, Busy
  <2>7. CopiesOK'
    <3> SUFFICES ASSUME NEW s \in Runs, NEW i \in 1..Len(batch[s])
                 PROVE  batch[s][i].retries <= failed'[batch[s][i].id]
      BY <2>1 DEF CopiesOK, CopyOK
    <3>1. batch[s][i] \in Copy
      BY ElementOfSeq DEF BusInv, TypeOK
    <3>2. batch[s][i].retries <= failed[batch[s][i].id]
      BY DEF BusInv, CopiesOK, CopyOK
    <3>3. QED
      BY <2>5, <3>1, <3>2 DEF Copy, BusInv, TypeOK
  <2>8. TurnsOK'
    <3> SUFFICES ASSUME NEW s \in Runs
                 PROVE  /\ pc'[s] = "handled" => handled'[Current(s).id] > 0
                        /\ pc'[s] = "raised" => Current(s).retries + 1 <= failed'[Current(s).id]
      BY <2>1 DEF TurnsOK, Current
    <3>1. CASE s = r
      BY <2>1, <2>3, <2>4, <3>1 DEF BusInv, TypeOK, e
    <3>2. CASE s # r
      <4>1. pc'[s] = pc[s]
        BY <2>4, <3>2 DEF BusInv, TypeOK
      <4>2. pc[s] # "idle" => Current(s).id \in Events /\ Current(s).retries \in Nat
        BY FirstCopy DEF Copy
      <4>3. QED
        BY <2>5, <4>1, <4>2 DEF BusInv, TypeOK, TurnsOK
    <3>3. QED
      BY <3>1, <3>2
  <2>9. CountsOK' /\ ProcessedWasHandled'
    BY <2>1, <2>5 DEF BusInv, TypeOK, Row, CountsOK, ProcessedWasHandled
  <2>10. QED
    BY <2>6, <2>7, <2>8, <2>9 DEF BusInv
<1>5. ASSUME NEW r \in Runs, SaveProcessed(r) \/ SaveRetry(r)
      PROVE  BusInv'
  <2> DEFINE e == Current(r).id
  <2>1. pc[r] # "idle" /\ UNCHANGED <<last, handled, failed, crashes>> /\ Advance(r)
    BY <1>5 DEF SaveProcessed, SaveRetry
  <2>2. /\ Current(r) \in Copy /\ CopyOK(Current(r)) /\ Len(batch[r]) >= 1
        /\ Tail(batch[r]) \in Seq(Copy) /\ Len(Tail(batch[r])) = Len(batch[r]) - 1
        /\ \A i \in 1..Len(Tail(batch[r])) : CopyOK(Tail(batch[r])[i])
        /\ Len(batch[r]) # 1 => Tail(batch[r]) # <<>>
    BY <2>1, FirstCopy
  <2>3. e \in Events /\ Current(r).retries \in Nat
    BY <2>2 DEF Copy
  <2>4. /\ batch' = [batch EXCEPT ![r] = Tail(batch[r])]
        /\ pc' = [pc EXCEPT ![r] = IF Len(batch[r]) = 1 THEN "idle" ELSE "next"]
    BY <2>1 DEF Advance
  <2>5. \A s \in Runs : /\ batch'[s] = IF s = r THEN Tail(batch[r]) ELSE batch[s]
                        /\ s # r => pc'[s] = pc[s]
                        /\ s = r => pc'[s] = IF Len(batch[r]) = 1 THEN "idle" ELSE "next"
    BY <2>4 DEF BusInv, TypeOK
  <2>6. /\ event' \in [Events -> Row] /\ CountsOK' /\ ProcessedWasHandled'
    <3>1. CASE SaveProcessed(r)
      <4>1. handled[e] > 0
        BY <3>1 DEF SaveProcessed, BusInv, TurnsOK
      <4>2. event' = [event EXCEPT ![e].processed = TRUE]
        BY <3>1 DEF SaveProcessed
      <4>3. QED
        BY <2>1, <2>3, <4>1, <4>2 DEF BusInv, TypeOK, Row, CountsOK, ProcessedWasHandled
    <3>2. CASE SaveRetry(r)
      <4>1. Current(r).retries + 1 <= failed[e]
        BY <3>2 DEF SaveRetry, BusInv, TurnsOK
      <4>2. event' = [event EXCEPT ![e].retries = Current(r).retries + 1]
        BY <3>2 DEF SaveRetry
      <4>3. QED
        <5> DEFINE k == Current(r).retries + 1
        <5>0. k \in Nat /\ event' = [event EXCEPT ![e].retries = k]
          BY <2>3, <4>2
        <5> HIDE DEF e, k
        <5>1. event' \in [Events -> Row]
          BY <2>3, <5>0 DEF BusInv, TypeOK, Row
        <5>2. \A d \in Events :
                /\ event'[d].processed = event[d].processed
                /\ event'[d].retries = IF d = e THEN Current(r).retries + 1 ELSE event[d].retries
          BY <2>3, <5>0 DEF BusInv, TypeOK, Row, k
        <5>3. QED
          BY <2>1, <4>1, <5>1, <5>2 DEF BusInv, CountsOK, ProcessedWasHandled
    <3>3. QED
      BY <1>5, <3>1, <3>2
  <2> HIDE DEF e
  <2>7. TypeOK'
    <3>1. Len(batch[r]) <= BatchSize /\ Len(batch[r]) \in Nat
      BY DEF BusInv, TypeOK
    <3>2. QED
      BY <2>1, <2>2, <2>4, <2>5, <2>6, <3>1 DEF BusInv, TypeOK
  <2>8. Busy'
    BY <2>2, <2>5 DEF BusInv, Busy
  <2>9. CopiesOK'
    BY <2>1, <2>2, <2>5 DEF BusInv, CopiesOK, CopyOK
  <2>10. TurnsOK'
    BY <2>1, <2>5 DEF BusInv, TurnsOK, Current
  <2>11. QED
    BY <2>6, <2>7, <2>8, <2>9, <2>10 DEF BusInv
<1>6. ASSUME NEW r \in Runs, AbandonBatch(r) \/ Crash(r)
      PROVE  BusInv'
  <2>1. /\ batch' = [batch EXCEPT ![r] = <<>>] /\ pc' = [pc EXCEPT ![r] = "idle"]
        /\ UNCHANGED <<event, last, handled, failed>>
        /\ crashes' \in 0..MaxCrashes
    BY <1>6 DEF AbandonBatch, Crash, BusInv, TypeOK
  <2>2. \A s \in Runs : /\ batch'[s] = IF s = r THEN <<>> ELSE batch[s]
                        /\ pc'[s] = IF s = r THEN "idle" ELSE pc[s]
    BY <2>1 DEF BusInv, TypeOK
  <2>3. TypeOK'
    BY <2>1, <2>2 DEF BusInv, TypeOK
  <2>4. Busy' /\ CopiesOK'
    BY <2>1, <2>2 DEF BusInv, Busy, CopiesOK, CopyOK
  <2>5. TurnsOK'
    BY <2>1, <2>2 DEF BusInv, TurnsOK, Current
  <2>6. QED
    BY <2>1, <2>3, <2>4, <2>5 DEF BusInv, CountsOK, ProcessedWasHandled
<1>7. CASE UNCHANGED vars
  BY <1>7 DEF vars, BusInv, TypeOK, Busy, CopiesOK, CopyOK, TurnsOK, Current, CountsOK,
              ProcessedWasHandled
<1>8. QED
  BY <1>1, <1>2, <1>3, <1>4, <1>5, <1>6, <1>7 DEF Next, Work

LEMMA BusInitInv == ASSUME Init PROVE BusInv
<1>1. \A r \in Runs : batch[r] = <<>> /\ Len(batch[r]) = 0 /\ pc[r] = "idle"
  BY DEF Init
<1>2. \A e \in Events : event[e].retries = 0 /\ ~event[e].processed /\ failed[e] = 0
  BY DEF Init
<1>3. event \in [Events -> Row]
  <2>1. [kind : Kinds, stored : {FALSE}, processed : {FALSE}, retries : {0}] \subseteq Row
    <3>1. {FALSE} \subseteq BOOLEAN /\ {0} \subseteq Nat
      OBVIOUS
    <3>2. \A A, B \in SUBSET BOOLEAN, C \in SUBSET Nat :
            [kind : Kinds, stored : A, processed : B, retries : C] \subseteq Row
      BY DEF Row
    <3>3. QED
      BY <3>1, <3>2
  <2>2. QED
    BY <2>1 DEF Init
<1>4. TypeOK
  BY <1>1, <1>3, EventBusAssumption DEF Init, TypeOK
<1>5. QED
  BY <1>1, <1>2, <1>4 DEF BusInv, Busy, CopiesOK, TurnsOK, CountsOK, ProcessedWasHandled

LEMMA BusInvariant == Spec => []BusInv
  BY BusInitInv, BusStep, PTL DEF Spec

\* The event bus delivers at least once: an event marked as processed has been
\* handled, whatever runs of process_events overlap, die or find rows deleted.
THEOREM DeliveredAtLeastOnce == Spec => []ProcessedWasHandled
<1>1. BusInv => ProcessedWasHandled
  BY DEF BusInv
<1>2. QED
  BY <1>1, BusInvariant, PTL

\* An event is given up for its own failures: runs that overlap count none twice.
THEOREM GivenUpForItsFailures == Spec => []GivenUpAfterLimit
<1>1. BusInv => GivenUpAfterLimit
  BY EventBusAssumption DEF BusInv, TypeOK, Row, CountsOK, GivenUpAfterLimit
<1>2. QED
  BY <1>1, BusInvariant, PTL

-----------------------------------------------------------------------------
(* The audit trail                                                         *)

Stages == {"start", "linked", "stamped", "inserted", "done", "abandoned", "lost"}
Stamped(c) == stage[c] \in {"stamped", "inserted", "done", "abandoned"}

\* The sealed rows of a type, and those before a row.
Sealed(t) == {d \in Calls : type[d] = t /\ stage[d] = "done"}
Earlier(c) == {d \in Sealed(type[c]) : stamp[d] < stamp[c]}

\* c points to the newest of the rows D, to the root when there are none.
Newest(D, d) == d \in D /\ \A e \in D : stamp[e] <= stamp[d]
LinkedTo(c, D) == /\ D = {} => previous[c] = Root
                  /\ \A d \in D : Newest(D, d) => previous[c] = hash[d]

\* A call has a row with a moment of its own.
StampsDiffer == \A c, d \in Calls :
  Stamped(c) /\ Stamped(d) /\ c # d => stamp[c] # stamp[d]

SealedOnce == \A c \in Calls :
  stage[c] = "done" => hash[c] = Digest(c, previous[c])

\* Of a type whose calls did not overlap: one call at a time, no placeholder left
\* behind, each row linked to the one before.
OneAtATime == \A c, d \in Calls :
  type[c] = type[d] /\ type[c] \notin raced /\ InFlight(c) /\ InFlight(d) => c = d
NoneAbandoned == \A c \in Calls : type[c] \notin raced => stage[c] # "abandoned"
FlightLinked == \A c \in Calls :
  type[c] \notin raced /\ InFlight(c) =>
    /\ LinkedTo(c, Sealed(type[c]))
    /\ stage[c] # "linked" => \A d \in Sealed(type[c]) : stamp[d] < stamp[c]
SealedLinked == \A c \in Calls :
  type[c] \notin raced /\ stage[c] = "done" => LinkedTo(c, Earlier(c))

\* A call that has not begun has nobody beside it.
Fresh == \A c \in Calls : stage[c] = "start" => beside[c] = {}

AuditInv ==
  /\ AuditTypes /\ StampsDiffer /\ SealedOnce /\ Fresh
  /\ OneAtATime /\ NoneAbandoned /\ FlightLinked /\ SealedLinked

\* A raced type remains one, and becomes one through a reader or a placeholder only.
LEMMA RacedKept ==
  ASSUME AuditInv, type' = type,
         \A d \in Calls : /\ beside'[d] = beside[d] \/ stage[d] = "start"
                          /\ stage[d] = "abandoned" => stage'[d] = "abandoned"
  PROVE  /\ raced \subseteq raced'
         /\ (\A d \in Calls : /\ beside'[d] = beside[d]
                              /\ stage'[d] = "abandoned" => stage[d] = "abandoned")
              => raced' = raced
<1>1. ASSUME NEW u \in raced PROVE u \in raced'
  <2>1. PICK d \in Calls : type[d] = u /\ (beside[d] # {} \/ stage[d] = "abandoned")
    BY DEF raced
  <2>2. beside[d] # {} => stage[d] # "start" /\ beside'[d] = beside[d]
    BY <2>1 DEF AuditInv, Fresh
  <2>3. stage[d] = "abandoned" => stage'[d] = "abandoned"
    BY <2>1
  <2>4. beside'[d] # {} \/ stage'[d] = "abandoned"
    BY <2>1, <2>2, <2>3
  <2>5. type'[d] = u
    BY <2>1
  <2>6. QED
    BY <2>4, <2>5 DEF raced
<1>2. ASSUME \A d \in Calls : /\ beside'[d] = beside[d]
                              /\ stage'[d] = "abandoned" => stage[d] = "abandoned",
             NEW u \in raced'
      PROVE  u \in raced
  <2>1. PICK d \in Calls : type'[d] = u /\ (beside'[d] # {} \/ stage'[d] = "abandoned")
    BY DEF raced
  <2>2. beside[d] # {} \/ stage[d] = "abandoned"
    BY <1>2, <2>1
  <2>3. type[d] = u
    BY <2>1
  <2>4. QED
    BY <2>2, <2>3 DEF raced
<1>3. QED
  BY <1>1, <1>2

\* Of a nonempty set of rows one has the last moment.
LEMMA SomeNewest ==
  ASSUME AuditTypes, NEW D \in SUBSET Calls, D # {}
  PROVE  \E d \in D : Newest(D, d)
<1> DEFINE T == {clock - stamp[d] : d \in D}
<1>1. \A d \in D : stamp[d] \in Nat /\ stamp[d] <= clock /\ clock \in Nat
  BY DEF AuditTypes
<1>2. T \in SUBSET Nat /\ T # {}
  BY <1>1
<1>3. PICK n \in T : \A m \in T : n <= m
  BY <1>2, LeastNumber
<1>4. PICK d \in D : n = clock - stamp[d]
  BY <1>3
<1>5. \A e \in D : clock - stamp[d] <= clock - stamp[e]
  BY <1>3, <1>4
<1>6. \A e \in D : stamp[e] <= stamp[d]
  BY <1>1, <1>5
<1>7. QED
  BY <1>6 DEF Newest

\* An enumeration of a set of calls names each of them.
LEMMA Enumerated ==
  ASSUME NEW D \in SUBSET Calls, NEW q \in SetToSeqs(D)
  PROVE  /\ IsFiniteSet(D) /\ Len(q) \in Nat /\ Len(q) = Cardinality(D)
         /\ q \in [1..Len(q) -> D] /\ q \in Seq(D)
         /\ \A d \in D : \E i \in 1..Len(q) : q[i] = d
<1> DEFINE n == Cardinality(D)
<1>1. IsFiniteSet(D) /\ n \in Nat
  BY AuditAssumption, FS_Subset, FS_CardinalityType
<1>2. q \in [1..n -> D] /\ \A i, j \in 1..n : i # j => q[i] # q[j]
  BY DEF SetToSeqs
<1>3. q \in Seq(D) /\ Len(q) = n
  BY <1>1, <1>2
<1>4. q \in Injection(1..n, D)
  BY <1>2 DEF Injection, IsInjective
<1>5. IsFiniteSet(1..n) /\ Cardinality(1..n) = n
  BY <1>1, FS_Interval
<1>6. q \in Surjection(1..n, D)
  BY <1>1, <1>4, <1>5, FS_Injection
<1>7. \A d \in D : \E i \in 1..n : q[i] = d
  BY <1>6 DEF Surjection
<1>8. QED
  BY <1>1, <1>2, <1>3, <1>7

\* The rows of a set of calls have one order by created_at.
LEMMA InOrder ==
  ASSUME AuditTypes, NEW D \in SUBSET Calls,
         \A c, d \in D : c # d => stamp[c] # stamp[d]
  PROVE  \E q \in SetToSeqs(D) : Ordered(q)
<1> DEFINE Q == {s \in SUBSET D : \E q \in SetToSeqs(s) : Ordered(q)}
<1>1. IsFiniteSet(D)
  BY AuditAssumption, FS_Subset
<1>2. {} \in Q
  <2>1. Cardinality({}) = 0 /\ 1..0 = {}
    BY FS_EmptySet
  <2>2. <<>> \in [1..0 -> {}]
    OBVIOUS
  <2>3. <<>> \in SetToSeqs({}) /\ Ordered(<<>>)
    BY <2>1, <2>2 DEF SetToSeqs, Ordered
  <2>4. QED
    BY <2>3
<1>3. ASSUME NEW s \in SUBSET D, s # {}, \A x \in s : s \ {x} \in Q
      PROVE  s \in Q
  <2>1. PICK m \in s : Newest(s, m)
    BY <1>3, SomeNewest
  <2>2. PICK q \in SetToSeqs(s \ {m}) : Ordered(q)
    BY <1>3
  <2> DEFINE n == Len(q)
             longer == Append(q, m)
  <2>3. n \in Nat /\ n = Cardinality(s \ {m}) /\ q \in [1..n -> s \ {m}] /\ q \in Seq(s \ {m})
    BY Enumerated
  <2>4. Cardinality(s) = n + 1
    BY <1>1, <2>3, SmallerSubset
  <2>5. /\ longer \in Seq(s) /\ Len(longer) = n + 1 /\ longer[n + 1] = m
        /\ \A i \in 1..n : longer[i] = q[i] /\ q[i] \in s \ {m}
    <3>1. q \in Seq(s) /\ m \in s
      BY <2>3
    <3>2. \A i \in 1..n : q[i] \in s \ {m}
      BY <2>3
    <3>3. QED
      BY <3>1, <3>2
  <2>6. longer \in [1..(n + 1) -> s]
    <3> HIDE DEF longer, n
    <3>1. QED
      BY <2>3, <2>5
  <2>7. \A i, j \in 1..n : i # j => q[i] # q[j]
    BY <2>3 DEF SetToSeqs
  <2>8. \A i, j \in 1..(n + 1) : i # j => longer[i] # longer[j]
    <3> SUFFICES ASSUME NEW i \in 1..(n + 1), NEW j \in 1..(n + 1), i # j
                 PROVE  longer[i] # longer[j]
      OBVIOUS
    <3> HIDE DEF longer
    <3>1. i \in 1..n \/ i = n + 1
      BY <2>3
    <3>2. j \in 1..n \/ j = n + 1
      BY <2>3
    <3>3. QED
      BY <2>5, <2>7, <3>1, <3>2
  <2>9. longer \in SetToSeqs(s)
    BY <2>4, <2>6, <2>8 DEF SetToSeqs
  <2>10. \A i \in 1..n : stamp[q[i]] < stamp[m]
    <3> SUFFICES ASSUME NEW i \in 1..n PROVE stamp[q[i]] < stamp[m]
      OBVIOUS
    <3>1. q[i] \in s /\ q[i] # m /\ q[i] \in D /\ m \in D
      BY <2>5
    <3>2. stamp[q[i]] <= stamp[m] /\ stamp[q[i]] # stamp[m]
      BY <2>1, <3>1 DEF Newest
    <3>3. stamp[q[i]] \in Int /\ stamp[m] \in Int
      BY <3>1 DEF AuditTypes
    <3>4. QED
      BY <3>2, <3>3
  <2>11. Ordered(longer)
    <3> SUFFICES ASSUME NEW i \in 1..(n + 1), NEW j \in 1..(n + 1), i < j
                 PROVE  stamp[longer[i]] < stamp[longer[j]]
      BY <2>5 DEF Ordered
    <3> HIDE DEF longer
    <3>1. i \in 1..n /\ (j \in 1..n \/ j = n + 1)
      BY <2>3
    <3>2. QED
      BY <2>2, <2>5, <2>10, <3>1 DEF Ordered
  <2>12. QED
    BY <2>9, <2>11
<1> HIDE DEF Q
<1>4. SUBSET D \subseteq Q
  BY <1>1, <1>2, <1>3, RemovingElements
<1>5. QED
  BY <1>4 DEF Q

\* Chain is that order.
LEMMA ChainInOrder ==
  ASSUME AuditTypes, StampsDiffer, NEW group \in SUBSET Calls
  PROVE  /\ Chain(group) \in SetToSeqs(Inserted(group)) /\ Ordered(Chain(group))
         /\ Len(Chain(group)) \in Nat /\ Chain(group) \in Seq(Inserted(group))
         /\ Chain(group) \in [1..Len(Chain(group)) -> Inserted(group)]
         /\ \A d \in Inserted(group) : \E i \in 1..Len(Chain(group)) : Chain(group)[i] = d
<1>1. Inserted(group) \in SUBSET Calls
  BY DEF Inserted
<1>2. \A c, d \in Inserted(group) : c # d => stamp[c] # stamp[d]
  BY DEF StampsDiffer, Stamped, Inserted
<1>3. \E q \in SetToSeqs(Inserted(group)) : Ordered(q)
  BY <1>1, <1>2, InOrder
<1>4. Chain(group) \in SetToSeqs(Inserted(group)) /\ Ordered(Chain(group))
  BY <1>3 DEF Chain
<1>5. QED
  BY <1>1, <1>4, Enumerated

\* A step that leaves the sealed rows alone leaves their links and digests right.
LEMMA RowsKept ==
  ASSUME AuditInv, UNCHANGED <<type, hash>>, raced \subseteq raced',
         \A d \in Calls :
           /\ stage'[d] = "done" <=> stage[d] = "done"
           /\ stage[d] = "done" => stamp'[d] = stamp[d] /\ previous'[d] = previous[d]
  PROVE  /\ SealedOnce' /\ SealedLinked'
         /\ \A t \in Types : Sealed(t)' = Sealed(t)
         /\ \A t \in Types : \A d \in Sealed(t) :
              stamp'[d] = stamp[d] /\ (Newest(Sealed(t), d)' <=> Newest(Sealed(t), d))
<1>1. \A t \in Types : Sealed(t)' = Sealed(t)
  BY DEF Sealed
<1>2. \A t \in Types : \A d \in Sealed(t) : d \in Calls /\ stage[d] = "done" /\ stamp'[d] = stamp[d]
  BY DEF Sealed
<1>3. \A t \in Types : \A d \in Sealed(t) : Newest(Sealed(t), d)' <=> Newest(Sealed(t), d)
  BY <1>1, <1>2 DEF Newest
<1>4. SealedOnce'
  BY DEF AuditInv, SealedOnce, Digest
<1>5. SealedLinked'
  <2> SUFFICES ASSUME NEW c \in Calls, type[c] \notin raced', stage'[c] = "done"
               PROVE  LinkedTo(c, Earlier(c))'
    BY DEF SealedLinked
  <2>1. LinkedTo(c, Earlier(c)) /\ stage[c] = "done" /\ type[c] \in Types
    BY DEF AuditInv, AuditTypes, SealedLinked
  <2>2. Earlier(c)' = Earlier(c) /\ Earlier(c) \subseteq Sealed(type[c])
    BY <1>1, <1>2, <2>1 DEF Earlier
  <2>3. \A d \in Earlier(c) : Newest(Earlier(c), d)' <=> Newest(Earlier(c), d)
    BY <1>2, <2>1, <2>2 DEF Newest
  <2>4. previous'[c] = previous[c]
    BY <2>1
  <2>5. QED
    BY <2>1, <2>2, <2>3, <2>4 DEF LinkedTo, Root
<1>6. QED
  BY <1>1, <1>2, <1>3, <1>4, <1>5

\* What the others of an unraced type in flight rest on is kept with it.
LEMMA FlightsKept ==
  ASSUME AuditInv, UNCHANGED <<type, hash>>, raced \subseteq raced',
         \A d \in Calls :
           /\ stage'[d] = "done" <=> stage[d] = "done"
           /\ stage[d] = "done" => stamp'[d] = stamp[d] /\ previous'[d] = previous[d],
         NEW c \in Calls, previous'[c] = previous[c], type[c] \notin raced', InFlight(c)
  PROVE  /\ LinkedTo(c, Sealed(type[c]))'
         /\ stamp'[c] = stamp[c] /\ stage[c] # "linked" =>
              \A d \in Sealed(type[c])' : stamp'[d] < stamp'[c]
<1>1. /\ type[c] \in Types /\ LinkedTo(c, Sealed(type[c]))
      /\ stage[c] # "linked" => \A d \in Sealed(type[c]) : stamp[d] < stamp[c]
  BY DEF AuditInv, AuditTypes, FlightLinked
<1>2. /\ Sealed(type[c])' = Sealed(type[c])
      /\ \A d \in Sealed(type[c]) :
           stamp'[d] = stamp[d] /\ (Newest(Sealed(type[c]), d)' <=> Newest(Sealed(type[c]), d))
  <2>1. \A t \in Types : Sealed(t)' = Sealed(t)
    BY RowsKept
  <2>2. \A t \in Types : \A d \in Sealed(t) :
          stamp'[d] = stamp[d] /\ (Newest(Sealed(t), d)' <=> Newest(Sealed(t), d))
    BY RowsKept
  <2>3. QED
    BY <1>1, <2>1, <2>2
<1>3. QED
  BY <1>1, <1>2 DEF LinkedTo, Root

\* Whoever reads the last row of an unraced type is alone and links to the newest row.
LEMMA ReadLastKeeps ==
  ASSUME AuditInv, NEW c \in Calls, ReadLast(c)
  PROVE  AuditInv'
<1> DEFINE t == type[c]
           chain == Chain(OfType(t))
<1>1. /\ stage[c] = "start" /\ stage' = [stage EXCEPT ![c] = "linked"]
      /\ UNCHANGED <<type, stamp, hash, clock, deaths>>
      /\ previous' = [previous EXCEPT ![c] = IF chain = <<>> THEN Root ELSE hash[Last(chain)]]
      /\ beside' = [beside EXCEPT ![c] = Flying(t)]
  BY DEF ReadLast, Goto
<1>2. /\ \A d \in Calls : d # c => stage'[d] = stage[d] /\ previous'[d] = previous[d]
      /\ stage'[c] = "linked" /\ t \in Types /\ stage' \in [Calls -> Stages]
      /\ \A d \in Calls : d # c => beside'[d] = beside[d]
      /\ beside'[c] = Flying(t) /\ Flying(t) \subseteq Calls
  BY <1>1 DEF AuditInv, AuditTypes, Stages, Flying, OfType
<1>r. raced \subseteq raced' /\ (t \notin raced' => Flying(t) = {})
  <2>1. raced \subseteq raced'
    BY <1>1, <1>2, RacedKept
  <2>2. Flying(t) # {} => t \in raced'
    BY <1>1, <1>2 DEF raced
  <2>3. QED
    BY <2>1, <2>2
<1>3. /\ chain \in SetToSeqs(Inserted(OfType(t))) /\ Ordered(chain)
      /\ Len(chain) \in Nat /\ chain \in Seq(Inserted(OfType(t)))
      /\ chain \in [1..Len(chain) -> Inserted(OfType(t))]
      /\ \A d \in Inserted(OfType(t)) : \E i \in 1..Len(chain) : chain[i] = d
  <2>1. OfType(t) \in SUBSET Calls
    BY DEF OfType
  <2>2. QED
    BY <2>1, ChainInOrder DEF AuditInv
<1> HIDE DEF chain, t
<1>4. chain # <<>> => /\ Len(chain) \in 1..Len(chain) /\ Last(chain) = chain[Len(chain)]
                      /\ Last(chain) \in Inserted(OfType(t))
  <2>1. chain # <<>> => Len(chain) # 0
    BY <1>3
  <2>2. QED
    BY <1>3, <2>1 DEF Last
<1>5. previous'[c] \in Seq(Calls \cup {Temp}) /\ previous' \in [Calls -> Seq(Calls \cup {Temp})]
  <2>1. Inserted(OfType(t)) \subseteq Calls
    BY DEF Inserted, OfType
  <2>2. (IF chain = <<>> THEN Root ELSE hash[Last(chain)]) \in Seq(Calls \cup {Temp})
    BY <1>4, <2>1 DEF AuditInv, AuditTypes, Root
  <2>3. QED
    BY <1>1, <2>2 DEF AuditInv, AuditTypes
<1>6. \A d \in Calls : /\ stage'[d] = "done" <=> stage[d] = "done"
                       /\ stage[d] = "done" => stamp'[d] = stamp[d] /\ previous'[d] = previous[d]
  BY <1>1, <1>2
<1>7. AuditTypes' /\ Fresh'
  BY <1>1, <1>2, <1>5 DEF Fresh, AuditInv, AuditTypes, Stages
<1>8. StampsDiffer'
  BY <1>1, <1>2 DEF AuditInv, StampsDiffer, Stamped
<1>9. SealedOnce' /\ SealedLinked'
  BY <1>1, <1>2, <1>r, <1>6, RowsKept
<1>10. t \notin raced' => \A d \in Calls : type[d] = t => ~ InFlight(d)
  BY <1>r DEF Flying, OfType
<1>11. OneAtATime'
  BY <1>1, <1>2, <1>r, <1>10 DEF AuditInv, OneAtATime, InFlight, t
<1>12. NoneAbandoned'
  BY <1>1 DEF NoneAbandoned, raced
<1>13. FlightLinked'
  <2> SUFFICES ASSUME NEW d \in Calls, type[d] \notin raced', InFlight(d)'
               PROVE  /\ LinkedTo(d, Sealed(type[d]))'
                      /\ stage'[d] # "linked" => \A e \in Sealed(type[d])' : stamp'[e] < stamp'[d]
    BY <1>1 DEF FlightLinked
  <2>1. CASE d # c
    <3>1. InFlight(d) /\ stage'[d] = stage[d] /\ previous'[d] = previous[d] /\ stamp'[d] = stamp[d]
      BY <1>1, <1>2, <2>1 DEF InFlight
    <3>2. QED
      BY <1>1, <1>2, <1>r, <1>6, <3>1, FlightsKept
  <2>2. CASE d = c
    <3>1. Inserted(OfType(t)) = Sealed(t)
      <4>1. \A e \in Calls : type[e] = t => stage[e] # "inserted" /\ stage[e] # "abandoned"
        BY <1>2, <1>r, <1>10, <2>2 DEF AuditInv, NoneAbandoned, InFlight, t
      <4>2. QED
        BY <4>1 DEF Inserted, OfType, Sealed
    <3>2. Sealed(t)' = Sealed(t)
      <4>1. \A u \in Types : Sealed(u)' = Sealed(u)
        BY <1>1, <1>2, <1>r, <1>6, RowsKept
      <4>2. t' = t
        BY <1>1 DEF t
      <4>3. QED
        BY <1>2, <4>1, <4>2 DEF Sealed
    <3>3. CASE chain = <<>>
      <4>1. Sealed(t) = {}
        BY <1>3, <3>1, <3>3
      <4>2. previous'[c] = Root
        BY <1>1, <3>3 DEF AuditInv, AuditTypes
      <4>3. LinkedTo(c, Sealed(t))'
        BY <3>2, <4>1, <4>2 DEF LinkedTo, Root
      <4>4. QED
        BY <1>1, <1>2, <2>2, <4>3 DEF t
    <3>4. CASE chain # <<>>
      <4> DEFINE l == Last(chain)
      <4>1. previous'[c] = hash[l]
        BY <1>1, <3>4 DEF AuditInv, AuditTypes
      <4>2. l \in Sealed(t)
        BY <1>4, <3>1, <3>4
      <4>3. \A e \in Sealed(t) : e # l => stamp[e] < stamp[l]
        <5> SUFFICES ASSUME NEW e \in Sealed(t), e # l PROVE stamp[e] < stamp[l]
          OBVIOUS
        <5>1. PICK i \in 1..Len(chain) : chain[i] = e
          BY <1>3, <3>1
        <5>2. i # Len(chain) /\ i < Len(chain)
          BY <1>3, <1>4, <3>4, <5>1
        <5>3. QED
          BY <1>3, <1>4, <3>4, <5>1, <5>2 DEF Ordered
      <4>4. \A e \in Sealed(t) : stamp[e] \in Int
        BY DEF Sealed, AuditInv, AuditTypes
      <4> HIDE DEF l
      <4>5. \A e \in Sealed(t) : Newest(Sealed(t), e) => e = l
        BY <4>2, <4>3, <4>4 DEF Newest
      <4>6. \A e \in Sealed(t) : Newest(Sealed(t), e)' <=> Newest(Sealed(t), e)
        BY <1>1, <3>2 DEF Newest
      <4>7. LinkedTo(c, Sealed(t))'
        BY <1>1, <3>2, <4>1, <4>2, <4>5, <4>6 DEF LinkedTo
      <4>8. QED
        BY <1>1, <1>2, <2>2, <4>7 DEF t
    <3>5. QED
      BY <3>3, <3>4
  <2>3. QED
    BY <2>1, <2>2
<1>14. QED
  BY <1>7, <1>8, <1>9, <1>11, <1>12, <1>13 DEF AuditInv

\* A new moment is later than that of any row.
LEMMA StampKeeps ==
  ASSUME AuditInv, NEW c \in Calls, Stamp(c)
  PROVE  AuditInv'
<1>1. /\ stage[c] = "linked" /\ stage' = [stage EXCEPT ![c] = "stamped"]
      /\ clock' = clock + 1 /\ stamp' = [stamp EXCEPT ![c] = clock + 1]
      /\ UNCHANGED <<type, previous, hash, deaths, beside>>
  BY DEF Stamp, Goto
<1>2. /\ \A d \in Calls : d # c => stage'[d] = stage[d] /\ stamp'[d] = stamp[d]
      /\ stage'[c] = "stamped" /\ stamp'[c] = clock + 1 /\ clock \in Nat
      /\ \A d \in Calls : stamp[d] \in 0..clock
  BY <1>1 DEF AuditInv, AuditTypes
<1>r. raced' = raced
  BY <1>1, <1>2, RacedKept
<1>3. AuditTypes'
  <2>1. stamp' \in [Calls -> 0..clock']
    BY <1>1, <1>2 DEF AuditInv, AuditTypes
  <2>2. QED
    BY <1>1, <2>1 DEF AuditInv, AuditTypes
<1>4. StampsDiffer'
  <2> SUFFICES ASSUME NEW d \in Calls, NEW e \in Calls, Stamped(d)', Stamped(e)', d # e
               PROVE  stamp'[d] # stamp'[e]
    BY DEF StampsDiffer
  <2>1. CASE d = c \/ e = c
    BY <1>2, <2>1
  <2>2. CASE d # c /\ e # c
    BY <1>2, <2>2 DEF AuditInv, StampsDiffer, Stamped
  <2>3. QED
    BY <2>1, <2>2
<1>5. \A d \in Calls : /\ stage'[d] = "done" <=> stage[d] = "done"
                       /\ stage[d] = "done" => stamp'[d] = stamp[d] /\ previous'[d] = previous[d]
  BY <1>1, <1>2
<1>6. SealedOnce' /\ SealedLinked'
  BY <1>1, <1>5, <1>r, RowsKept
<1>7. OneAtATime' /\ NoneAbandoned'
  <2>1. \A d \in Calls : InFlight(d)' <=> InFlight(d)
    BY <1>1, <1>2 DEF InFlight
  <2>2. QED
    BY <1>r, <1>1, <1>2, <2>1 DEF AuditInv, OneAtATime, NoneAbandoned
<1>8. FlightLinked'
  <2> SUFFICES ASSUME NEW d \in Calls, type[d] \notin raced', InFlight(d)'
               PROVE  /\ LinkedTo(d, Sealed(type[d]))'
                      /\ stage'[d] # "linked" => \A e \in Sealed(type[d])' : stamp'[e] < stamp'[d]
    BY <1>1, <1>r DEF FlightLinked
  <2>1. InFlight(d) /\ previous'[d] = previous[d]
    BY <1>1, <1>2 DEF InFlight
  <2>2. /\ LinkedTo(d, Sealed(type[d]))'
        /\ stamp'[d] = stamp[d] /\ stage[d] # "linked" =>
             \A e \in Sealed(type[d])' : stamp'[e] < stamp'[d]
    BY <1>1, <1>5, <2>1, <1>r, FlightsKept
  <2>3. CASE d # c
    BY <1>2, <2>2, <2>3
  <2>4. CASE d = c
    <3>1. \A e \in Sealed(type[d])' : e \in Calls /\ e # c
      BY <1>2 DEF Sealed
    <3>2. \A e \in Sealed(type[d])' : stamp'[e] < stamp'[c]
      BY <1>2, <3>1
    <3>3. QED
      BY <2>2, <2>4, <3>2
  <2>5. QED
    BY <2>3, <2>4
<1>f. Fresh'
  BY <1>1, <1>2 DEF AuditInv, Fresh
<1>9. QED
  BY <1>f, <1>3, <1>4, <1>6, <1>7, <1>8 DEF AuditInv

\* The inserted row is still in flight.
LEMMA InsertKeeps ==
  ASSUME AuditInv, NEW c \in Calls, Insert(c)
  PROVE  AuditInv'
<1>1. /\ stage[c] = "stamped" /\ stage' = [stage EXCEPT ![c] = "inserted"]
      /\ UNCHANGED <<type, previous, stamp, hash, clock, deaths, beside>>
  BY DEF Insert, Goto
<1>2. /\ \A d \in Calls : d # c => stage'[d] = stage[d]
      /\ stage'[c] = "inserted"
  BY <1>1 DEF AuditInv, AuditTypes
<1>r. raced' = raced
  BY <1>1, <1>2, RacedKept
<1>3. AuditTypes' /\ StampsDiffer'
  BY <1>1, <1>2 DEF AuditInv, AuditTypes, StampsDiffer, Stamped
<1>4. \A d \in Calls : /\ stage'[d] = "done" <=> stage[d] = "done"
                       /\ stage[d] = "done" => stamp'[d] = stamp[d] /\ previous'[d] = previous[d]
  BY <1>1, <1>2
<1>5. SealedOnce' /\ SealedLinked'
  BY <1>1, <1>4, <1>r, RowsKept
<1>6. \A d \in Calls : InFlight(d)' <=> InFlight(d)
  BY <1>1, <1>2 DEF InFlight
<1>7. OneAtATime' /\ NoneAbandoned'
  BY <1>r, <1>1, <1>2, <1>6 DEF AuditInv, OneAtATime, NoneAbandoned
<1>8. FlightLinked'
  <2> SUFFICES ASSUME NEW d \in Calls, type[d] \notin raced', InFlight(d)
               PROVE  /\ LinkedTo(d, Sealed(type[d]))'
                      /\ stage'[d] # "linked" => \A e \in Sealed(type[d])' : stamp'[e] < stamp'[d]
    BY <1>1, <1>6, <1>r DEF FlightLinked
  <2>1. /\ LinkedTo(d, Sealed(type[d]))'
        /\ stamp'[d] = stamp[d] /\ stage[d] # "linked" =>
             \A e \in Sealed(type[d])' : stamp'[e] < stamp'[d]
    BY <1>1, <1>4, <1>r, FlightsKept
  <2>2. QED
    BY <1>1, <1>2, <2>1
<1>f. Fresh'
  BY <1>1, <1>2 DEF AuditInv, Fresh
<1>9. QED
  BY <1>f, <1>3, <1>5, <1>7, <1>8 DEF AuditInv

\* A call that dies leaves no row, or a placeholder and a raced type.
LEMMA DieKeeps ==
  ASSUME AuditInv, NEW c \in Calls, Die(c)
  PROVE  AuditInv'
<1>1. /\ InFlight(c) /\ deaths < MaxDeaths /\ deaths' = deaths + 1
      /\ stage' = [stage EXCEPT ![c] = IF stage[c] = "inserted" THEN "abandoned" ELSE "lost"]
      /\ UNCHANGED <<type, previous, stamp, hash, clock, beside>>
  BY DEF Die, Goto
<1>2. /\ \A d \in Calls : d # c => stage'[d] = stage[d]
      /\ stage'[c] = IF stage[c] = "inserted" THEN "abandoned" ELSE "lost"
      /\ ~ InFlight(c)' /\ stage[c] # "abandoned" /\ stage[c] # "start"
  BY <1>1 DEF AuditInv, AuditTypes, InFlight
<1>r. raced \subseteq raced'
  BY <1>1, <1>2, RacedKept
<1>3. AuditTypes'
  <2>1. deaths' \in 0..MaxDeaths
    BY <1>1, AuditAssumption DEF AuditInv, AuditTypes
  <2>2. QED
    BY <1>1, <2>1 DEF AuditInv, AuditTypes
<1>4. StampsDiffer'
  BY <1>1, <1>2 DEF AuditInv, StampsDiffer, Stamped
<1>5. \A d \in Calls : /\ stage'[d] = "done" <=> stage[d] = "done"
                       /\ stage[d] = "done" => stamp'[d] = stamp[d] /\ previous'[d] = previous[d]
  BY <1>1, <1>2 DEF InFlight
<1>6. SealedOnce' /\ SealedLinked'
  BY <1>1, <1>2, <1>5, <1>r, RowsKept
<1>7. OneAtATime'
  BY <1>r, <1>1, <1>2 DEF AuditInv, OneAtATime, InFlight
<1>8. NoneAbandoned'
  BY <1>1 DEF NoneAbandoned, raced
<1>9. FlightLinked'
  <2> SUFFICES ASSUME NEW d \in Calls, type[d] \notin raced', InFlight(d)'
               PROVE  /\ LinkedTo(d, Sealed(type[d]))'
                      /\ stage'[d] # "linked" => \A e \in Sealed(type[d])' : stamp'[e] < stamp'[d]
    BY <1>1, <1>r DEF FlightLinked
  <2>1. d # c /\ stage'[d] = stage[d] /\ InFlight(d)
    BY <1>2 DEF InFlight
  <2>2. /\ LinkedTo(d, Sealed(type[d]))'
        /\ stamp'[d] = stamp[d] /\ stage[d] # "linked" =>
             \A e \in Sealed(type[d])' : stamp'[e] < stamp'[d]
    BY <1>1, <1>2, <1>5, <2>1, <1>r, FlightsKept
  <2>3. QED
    BY <1>1, <2>1, <2>2
<1>f. Fresh'
  BY <1>1, <1>2 DEF AuditInv, Fresh
<1>10. QED
  BY <1>f, <1>3, <1>4, <1>6, <1>7, <1>8, <1>9 DEF AuditInv

\* A sealed row comes after all the others of its type, whose links stay as they are.
LEMMA SealKeeps ==
  ASSUME AuditInv, NEW c \in Calls, Seal(c)
  PROVE  AuditInv'
<1>1. /\ stage[c] = "inserted" /\ stage' = [stage EXCEPT ![c] = "done"]
      /\ hash' = [hash EXCEPT ![c] = Digest(c, previous[c])]
      /\ UNCHANGED <<type, previous, stamp, clock, deaths, beside>>
  BY DEF Seal, Goto
<1>2. /\ \A d \in Calls : d # c => stage'[d] = stage[d] /\ hash'[d] = hash[d]
      /\ stage'[c] = "done" /\ hash'[c] = Digest(c, previous[c])
      /\ \A d \in Calls : stamp[d] \in Nat
  BY <1>1 DEF AuditInv, AuditTypes
<1>r. raced' = raced
  BY <1>1, <1>2, RacedKept
<1>3. AuditTypes'
  <2>1. Digest(c, previous[c]) \in Seq(Calls \cup {Temp})
    BY DEF AuditInv, AuditTypes, Digest
  <2>2. QED
    BY <1>1, <2>1 DEF AuditInv, AuditTypes
<1>4. StampsDiffer'
  BY <1>1, <1>2 DEF AuditInv, StampsDiffer, Stamped
<1>5. SealedOnce'
  <2>1. \A d \in Calls : Digest(d, previous[d])' = Digest(d, previous[d])
    BY <1>1 DEF Digest
  <2>2. QED
    BY <1>1, <1>2, <2>1 DEF AuditInv, SealedOnce
<1>6. OneAtATime' /\ NoneAbandoned'
  BY <1>r, <1>1, <1>2 DEF AuditInv, OneAtATime, InFlight, NoneAbandoned
<1>7. /\ \A t \in Types : t # type[c] => Sealed(t)' = Sealed(t)
      /\ Sealed(type[c])' = Sealed(type[c]) \cup {c}
      /\ \A t \in Types : c \notin Sealed(t)
  BY <1>1, <1>2 DEF Sealed
<1>8. \A D \in SUBSET Calls : c \notin D =>
        /\ \A d \in D : Newest(D, d)' <=> Newest(D, d)
        /\ \A d \in Calls : LinkedTo(d, D) => LinkedTo(d, D)'
  <2> SUFFICES ASSUME NEW D \in SUBSET Calls, c \notin D
               PROVE  /\ \A d \in D : Newest(D, d)' <=> Newest(D, d)
                      /\ \A d \in Calls : LinkedTo(d, D) => LinkedTo(d, D)'
    OBVIOUS
  <2>1. \A d \in D : Newest(D, d)' <=> Newest(D, d)
    BY <1>1 DEF Newest
  <2>2. \A d \in D : hash'[d] = hash[d]
    BY <1>2
  <2>3. QED
    BY <1>1, <2>1, <2>2 DEF LinkedTo, Root
<1>9. type[c] \notin raced =>
        /\ LinkedTo(c, Sealed(type[c])) /\ \A d \in Sealed(type[c]) : stamp[d] < stamp[c]
        /\ \A d \in Calls : type[d] = type[c] /\ InFlight(d) => d = c
  BY <1>1 DEF AuditInv, FlightLinked, OneAtATime, InFlight
<1>10. FlightLinked'
  <2> SUFFICES ASSUME NEW d \in Calls, type[d] \notin raced, InFlight(d)'
               PROVE  /\ LinkedTo(d, Sealed(type[d]))'
                      /\ stage'[d] # "linked" => \A e \in Sealed(type[d])' : stamp'[e] < stamp'[d]
    BY <1>1, <1>r DEF FlightLinked
  <2>1. d # c /\ InFlight(d) /\ stage'[d] = stage[d] /\ type[d] \in Types
    BY <1>2 DEF InFlight, AuditInv, AuditTypes
  <2>2. type[d] # type[c]
    BY <1>9, <2>1
  <2>3. /\ Sealed(type[d])' = Sealed(type[d]) /\ c \notin Sealed(type[d])
        /\ Sealed(type[d]) \in SUBSET Calls
    <3>1. type'[d] = type[d]
      BY <1>1
    <3>2. QED
      BY <1>7, <2>1, <2>2, <3>1 DEF Sealed
  <2>4. /\ LinkedTo(d, Sealed(type[d]))
        /\ stage[d] # "linked" => \A e \in Sealed(type[d]) : stamp[e] < stamp[d]
    BY <2>1 DEF AuditInv, FlightLinked
  <2>5. LinkedTo(d, Sealed(type[d]))'
    <3> DEFINE D == Sealed(type[d])
    <3>1. D' = D /\ D \in SUBSET Calls /\ c \notin D /\ LinkedTo(d, D)
      BY <2>3, <2>4
    <3>2. \A e \in D : (Newest(D, e)' <=> Newest(D, e)) /\ hash'[e] = hash[e]
      BY <1>1, <1>2, <3>1 DEF Newest
    <3> HIDE DEF D
    <3>3. LinkedTo(d, D)'
      BY <1>1, <3>1, <3>2 DEF LinkedTo, Root
    <3>4. QED
      BY <3>3 DEF D
  <2>6. QED
    BY <1>1, <2>1, <2>3, <2>4, <2>5
<1>11. SealedLinked'
  <2> SUFFICES ASSUME NEW d \in Calls, type[d] \notin raced, stage'[d] = "done"
               PROVE  LinkedTo(d, Earlier(d))'
    BY <1>1, <1>r DEF SealedLinked
  <2> DEFINE D == Earlier(d)
  <2>0. type[d] \in Types /\ type[c] \in Types /\ type' = type
    BY <1>1 DEF AuditInv, AuditTypes
  <2>1. D' = {e \in Sealed(type[d])' : stamp[e] < stamp[d]}
    BY <1>1 DEF Earlier
  <2>2. CASE d = c
    <3>1. D' = Sealed(type[c])
      BY <1>2, <1>7, <1>9, <2>1, <2>2 DEF Sealed
    <3>2. Sealed(type[c]) \in SUBSET Calls /\ c \notin Sealed(type[c])
      BY <1>7, <2>0 DEF Sealed
    <3>3. LinkedTo(c, Sealed(type[c]))
      BY <1>9, <2>2
    <3>4. \A e \in D' : Newest(D, e)' => Newest(Sealed(type[c]), e) /\ hash'[e] = hash[e]
      BY <1>1, <1>2, <3>1, <3>2 DEF Newest
    <3> HIDE DEF D
    <3>5. LinkedTo(d, D)'
      BY <1>1, <2>2, <3>1, <3>3, <3>4 DEF LinkedTo, Root
    <3>6. QED
      BY <3>5 DEF D
  <2>3. CASE d # c
    <3>1. stage[d] = "done" /\ LinkedTo(d, D)
      BY <1>2, <2>3 DEF AuditInv, SealedLinked
    <3>2. type[d] = type[c] => stamp[d] < stamp[c]
      BY <1>9, <3>1 DEF Sealed
    <3>3. D' = D /\ c \notin D /\ D \in SUBSET Calls
      <4>1. CASE type[d] # type[c]
        BY <1>7, <2>0, <2>1, <4>1 DEF Earlier, Sealed
      <4>2. CASE type[d] = type[c]
        <5>1. ~ (stamp[c] < stamp[d])
          BY <1>2, <3>2, <4>2
        <5>2. Sealed(type[d])' = Sealed(type[d]) \cup {c}
          BY <1>7, <2>0, <4>2 DEF Sealed
        <5>3. QED
          BY <1>7, <2>0, <2>1, <5>1, <5>2 DEF Earlier, Sealed
      <4>3. QED
        BY <4>1, <4>2
    <3>4. \A e \in D : (Newest(D, e)' <=> Newest(D, e)) /\ hash'[e] = hash[e]
      BY <1>1, <1>2, <3>3 DEF Newest
    <3> HIDE DEF D
    <3>5. LinkedTo(d, D)'
      BY <1>1, <3>1, <3>3, <3>4 DEF LinkedTo, Root
    <3>6. QED
      BY <3>5 DEF D
  <2>4. QED
    BY <2>2, <2>3
<1>f. Fresh'
  BY <1>1, <1>2 DEF AuditInv, Fresh
<1>12. QED
  BY <1>f, <1>3, <1>4, <1>5, <1>6, <1>10, <1>11 DEF AuditInv

\* The invariant of the audit trail is inductive.
LEMMA AuditStep ==
  ASSUME AuditInv, [AuditNext]_auditVars
  PROVE  AuditInv'
<1>1. CASE UNCHANGED auditVars
  <2>0. UNCHANGED <<type, stage, previous, stamp, hash, clock, deaths, beside>>
    BY <1>1 DEF auditVars
  <2>1. UNCHANGED <<type, stage, previous, stamp, hash, clock, deaths, beside, raced>>
    BY <2>0 DEF raced
  <2>2. /\ AuditTypes' /\ StampsDiffer' /\ OneAtATime' /\ NoneAbandoned' /\ Fresh'
    BY <2>1 DEF AuditInv, AuditTypes, StampsDiffer, Stamped, OneAtATime, NoneAbandoned, InFlight,
                Fresh
  <2>3. SealedOnce' /\ SealedLinked'
    BY <2>1, RowsKept
  <2>4. FlightLinked'
    <3>1. \A c \in Calls : type[c] \notin raced /\ InFlight(c) =>
            /\ LinkedTo(c, Sealed(type[c]))'
            /\ stage[c] # "linked" => \A d \in Sealed(type[c])' : stamp'[d] < stamp'[c]
      BY <2>1, FlightsKept
    <3>2. QED
      BY <2>1, <3>1 DEF FlightLinked, InFlight
  <2>5. QED
    BY <2>2, <2>3, <2>4 DEF AuditInv
<1>2. QED
  BY <1>1, ReadLastKeeps, StampKeeps, InsertKeeps, SealKeeps, DieKeeps DEF AuditNext

LEMMA AuditInitInv == ASSUME AuditInit PROVE AuditInv
<1>1. \A c \in Calls : stage[c] = "start" /\ ~ InFlight(c) /\ ~ Stamped(c)
  BY DEF AuditInit, InFlight, Stamped
<1>2. AuditTypes
  BY AuditAssumption DEF AuditInit, AuditTypes, Root, Placeholder
<1>3. Fresh
  BY DEF AuditInit, Fresh
<1>4. QED
  BY <1>1, <1>2, <1>3 DEF AuditInv, StampsDiffer, SealedOnce, OneAtATime, NoneAbandoned,
                          FlightLinked, SealedLinked

LEMMA AuditInvariant == AuditSpec => []AuditInv
  BY AuditInitInv, AuditStep, PTL DEF AuditSpec

\* An audit trail whose log() calls came one at a time for a type verifies, however
\* the calls for other types overlap and whichever workers die.
THEOREM UnracedChainsVerify == AuditSpec => []UnracedChainVerifies
<1>1. ASSUME AuditInv PROVE UnracedChainVerifies
  <2> SUFFICES ASSUME AtRest, NEW t \in Types \ raced PROVE VerifyChain(OfType(t))
    BY DEF UnracedChainVerifies
  <2> DEFINE chain == Chain(OfType(t))
             before(i) == IF i = 1 THEN Root ELSE hash[chain[i - 1]]
  <2>1. Inserted(OfType(t)) = Sealed(t)
    <3>1. \A c \in Calls : type[c] = t => stage[c] # "inserted" /\ stage[c] # "abandoned"
      BY <1>1 DEF AtRest, Ended, AuditInv, NoneAbandoned
    <3>2. QED
      BY <3>1 DEF Inserted, OfType, Sealed
  <2>2. /\ Ordered(chain) /\ Len(chain) \in Nat
        /\ chain \in [1..Len(chain) -> Sealed(t)]
        /\ \A d \in Sealed(t) : \E i \in 1..Len(chain) : chain[i] = d
    <3>1. OfType(t) \in SUBSET Calls
      BY DEF OfType
    <3>2. QED
      BY <1>1, <2>1, <3>1, ChainInOrder DEF AuditInv
  <2> HIDE DEF chain
  <2>3. ASSUME NEW i \in 1..Len(chain)
        PROVE  /\ hash[chain[i]] = Digest(chain[i], before(i))
               /\ previous[chain[i]] = before(i)
    <3> DEFINE c == chain[i]
    <3>1. c \in Sealed(t) /\ c \in Calls /\ type[c] = t /\ stage[c] = "done"
      BY <2>2 DEF Sealed
    <3>2. hash[c] = Digest(c, previous[c]) /\ LinkedTo(c, Earlier(c))
      BY <1>1, <3>1 DEF AuditInv, SealedOnce, SealedLinked
    <3>3. \A j \in 1..Len(chain) : stamp[chain[j]] < stamp[c] <=> j < i
      <4> SUFFICES ASSUME NEW j \in 1..Len(chain)
                   PROVE  stamp[chain[j]] < stamp[c] <=> j < i
        OBVIOUS
      <4>1. chain[j] \in Calls /\ stamp[chain[j]] \in Int /\ stamp[c] \in Int
        BY <1>1, <2>2, <3>1 DEF Sealed, AuditInv, AuditTypes
      <4>2. j < i => stamp[chain[j]] < stamp[c]
        BY <2>2 DEF Ordered
      <4>3. i < j => stamp[c] < stamp[chain[j]]
        BY <2>2 DEF Ordered
      <4>4. i < j \/ j < i \/ i = j
        BY <2>2
      <4> HIDE DEF c
      <4>5. i = j => c = chain[j]
        BY DEF c
      <4>6. QED
        BY <2>2, <4>1, <4>2, <4>3, <4>4, <4>5
    <3> HIDE DEF c
    <3>4. \A d \in Earlier(c) : \E j \in 1..Len(chain) : chain[j] = d /\ j < i
      BY <2>2, <3>1, <3>3 DEF Earlier
    <3>5. CASE i = 1
      <4>1. Earlier(c) = {}
        BY <3>4, <3>5
      <4>2. QED
        BY <3>2, <3>5, <4>1 DEF LinkedTo, c
    <3>6. CASE i # 1
      <4> DEFINE j == i - 1
      <4>1. j \in 1..Len(chain) /\ j < i /\ \A k \in 1..Len(chain) : k < i => k = j \/ k < j
        BY <2>2, <3>6
      <4>2. chain[j] \in Earlier(c)
        BY <2>2, <3>1, <3>3, <4>1 DEF Earlier
      <4>3. \A e \in Earlier(c) : stamp[e] <= stamp[chain[j]]
        <5> SUFFICES ASSUME NEW e \in Earlier(c) PROVE stamp[e] <= stamp[chain[j]]
          OBVIOUS
        <5>1. PICK k \in 1..Len(chain) : chain[k] = e /\ k < i
          BY <3>4
        <5>2. e \in Calls /\ stamp[e] \in Int
          BY <1>1 DEF Earlier, Sealed, AuditInv, AuditTypes
        <5> HIDE DEF j
        <5>3. k = j \/ stamp[e] < stamp[chain[j]]
          BY <2>2, <4>1, <5>1 DEF Ordered
        <5>4. chain[j] \in Calls /\ stamp[chain[j]] \in Int
          BY <1>1, <4>2 DEF Earlier, Sealed, AuditInv, AuditTypes
        <5>5. QED
          BY <5>1, <5>2, <5>3, <5>4
      <4>4. Newest(Earlier(c), chain[j])
        BY <4>2, <4>3 DEF Newest
      <4>5. previous[c] = hash[chain[j]]
        BY <3>2, <4>2, <4>4 DEF LinkedTo
      <4>6. QED
        BY <3>2, <3>6, <4>5 DEF c
    <3>7. QED
      BY <3>5, <3>6
  <2>4. QED
    BY <2>3 DEF VerifyChain, chain
<1>2. QED
  BY <1>1, AuditInvariant, PTL

\* The digest of a row of a verified chain is that of the rows up to it.
LEMMA VerifiedDigests ==
  ASSUME AuditInv, NEW group \in SUBSET Calls, VerifyChain(group),
         NEW m \in 1..Len(Chain(group))
  PROVE  /\ hash[Chain(group)[m]] = SubSeq(Chain(group), 1, m)
         /\ m # 1 => previous[Chain(group)[m]] = SubSeq(Chain(group), 1, m - 1)
<1> DEFINE chain == Chain(group)
           before(i) == IF i = 1 THEN Root ELSE hash[chain[i - 1]]
           Agreed == {n \in Nat : n + 1 \in 1..Len(chain) =>
                               hash[chain[n + 1]] = SubSeq(chain, 1, n + 1)}
<1>1. \A i \in 1..Len(chain) : hash[chain[i]] = Append(before(i), chain[i])
  BY DEF VerifyChain, Digest
<1>2. Len(chain) \in Nat /\ chain \in Seq(Inserted(group))
  BY ChainInOrder DEF AuditInv
<1> HIDE DEF chain
<1>3. 0 \in Agreed
  <2> SUFFICES ASSUME 1 \in 1..Len(chain)
               PROVE  hash[chain[1]] = SubSeq(chain, 1, 1)
    OBVIOUS
  <2>1. hash[chain[1]] = Append(Root, chain[1])
    BY <1>1
  <2>2. Append(Root, chain[1]) = SubSeq(chain, 1, 1)
    BY <1>2 DEF Root
  <2>3. QED
    BY <2>1, <2>2
<1>4. ASSUME NEW n \in Nat, n \in Agreed
      PROVE  n + 1 \in Agreed
  <2> DEFINE k == n + 1
  <2> SUFFICES ASSUME k + 1 \in 1..Len(chain)
               PROVE  hash[chain[k + 1]] = SubSeq(chain, 1, k + 1)
    OBVIOUS
  <2>1. k \in 1..Len(chain) /\ k \in Nat /\ k + 1 # 1 /\ (k + 1) - 1 = k
    BY <1>2
  <2>2. hash[chain[k]] = SubSeq(chain, 1, k)
    BY <1>4, <2>1
  <2> HIDE DEF k
  <2>3. hash[chain[k + 1]] = Append(hash[chain[k]], chain[k + 1])
    BY <1>1, <2>1
  <2>4. Append(SubSeq(chain, 1, k), chain[k + 1]) = SubSeq(chain, 1, k + 1)
    BY <1>2, <2>1
  <2>5. QED
    BY <2>2, <2>3, <2>4
<1> HIDE DEF Agreed
<1>5. Nat \subseteq Agreed
  BY <1>3, <1>4, Counting
<1>6. m \in Nat /\ m - 1 \in Nat /\ (m - 1) + 1 = m
  BY DEF chain
<1>7. hash[chain[m]] = SubSeq(chain, 1, m)
  BY <1>5, <1>6 DEF Agreed, chain
<1>8. ASSUME m # 1 PROVE previous[chain[m]] = SubSeq(chain, 1, m - 1)
  <2>1. previous[chain[m]] = hash[chain[m - 1]]
    BY <1>8 DEF VerifyChain, chain
  <2> DEFINE k == m - 2
  <2>2. k \in Nat /\ k + 1 = m - 1 /\ k + 1 \in 1..Len(chain)
    BY <1>2, <1>6, <1>8 DEF chain
  <2>3. k \in Agreed
    BY <1>5, <2>2
  <2>4. hash[chain[m - 1]] = SubSeq(chain, 1, m - 1)
    BY <2>2, <2>3 DEF Agreed
  <2>5. QED
    BY <2>1, <2>4
<1>9. QED
  BY <1>7, <1>8 DEF chain

\* What a call has read of the trail, and what it leaves there, names sealed rows only.
Occurs(c, s) == \E i \in 1..Len(s) : s[i] = c
NamesSealed == \A c, d \in Calls :
  Occurs(d, previous[c]) \/ Occurs(d, hash[c]) => stage[d] = "done"
PlaceholderKept == \A c \in Calls : stage[c] # "done" => hash[c] = Placeholder

\* A row and one that was on its way when it was linked do not name each other.
Strangers == \A c, d \in Calls : d \in beside[c] =>
  /\ stage[c] # "start" /\ stage[d] # "start" /\ c # d
  /\ ~ Occurs(d, previous[c]) /\ ~ Occurs(c, previous[d])

TraceInv == NamesSealed /\ PlaceholderKept /\ Strangers

LEMMA TraceStep ==
  ASSUME AuditInv, TraceInv, [AuditNext]_auditVars
  PROVE  TraceInv'
<1> USE DEF TraceInv, NamesSealed, PlaceholderKept, Strangers
<1>1. CASE UNCHANGED auditVars
  BY <1>1 DEF auditVars, Occurs
<1>2. ASSUME NEW c \in Calls, ReadLast(c) PROVE TraceInv'
  <2> DEFINE chain == Chain(OfType(type[c]))
             link == IF chain = <<>> THEN Root ELSE hash[Last(chain)]
  <2>1. /\ stage[c] = "start" /\ stage' = [stage EXCEPT ![c] = "linked"]
        /\ previous' = [previous EXCEPT ![c] = link] /\ UNCHANGED hash
        /\ beside' = [beside EXCEPT ![c] = Flying(type[c])]
    BY <1>2 DEF ReadLast, Goto
  <2>2. /\ \A d \in Calls : d # c => /\ stage'[d] = stage[d] /\ previous'[d] = previous[d]
                                   /\ beside'[d] = beside[d]
        /\ stage'[c] = "linked" /\ previous'[c] = link /\ beside'[c] = Flying(type[c])
    BY <2>1 DEF AuditInv, AuditTypes
  <2>3. \A d \in Calls : Occurs(d, link) => stage[d] = "done"
    <3>1. CASE chain = <<>>
      BY <3>1 DEF Occurs, Root
    <3>2. CASE chain # <<>>
      <4>1. OfType(type[c]) \in SUBSET Calls
        BY DEF OfType
      <4>2. chain \in Seq(Inserted(OfType(type[c])))
        BY <4>1, ChainInOrder DEF AuditInv
      <4> HIDE DEF chain
      <4>3. Last(chain) \in Inserted(OfType(type[c]))
        BY <3>2, <4>2 DEF Last
      <4>4. Last(chain) \in Calls
        BY <4>3 DEF Inserted, OfType
      <4>5. QED
        BY <3>2, <4>4
    <3>3. QED
      BY <3>1, <3>2
  <2> HIDE DEF link
  <2>4. NamesSealed'
    BY <2>1, <2>2, <2>3 DEF Occurs
  <2>5. PlaceholderKept'
    BY <2>1, <2>2
  <2>6. Strangers'
    <3> SUFFICES ASSUME NEW x \in Calls, NEW y \in Calls, y \in beside'[x]
                 PROVE  /\ stage'[x] # "start" /\ stage'[y] # "start" /\ x # y
                        /\ ~ Occurs(y, previous'[x]) /\ ~ Occurs(x, previous'[y])
      BY DEF Occurs
    <3>1. CASE x = c
      <4>1. InFlight(y)
        BY <2>2, <3>1 DEF Flying
      <4>2. stage[y] # "start" /\ stage[y] # "done" /\ y # c
        BY <2>1, <4>1 DEF InFlight
      <4>3. ~ Occurs(y, previous'[c])
        BY <2>2, <2>3, <4>2
      <4>4. ~ Occurs(c, previous'[y])
        BY <2>1, <2>2, <4>2
      <4>5. QED
        BY <2>2, <3>1, <4>2, <4>3, <4>4
    <3>2. CASE x # c
      BY <2>1, <2>2, <3>2
    <3>3. QED
      BY <3>1, <3>2
  <2>7. QED
    BY <2>4, <2>5, <2>6
<1>3. ASSUME NEW c \in Calls, Stamp(c) \/ Insert(c) \/ Die(c) PROVE TraceInv'
  <2>1. /\ previous' = previous /\ hash' = hash /\ beside' = beside /\ InFlight(c)
        /\ \E next \in {"stamped", "inserted", "abandoned", "lost"} :
             stage' = [stage EXCEPT ![c] = next]
    BY <1>3 DEF Stamp, Insert, Die, Goto, InFlight
  <2>2. \A d \in Calls : /\ stage'[d] = "done" <=> stage[d] = "done"
                         /\ stage[d] # "start" => stage'[d] # "start"
    BY <2>1 DEF AuditInv, AuditTypes, InFlight
  <2>3. NamesSealed'
    BY <2>1, <2>2 DEF Occurs
  <2>4. \A d \in Calls : stage'[d] # "done" => hash'[d] = Placeholder
    BY <2>1, <2>2
  <2>5. PlaceholderKept'
    BY <2>4 DEF Placeholder
  <2>6. Strangers'
    BY <2>1, <2>2 DEF Occurs
  <2>7. QED
    BY <2>3, <2>5, <2>6
<1>4. ASSUME NEW c \in Calls, Seal(c) PROVE TraceInv'
  <2>1. /\ previous' = previous /\ beside' = beside /\ stage[c] = "inserted"
        /\ stage' = [stage EXCEPT ![c] = "done"]
        /\ hash' = [hash EXCEPT ![c] = Append(previous[c], c)]
    BY <1>4 DEF Seal, Goto, Digest
  <2>2. \A d \in Calls : /\ d # c => hash'[d] = hash[d] /\ stage'[d] = stage[d]
                         /\ stage[d] = "done" \/ d = c => stage'[d] = "done"
                         /\ stage[d] # "start" => stage'[d] # "start"
    BY <2>1 DEF AuditInv, AuditTypes
  <2>3. \A d \in Calls : Occurs(d, hash'[c]) => d = c \/ Occurs(d, previous[c])
    <3>1. previous[c] \in Seq(Calls \cup {Temp}) /\ hash'[c] = Append(previous[c], c)
      BY <2>1 DEF AuditInv, AuditTypes
    <3>2. QED
      BY <3>1 DEF Occurs
  <2>4. NamesSealed'
    <3> SUFFICES ASSUME NEW x \in Calls, NEW d \in Calls,
                        Occurs(d, previous'[x]) \/ Occurs(d, hash'[x])
                 PROVE  stage'[d] = "done"
      BY DEF Occurs
    <3>1. CASE Occurs(d, previous'[x])
      BY <2>1, <2>2, <3>1
    <3>2. CASE Occurs(d, hash'[x]) /\ x # c
      BY <2>2, <3>2
    <3>3. CASE Occurs(d, hash'[x]) /\ x = c
      BY <2>2, <2>3, <3>3
    <3>4. QED
      BY <3>1, <3>2, <3>3
  <2>5. PlaceholderKept'
    <3>1. \A d \in Calls : stage'[d] # "done" => hash'[d] = Placeholder
      BY <2>2
    <3>2. QED
      BY <3>1 DEF Placeholder
  <2>6. Strangers'
    BY <2>1, <2>2 DEF Occurs
  <2>7. QED
    BY <2>4, <2>5, <2>6
<1>5. QED
  BY <1>1, <1>2, <1>3, <1>4 DEF AuditNext, auditVars

\* A chain of an audit trail that verifies, whenever it is asked for and whichever calls
\* overlapped or died, holds no placeholder and no two rows of which one was linked
\* while the other was being logged.
THEOREM RacesNeverPass == AuditSpec => []RacesAreNoticed
<1>1. AuditInit => TraceInv
  <2> SUFFICES ASSUME AuditInit PROVE TraceInv
    OBVIOUS
  <2>1. \A c \in Calls : previous[c] = <<>> /\ hash[c] = <<Temp>> /\ beside[c] = {}
    BY DEF AuditInit, Root, Placeholder
  <2>2. \A d \in Calls : ~ Occurs(d, <<>>) /\ ~ Occurs(d, <<Temp>>)
    BY AuditAssumption DEF Occurs
  <2>3. QED
    BY <2>1, <2>2 DEF TraceInv, NamesSealed, PlaceholderKept, Strangers, Placeholder
<1>2. AuditInv /\ TraceInv /\ [AuditNext]_auditVars => TraceInv'
  BY TraceStep
<1>3. ASSUME AuditInv, TraceInv PROVE RacesAreNoticed
  <2> SUFFICES ASSUME NEW t \in Types, VerifyChain(OfType(t)), NEW c \in Inserted(OfType(t))
               PROVE  stage[c] = "done" /\ beside[c] \cap Inserted(OfType(t)) = {}
    BY DEF RacesAreNoticed
  <2> DEFINE group == OfType(t)
             chain == Chain(group)
  <2>1. group \in SUBSET Calls /\ VerifyChain(group)
    BY DEF OfType
  <2>2. /\ Len(chain) \in Nat /\ chain \in Seq(Inserted(group))
        /\ \A d \in Inserted(group) : \E i \in 1..Len(chain) : chain[i] = d
    BY <1>3, <2>1, ChainInOrder DEF AuditInv
  <2>3. \A i \in 1..Len(chain) :
          /\ hash[chain[i]] = SubSeq(chain, 1, i)
          /\ i # 1 => previous[chain[i]] = SubSeq(chain, 1, i - 1)
    BY <1>3, <2>1, VerifiedDigests
  <2>4. Inserted(group) \subseteq Calls
    BY <2>1 DEF Inserted
  <2> HIDE DEF chain
  <2>5. stage[c] = "done"
    <3> SUFFICES ASSUME stage[c] # "done" PROVE FALSE
      OBVIOUS
    <3>1. c \in Calls /\ hash[c] = <<Temp>>
      BY <1>3, <2>4 DEF TraceInv, PlaceholderKept, Placeholder
    <3>2. PICK i \in 1..Len(chain) : chain[i] = c
      BY <2>2
    <3>3. <<Temp>> = SubSeq(chain, 1, i)
      BY <2>3, <3>1, <3>2
    <3>4. SubSeq(chain, 1, i)[1] = chain[1] /\ 1 \in 1..Len(chain)
      BY <2>2
    <3>5. chain[1] \in Calls
      BY <2>2, <2>4, <3>4
    <3>6. QED
      BY <3>3, <3>4, <3>5, AuditAssumption
  <2>6. ASSUME NEW d \in beside[c], d \in Inserted(group) PROVE FALSE
    <3>1. c \in Calls /\ d \in Calls /\ c # d
      BY <1>3, <2>4, <2>6 DEF TraceInv, Strangers
    <3>2. ~ Occurs(d, previous[c]) /\ ~ Occurs(c, previous[d])
      BY <1>3, <2>6, <3>1 DEF TraceInv, Strangers
    <3>3. PICK i \in 1..Len(chain) : chain[i] = c
      BY <2>2
    <3>4. PICK j \in 1..Len(chain) : chain[j] = d
      BY <2>2, <2>6
    <3>5. ASSUME NEW k \in 1..Len(chain), NEW l \in 1..Len(chain), k < l
          PROVE  Occurs(chain[k], previous[chain[l]])
      <4>1. previous[chain[l]] = SubSeq(chain, 1, l - 1)
        BY <2>3, <3>5
      <4>2. Len(SubSeq(chain, 1, l - 1)) = l - 1 /\ SubSeq(chain, 1, l - 1)[k] = chain[k]
        BY <2>2, <3>5
      <4>3. k \in 1..(l - 1)
        BY <3>5
      <4>4. QED
        BY <4>1, <4>2, <4>3 DEF Occurs
    <3>6. i # j
      BY <3>1, <3>3, <3>4
    <3>7. CASE i < j
      BY <3>2, <3>3, <3>4, <3>5, <3>7
    <3>8. CASE j < i
      BY <3>2, <3>3, <3>4, <3>5, <3>8
    <3>9. QED
      BY <3>6, <3>7, <3>8
  <2>7. QED
    BY <2>5, <2>6
<1>4. QED
  BY <1>1, <1>2, <1>3, AuditInvariant, PTL DEF AuditSpec
=============================================================================
