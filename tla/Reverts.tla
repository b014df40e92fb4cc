------------------------------ MODULE Reverts ------------------------------
(***************************************************************************)
(* Measures against a wallet or a skill, the log of what administrators    *)
(* did, and its revert: lift the measure, then mark the logged action.     *)
(* The log is written by requests of its own, and whether an action was    *)
(* reverted before is not looked at, nor whether there was anything to     *)
(* lift: the wallet or the skill may have been deleted.                    *)
(***************************************************************************)

CONSTANTS
  Actions,   \* rows of the log
  Workers,   \* requests under way at the same time
  Idle

Targets == {"wallet", "skill"}
Kinds == {"freeze_wallet", "suspend_skill", "ban_user"}
NotLogged == [kind |-> "none", reverted |-> FALSE]
Row == [kind : Kinds, reverted : BOOLEAN]
Stages == {"lift", "mark", "patch"}

VARIABLES
  there,    \* the wallet, the skill exists
  inForce,  \* the wallet is frozen, the skill suspended
  log,      \* the rows
  job,      \* the action each worker is at, how far, and the row it has read
  lifted,   \* history: actions for which a revert lifted the measure
  edited    \* history: actions whose row was PATCHed or posted as reverted

vars == <<there, inForce, log, job, lifted, edited>>

Init ==
  /\ there \in [Targets -> BOOLEAN]
  /\ inForce = [t \in Targets |-> FALSE]
  /\ log = [a \in Actions |-> NotLogged]
  /\ job = [w \in Workers |-> Idle]
  /\ lifted = {}
  /\ edited = {}

\* freeze_wallet by a request or for fraud; suspend.
Impose(t) ==
  /\ there[t]
  /\ inForce' = [inForce EXCEPT ![t] = TRUE]
  /\ UNCHANGED <<there, log, job, lifted, edited>>

\* unfreeze_wallet; approve.
Lift(t) ==
  /\ there[t]
  /\ inForce' = [inForce EXCEPT ![t] = FALSE]
  /\ UNCHANGED <<there, log, job, lifted, edited>>

\* DELETE of the wallet or the skill; its id is never given out again.
Remove(t) ==
  /\ there[t]
  /\ there' = [there EXCEPT ![t] = FALSE]
  /\ inForce' = [inForce EXCEPT ![t] = FALSE]
  /\ UNCHANGED <<log, job, lifted, edited>>

\* The row that is posted may say that it is reverted already.
LogAction(a) ==
  /\ log[a] = NotLogged
  /\ \E row \in Row :
       /\ log' = [log EXCEPT ![a] = row]
       /\ edited' = IF row.reverted THEN edited \cup {a} ELSE edited
  /\ UNCHANGED <<there, inForce, job, lifted>>

Take(w, a, stage) ==
  /\ job[w] = Idle
  /\ log[a] # NotLogged
  /\ job' = [job EXCEPT ![w] = [action |-> a, stage |-> stage, held |-> log[a]]]

Does(w, stage) == job[w] # Idle /\ job[w].stage = stage
Done(w) == job' = [job EXCEPT ![w] = Idle]

\* Mutant: the action is marked first.
RevertActionMarked(w, a) ==
  /\ Take(w, a, "lift")
  /\ log' = [log EXCEPT ![a].reverted = TRUE]
  /\ UNCHANGED <<there, inForce, lifted, edited>>

RevertAction(w, a) ==
  /\ Take(w, a, "lift")
  /\ UNCHANGED <<there, inForce, log, lifted, edited>>

Measure(kind) == {t \in Targets : <<kind, t>> \in {<<"freeze_wallet", "wallet">>,
                                                   <<"suspend_skill", "skill">>}}

\* unfreeze_wallet, whose False for a missing wallet is not looked at, or an UPDATE to
\* lifecycle="production", which may match no row; other kinds have no revert logic.
RevertLifts(w) ==
  /\ Does(w, "lift")
  /\ LET targets == {t \in Measure(job[w].held.kind) : there[t]} IN
       /\ inForce' = [t \in Targets |-> inForce[t] /\ t \notin targets]
       /\ lifted' = IF targets = {} THEN lifted ELSE lifted \cup {job[w].action}
  /\ job' = [job EXCEPT ![w].stage = "mark"]
  /\ UNCHANGED <<there, log, edited>>

RevertMarks(w) ==
  /\ Does(w, "mark")
  /\ log' = [log EXCEPT ![job[w].action].reverted = TRUE]
  /\ Done(w)
  /\ UNCHANGED <<there, inForce, lifted, edited>>

\* The request dies between its statements.
Die(w) ==
  /\ job[w] # Idle
  /\ Done(w)
  /\ UNCHANGED <<there, inForce, log, lifted, edited>>

PatchReads(w, a) ==
  /\ Take(w, a, "patch")
  /\ UNCHANGED <<there, inForce, log, lifted, edited>>

\* A PATCH of another column saves these as they were read.
PatchSaves(w) ==
  /\ Does(w, "patch")
  /\ \/ log' = [log EXCEPT ![job[w].action] = job[w].held] /\ UNCHANGED edited
     \/ \E row \in Row :
          /\ log' = [log EXCEPT ![job[w].action] = row]
          /\ edited' = edited \cup {job[w].action}
  /\ Done(w)
  /\ UNCHANGED <<there, inForce, lifted>>

Next ==
  \/ \E t \in Targets : Impose(t) \/ Lift(t) \/ Remove(t)
  \/ \E a \in Actions : LogAction(a)
  \/ \E w \in Workers :
       \/ RevertLifts(w) \/ RevertMarks(w) \/ Die(w) \/ PatchSaves(w)
       \/ \E a \in Actions : RevertAction(w, a) \/ PatchReads(w, a)

Spec == Init /\ [][Next]_vars

-----------------------------------------------------------------------------
(* Properties                                                              *)

TypeOK ==
  /\ there \in [Targets -> BOOLEAN] /\ inForce \in [Targets -> BOOLEAN]
  /\ log \in [Actions -> Row \cup {NotLogged}]
  /\ job \in [Workers -> [action : Actions, stage : Stages, held : Row] \cup {Idle}]
  /\ lifted \subseteq Actions /\ edited \subseteq Actions

\* Whatever overlaps, dies or is deleted, the log never says reverted of a freeze or a
\* suspension that no revert has lifted, unless its wallet or skill is gone, so that
\* nothing is in force any more, or somebody wrote it there by hand.
RevertedWasLifted ==
  \A a \in Actions \ edited : \A t \in Measure(log[a].kind) :
    log[a].reverted /\ there[t] => a \in lifted
=============================================================================
