------------------------------ MODULE Sessions ------------------------------
(***************************************************************************)
(* The row of a runtime session.  Starting, completing and killing set     *)
(* columns without looking at the status; killing reads the row first and  *)
(* saves the logs it has read with a line more; PATCH, open to every user, *)
(* reads the row and saves all of it.  The cleanup task and the sandbox    *)
(* check decide on a row that may be another when they kill it.            *)
(***************************************************************************)
EXTENDS Integers

CONSTANTS
  Workers,   \* requests and tasks under way at the same time
  Timeout,   \* sandbox_config["timeout"], in ticks
  Stale,     \* 30 minutes, in ticks
  Never, Gone, Idle,
  MaxClock   \* bound: ticks

Statuses == {"pending", "running", "completed", "failed", "timeout", "killed"}
Codes == {"none", "zero", "other"}
\* Of the logs only whether they tell of a kill matters.
Row == [status : Statuses, started : Nat \cup {Never}, ended : BOOLEAN, code : Codes,
        killed : BOOLEAN]
Created == [status |-> "pending", started |-> Never, ended |-> FALSE, code |-> "none",
            killed |-> FALSE]
Jobs == [op : {"kill", "killing", "patch"}, held : Row]

VARIABLES
  now,
  session,  \* the row, or Gone
  job,      \* what each worker is about to save, with the row it has read
  edited,   \* history: a PATCH has changed the status or the exit code
  overlaid  \* history: an ended session was started, or a completed one killed

vars == <<now, session, job, edited, overlaid>>

Init ==
  /\ now = 0
  /\ session = Created
  /\ job = [w \in Workers |-> Idle]
  /\ edited = FALSE
  /\ overlaid = FALSE

Exists == session # Gone

\* start_session: the values saved do not depend on the row.
StartSession ==
  /\ Exists
  /\ session' = [session EXCEPT !.status = "running", !.started = now]
  /\ overlaid' = (overlaid \/ session.ended)
  /\ UNCHANGED <<now, job, edited>>

\* Mutant: logs is not among the columns saved.
CompleteWithoutLogs ==
  /\ Exists
  /\ \E code \in {"zero", "other"} :
       session' = [session EXCEPT !.status = IF code = "zero" THEN "completed" ELSE "failed",
                                  !.ended = TRUE, !.code = code]
  /\ UNCHANGED <<now, job, edited, overlaid>>

CompleteSession ==
  /\ Exists
  /\ \E code \in {"zero", "other"} :
       session' = [session EXCEPT !.status = IF code = "zero" THEN "completed" ELSE "failed",
                                  !.ended = TRUE, !.code = code, !.killed = FALSE]
  /\ UNCHANGED <<now, job, edited, overlaid>>

Take(w, op) ==
  /\ job[w] = Idle /\ Exists
  /\ job' = [job EXCEPT ![w] = [op |-> op, held |-> session]]

Does(w, op) == job[w] # Idle /\ job[w].op = op
Done(w) == job' = [job EXCEPT ![w] = Idle]

\* cleanup_stale_sessions lists the rows it will kill one after the other.
ListStale(w) ==
  /\ Take(w, "kill")
  /\ session.status = "running"
  /\ session.started # Never /\ session.started < now - Stale
  /\ UNCHANGED <<now, session, edited, overlaid>>

\* enforce_sandbox looks at the start, whatever the status.
EnforceSandbox(w) ==
  /\ Take(w, "kill")
  /\ session.started # Never /\ now - session.started > Timeout
  /\ UNCHANGED <<now, session, edited, overlaid>>

RequestKill(w) ==
  /\ Take(w, "kill")
  /\ UNCHANGED <<now, session, edited, overlaid>>

\* kill_session gets the row anew,
KillReads(w) ==
  /\ Does(w, "kill")
  /\ IF Exists THEN job' = [job EXCEPT ![w] = [op |-> "killing", held |-> session]]
               ELSE Done(w)
  /\ UNCHANGED <<now, session, edited, overlaid>>

\* and saves status, end and logs; with update_fields a row that is gone is an
\* error.
KillSaves(w) ==
  /\ Does(w, "killing")
  /\ session' = IF Exists THEN [session EXCEPT !.status = "killed", !.ended = TRUE,
                                               !.killed = TRUE]
                          ELSE Gone
  /\ overlaid' = (overlaid \/ (Exists /\ session.code # "none"))
  /\ Done(w)
  /\ UNCHANGED <<now, edited>>

PatchReads(w) ==
  /\ Take(w, "patch")
  /\ UNCHANGED <<now, session, edited, overlaid>>

\* A PATCH of other columns saves these as they were read.
PatchSaves(w) ==
  /\ Does(w, "patch")
  /\ \E status \in Statuses, code \in Codes :
       /\ status = job[w].held.status \/ code = job[w].held.code
       /\ session' = [job[w].held EXCEPT !.status = status, !.code = code]
  /\ edited' = (edited \/ session' # job[w].held)
  /\ Done(w)
  /\ UNCHANGED <<now, overlaid>>

Delete ==
  /\ Exists
  /\ session' = Gone
  /\ UNCHANGED <<now, job, edited, overlaid>>

Tick ==
  /\ now < MaxClock
  /\ now' = now + 1
  /\ UNCHANGED <<session, job, edited, overlaid>>

Next ==
  \/ StartSession \/ CompleteSession \/ Delete \/ Tick
  \/ \E w \in Workers :
       \/ ListStale(w) \/ EnforceSandbox(w) \/ RequestKill(w) \/ KillReads(w)
       \/ KillSaves(w) \/ PatchReads(w) \/ PatchSaves(w)

Spec == Init /\ [][Next]_vars

-----------------------------------------------------------------------------
(* Properties                                                              *)

TypeOK ==
  /\ now \in Nat
  /\ session \in Row \cup {Gone}
  /\ job \in [Workers -> Jobs \cup {Idle}]
  /\ edited \in BOOLEAN /\ overlaid \in BOOLEAN

\* The columns that agree whatever ending or start came last.
Coherent(row) ==
  /\ row.status \in {"completed", "failed"} => row.ended /\ ~row.killed
  /\ row.status = "completed" => row.code = "zero"
  /\ row.status = "failed" => row.code = "other"
  /\ row.status = "killed" => row.ended /\ row.killed
  /\ row.status = "running" => row.started # Never
  /\ row.status = "pending" => ~row.ended /\ row.started = Never
  /\ row.status # "timeout"

\* No column is left over from another ending.
OneEnding(row) ==
  /\ row.status \in {"pending", "running"} => ~row.ended /\ ~row.killed /\ row.code = "none"
  /\ row.status = "killed" => row.code = "none"

\* However ends, kills and stale PATCHes of other columns overwrite one another, the
\* status of a session that nobody PATCHed by hand agrees with the columns saved with
\* it; and the columns tell of no second ending unless a session that had ended was
\* started again (the end stays) or one that had completed was killed (the exit code
\* stays), which the handlers do not refuse.
EndIsCoherent ==
  Exists /\ ~edited => Coherent(session) /\ (overlaid \/ OneEnding(session))
=============================================================================
