----------------------------- MODULE AuditChain -----------------------------
(***************************************************************************)
(* AuditService of way_infra: log() appends a row that carries a hash of   *)
(* itself and of the row before it, verify_chain() recomputes the hashes.  *)
(* log() is four statements outside any transaction (read the last row,    *)
(* insert with the hash "temp", read the row back, save its hash), so the  *)
(* calls of several requests interleave.                                   *)
(*                                                                         *)
(* A call writes one row, and the call stands for the columns of it that   *)
(* are hashed: entity_type, entity_id, action and created_at.  The others  *)
(* (the states before and after, their difference, user, address, reason,  *)
(* severity) enter no hash, so nothing here says anything about them.  The *)
(* hash is collision free: that of row c after hash h is h \o <<c>>, the   *)
(* root "0" is the empty sequence.  The workers share one clock.           *)
(***************************************************************************)
EXTENDS Integers, Sequences, FiniteSets, SequencesExt

CONSTANTS
  Calls,       \* calls of log(), each made once
  Types,       \* entity types that are audited
  Temp,        \* stands in the placeholder hash "temp"
  MaxDeaths    \* bound: worker processes that die in log()

ASSUME AuditAssumption ==
  IsFiniteSet(Calls) /\ Temp \notin Calls /\ MaxDeaths \in Nat

VARIABLES
  type,      \* entity_type of each call (never changes)
  stage,     \* how far each call has got
  previous,  \* previous_hash of each call's row
  stamp,     \* created_at of each call's row, 0 before it has one
  hash,      \* hash column of each call's row
  clock,     \* the last created_at given out
  deaths,    \* worker processes that have died
  beside     \* history: calls of its type in flight when each call read the last row

auditVars == <<type, stage, previous, stamp, hash, clock, deaths, beside>>

Root == <<>>
Placeholder == <<Temp>>

AuditInit ==
  /\ type \in [Calls -> Types]
  /\ stage = [c \in Calls |-> "start"]
  /\ previous = [c \in Calls |-> Root]
  /\ stamp = [c \in Calls |-> 0]
  /\ hash = [c \in Calls |-> Placeholder]
  /\ clock = 0
  /\ deaths = 0
  /\ beside = [c \in Calls |-> {}]

\* sha256 of "entity_type:entity_id:action:created_at:previous_hash".
Digest(c, h) == Append(h, c)

\* The rows of a set of calls that are in the table, by created_at.
Inserted(S) == {c \in S : stage[c] \in {"inserted", "done", "abandoned"}}
Ordered(chain) == \A i, j \in 1..Len(chain) : i < j => stamp[chain[i]] < stamp[chain[j]]
Chain(S) == CHOOSE chain \in SetToSeqs(Inserted(S)) : Ordered(chain)
OfType(t) == {c \in Calls : type[c] = t}
InFlight(c) == stage[c] \in {"linked", "stamped", "inserted"}
Flying(t) == {c \in OfType(t) : InFlight(c)}

Goto(c, next) == stage' = [stage EXCEPT ![c] = next]

\* Mutant: the newest row of any type.
ReadLastAnyType(c) ==
  LET chain == Chain(Calls)
  IN /\ stage[c] = "start"
     /\ previous' = [previous EXCEPT ![c] = IF chain = <<>> THEN Root
                                                          ELSE hash[Last(chain)]]
     /\ beside' = [beside EXCEPT ![c] = Flying(type[c])]
     /\ Goto(c, "linked")
     /\ UNCHANGED <<type, stamp, hash, clock, deaths>>

\* The newest row of the same entity type gives the previous hash, "temp" or not.
ReadLast(c) ==
  LET chain == Chain(OfType(type[c]))
  IN /\ stage[c] = "start"
     /\ previous' = [previous EXCEPT ![c] = IF chain = <<>> THEN Root
                                                          ELSE hash[Last(chain)]]
     /\ beside' = [beside EXCEPT ![c] = Flying(type[c])]
     /\ Goto(c, "linked")
     /\ UNCHANGED <<type, stamp, hash, clock, deaths>>

\* create() takes created_at from the clock of the worker ...
Stamp(c) ==
  /\ stage[c] = "linked"
  /\ clock' = clock + 1
  /\ stamp' = [stamp EXCEPT ![c] = clock + 1]
  /\ Goto(c, "stamped")
  /\ UNCHANGED <<type, previous, hash, deaths, beside>>

\* ... and inserts the row with the placeholder.
Insert(c) ==
  /\ stage[c] = "stamped"
  /\ Goto(c, "inserted")
  /\ UNCHANGED <<type, previous, stamp, hash, clock, deaths, beside>>

\* Mutant: the row is linked anew when it is sealed.
SealRelinked(c) ==
  LET chain == Chain(OfType(type[c]) \ {c})
      before == IF chain = <<>> THEN Root ELSE hash[Last(chain)]
  IN /\ stage[c] = "inserted"
     /\ previous' = [previous EXCEPT ![c] = before]
     /\ hash' = [hash EXCEPT ![c] = Digest(c, before)]
     /\ Goto(c, "done")
     /\ UNCHANGED <<type, stamp, clock, deaths, beside>>

\* refresh_from_db, sha256, save(update_fields=["hash"])
Seal(c) ==
  /\ stage[c] = "inserted"
  /\ hash' = [hash EXCEPT ![c] = Digest(c, previous[c])]
  /\ Goto(c, "done")
  /\ UNCHANGED <<type, previous, stamp, clock, deaths, beside>>

\* The worker dies in log(); a row that is in the table keeps its placeholder.
Die(c) ==
  /\ deaths < MaxDeaths
  /\ InFlight(c)
  /\ deaths' = deaths + 1
  /\ Goto(c, IF stage[c] = "inserted" THEN "abandoned" ELSE "lost")
  /\ UNCHANGED <<type, previous, stamp, hash, clock, beside>>

Ended(c) == stage[c] \in {"done", "abandoned", "lost"}
AtRest == \A c \in Calls : Ended(c)

AuditNext ==
  \/ \E c \in Calls : ReadLast(c) \/ Stamp(c) \/ Insert(c) \/ Seal(c) \/ Die(c)
  \/ AtRest /\ UNCHANGED auditVars

AuditSpec == AuditInit /\ [][AuditNext]_auditVars

\* verify_chain over the rows of a set of calls, oldest first.
VerifyChain(S) ==
  LET chain == Chain(S)
      before(i) == IF i = 1 THEN Root ELSE hash[chain[i - 1]]
  IN \A i \in 1..Len(chain) :
       /\ hash[chain[i]] = Digest(chain[i], before(i))
       /\ previous[chain[i]] = before(i)

-----------------------------------------------------------------------------
(* Properties                                                              *)

\* Every variable keeps its type.
AuditTypes ==
  /\ type \in [Calls -> Types]
  /\ stage \in [Calls -> {"start", "linked", "stamped", "inserted", "done",
                       "abandoned", "lost"}]
  /\ previous \in [Calls -> Seq(Calls \cup {Temp})]
  /\ stamp \in [Calls -> 0..clock]
  /\ hash \in [Calls -> Seq(Calls \cup {Temp})]
  /\ clock \in Nat /\ deaths \in 0..MaxDeaths
  /\ beside \in [Calls -> SUBSET Calls]

\* Types whose calls have overlapped, or have left a placeholder behind.
raced == {type[c] : c \in {d \in Calls : beside[d] # {} \/ stage[d] = "abandoned"}}

\* The chain of a type verifies when its rows were logged one at a time, whatever
\* happens to the other types.
UnracedChainVerifies ==
  AtRest => \A t \in Types \ raced : VerifyChain(OfType(t))

\* verify_chain misses no race: of a chain that verifies, at any time, no row was
\* linked while the log() of another row was under way, whichever of the two was
\* inserted first, and none is the placeholder of a call that has not finished or died.
RacesAreNoticed ==
  \A t \in Types :
    VerifyChain(OfType(t)) =>
      \A c \in Inserted(OfType(t)) :
        stage[c] = "done" /\ beside[c] \cap Inserted(OfType(t)) = {}
=============================================================================
