----------------------------- MODULE MCPlatform -----------------------------
(***************************************************************************)
(* Sessions, Providers, Reverts, Marketplace and AuditChain for TLC.  They *)
(* share no row, so that a behaviour stays within the one it chose at its  *)
(* start.                                                                  *)
(***************************************************************************)
EXTENDS AuditChain, TLC

CONSTANTS Workers, Users, Actions,
          Idle, Gone, Never, Stars, Timeout, Stale, MaxClock

ASSUME PlatformAssumption ==
  /\ Timeout \in Nat /\ Stale \in Nat /\ MaxClock \in Nat
  /\ Never \notin Nat /\ Stars \subseteq 1..5

VARIABLES part,  \* the component that is explored
          now, session, sessionJob, sessionEdited, sessionOverlaid,
          provider, providerJob, events, buried,
          there, inForce, log, revertJob, lifted, actionEdited,
          skill, reviews, marketJob, settled

sessions == <<now, session, sessionJob, sessionEdited, sessionOverlaid>>
providers == <<provider, providerJob, events, buried>>
reverts == <<there, inForce, log, revertJob, lifted, actionEdited>>
marketplace == <<skill, reviews, marketJob, settled>>

S == INSTANCE Sessions
       WITH job <- sessionJob, edited <- sessionEdited, overlaid <- sessionOverlaid
P == INSTANCE Providers WITH job <- providerJob
R == INSTANCE Reverts WITH job <- revertJob, edited <- actionEdited
M == INSTANCE Marketplace WITH job <- marketJob

\* What a part starts from is chosen for that part only.
MCInit ==
  /\ part \in {"sessions", "providers", "reverts", "marketplace", "audit"}
  /\ S!Init /\ P!Init /\ R!Init /\ M!Init /\ AuditInit
  /\ part # "reverts" => \A t \in R!Targets : there[t]
  /\ part # "audit" => \A c, d \in Calls : type[c] = type[d]

\* The calls of log() are interchangeable and start in the order of their numbers.
StartsInOrder == \A c, d \in Calls : c < d /\ stage[d] # "start" => stage[c] # "start"

\* A session that was PATCHed by hand is not followed any further.
MCNext ==
  /\ \/ part = "sessions" /\ ~sessionEdited /\ S!Next /\ UNCHANGED <<providers, reverts, marketplace, auditVars>>
     \/ part = "providers" /\ P!Next /\ UNCHANGED <<sessions, reverts, marketplace, auditVars>>
     \/ part = "reverts" /\ R!Next /\ UNCHANGED <<sessions, providers, marketplace, auditVars>>
     \/ part = "marketplace" /\ M!Next /\ UNCHANGED <<sessions, providers, reverts, auditVars>>
     \/ part = "audit" /\ AuditNext /\ StartsInOrder' /\ UNCHANGED <<sessions, providers, reverts, marketplace>>
  /\ UNCHANGED part

platformVars == <<part, sessions, providers, reverts, marketplace, auditVars>>

MCSpec == MCInit /\ [][MCNext]_platformVars

EndIsCoherent == S!EndIsCoherent
StatusFollowsRate == P!StatusFollowsRate
DownStaysDown == P!DownStaysDown
RevertedWasLifted == R!RevertedWasLifted
RatingIsCurrent == M!RatingIsCurrent
PlatformTypes == S!TypeOK /\ P!TypeOK /\ R!TypeOK /\ M!TypeOK

Symmetry == Permutations(Workers) \cup Permutations(Actions) \cup Permutations(Users)
=============================================================================
