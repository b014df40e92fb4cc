---------------------------- MODULE Marketplace ----------------------------
(***************************************************************************)
(* A skill on the marketplace and its reviews.  add_review gets the skill, *)
(* puts the user's review into the table, reads all reviews and saves the  *)
(* average and the count it has worked out.  The review API writes reviews *)
(* without the rating.  A PATCH of the skill saves the whole row as it was *)
(* read; approving and suspending save columns of their own.               *)
(***************************************************************************)
EXTENDS Integers, FiniteSets, FiniteSetsExt

CONSTANTS
  Users,     \* who review
  Stars,     \* the ratings they give
  Workers,   \* requests under way at the same time
  Idle

Lifecycles == {"draft", "production", "suspended"}
NoReview == 0

VARIABLES
  skill,    \* the row of the skill
  reviews,  \* each user's stars
  job,      \* what each worker is to do next, with what it has read
  settled   \* history: the rating was last written by a review that was alone

vars == <<skill, reviews, job, settled>>

Unrated == [sum |-> 0, count |-> 0]

Init ==
  /\ skill = [lifecycle |-> "draft", approved |-> FALSE, rating |-> Unrated]
  /\ reviews = [u \in Users |-> NoReview]
  /\ job = [w \in Workers |-> Idle]
  /\ settled = TRUE

Does(w, op) == job[w] # Idle /\ job[w].op = op

\* Who writes reviews or the rating is no longer alone, nor are the others.
Disturb(w, op, rating) ==
  job' = [x \in Workers |->
    IF x = w THEN [op |-> op, rating |-> rating,
                   alone |-> \A y \in Workers \ {w} : job[y] = Idle]
    ELSE IF job[x] = Idle THEN Idle ELSE [job[x] EXCEPT !.alone = FALSE]]
Done(w) == job' = [job EXCEPT ![w] = Idle]

\* Reviews are summed up by one query, which average and count come from.
RatingOf(stars) ==
  LET given == {u \in Users : stars[u] # NoReview} IN
  [sum |-> MapThenSumSet(LAMBDA u : stars[u], given), count |-> Cardinality(given)]

-----------------------------------------------------------------------------
\* update_or_create: a second review of a user replaces the first.
AddReview(w) ==
  /\ job[w] = Idle
  /\ \E u \in Users, s \in Stars : reviews' = [reviews EXCEPT ![u] = s]
  /\ Disturb(w, "rate", Unrated)
  /\ settled' = FALSE
  /\ UNCHANGED skill

SumUp(w) ==
  /\ Does(w, "rate")
  /\ job' = [job EXCEPT ![w].op = "save", ![w].rating = RatingOf(reviews)]
  /\ UNCHANGED <<skill, reviews, settled>>

\* Mutant: rating_count is not among the columns saved.
SaveAverage(w) ==
  /\ Does(w, "save")
  /\ skill' = [skill EXCEPT !.rating.sum = job[w].rating.sum]
  /\ settled' = job[w].alone
  /\ Done(w)
  /\ UNCHANGED reviews

\* skill.save(update_fields=["rating_avg", "rating_count"])
SaveRating(w) ==
  /\ Does(w, "save")
  /\ skill' = [skill EXCEPT !.rating = job[w].rating]
  /\ settled' = job[w].alone
  /\ Done(w)
  /\ UNCHANGED reviews

\* POST, PATCH and DELETE of a review, by way of the generic view.
WriteReview(u) ==
  /\ \E s \in Stars \cup {NoReview} : reviews' = [reviews EXCEPT ![u] = s]
  /\ settled' = FALSE
  /\ job' = [w \in Workers |-> IF job[w] = Idle THEN Idle
                               ELSE [job[w] EXCEPT !.alone = FALSE]]
  /\ UNCHANGED skill

-----------------------------------------------------------------------------
Approve ==
  /\ skill' = [skill EXCEPT !.lifecycle = "production", !.approved = TRUE]
  /\ UNCHANGED <<reviews, job, settled>>

Suspend ==
  /\ skill' = [skill EXCEPT !.lifecycle = "suspended"]
  /\ UNCHANGED <<reviews, job, settled>>

PatchReads(w) ==
  /\ job[w] = Idle
  /\ Disturb(w, "patch", skill.rating)
  /\ UNCHANGED <<skill, reviews, settled>>

\* The rating goes back to what it was when the row was read.
PatchSaves(w) ==
  /\ Does(w, "patch")
  /\ \E lifecycle \in Lifecycles, approved \in BOOLEAN :
       skill' = [lifecycle |-> lifecycle, approved |-> approved, rating |-> job[w].rating]
  /\ settled' = (settled /\ job[w].alone)
  /\ Done(w)
  /\ UNCHANGED reviews

Next ==
  \/ Approve \/ Suspend
  \/ \E u \in Users : WriteReview(u)
  \/ \E w \in Workers :
       AddReview(w) \/ SumUp(w) \/ SaveRating(w) \/ PatchReads(w) \/ PatchSaves(w)

Spec == Init /\ [][Next]_vars

-----------------------------------------------------------------------------
(* Properties                                                              *)

TypeOK ==
  /\ skill.lifecycle \in Lifecycles /\ skill.approved \in BOOLEAN
  /\ reviews \in [Users -> {NoReview} \cup Stars]
  /\ settled \in BOOLEAN

\* After an add_review that no other write of reviews or of the skill's row
\* overlapped, the rating of the skill is that of its reviews, until one comes
\* that does not keep it.
RatingIsCurrent == settled => skill.rating = RatingOf(reviews)
=============================================================================
