------------------------------ MODULE Reviews ------------------------------
(***************************************************************************)
(* Reviews of one user.  A submission reads the shipment and looks for an  *)
(* earlier review of it, then runs a transaction (READ COMMITTED) that     *)
(* inserts the review, averages what it sees and writes the average to the *)
(* user's row.  ReviewCalls for different shipments, and two for the same  *)
(* one, interleave between any two statements.                             *)
(***************************************************************************)
EXTENDS Naturals, FiniteSets

CONSTANTS
  ReviewCalls,      \* requests
  Reviewed,         \* the shipments that they review
  ReviewOf          \* ReviewOf[r]: the shipment of r

ASSUME ReviewsAssumption == ReviewOf \in [ReviewCalls -> Reviewed]

VARIABLES
  confirmed,        \* shipments that are CONFIRMED
  submit,           \* submit[r]: how far r is, and the rows its average counts
  reviews,          \* submissions whose row is committed
  rating,           \* the reviews that User.rating averages
  ratingLock,       \* the transaction that holds the lock of the user's row, or none
  overtaken         \* transactions during which another one committed

reviewsVars == <<confirmed, submit, reviews, rating, ratingLock, overtaken>>

Tx == {"begun", "inserted", "averaged", "written"}
Idle == [at |-> "none", counts |-> {}]
InTx == {r \in ReviewCalls : submit[r].at \in Tx}

ReviewsTypeOK ==
  /\ confirmed \subseteq Reviewed
  /\ submit \in [ReviewCalls -> [at: {"none", "checked", "done", "refused"} \cup Tx,
                                 counts: SUBSET ReviewCalls]]
  /\ reviews \subseteq ReviewCalls /\ rating \subseteq ReviewCalls
  /\ ratingLock \subseteq InTx /\ Cardinality(ratingLock) <= 1
  /\ overtaken \subseteq ReviewCalls
  /\ rating \subseteq reviews
  /\ \A r \in reviews : ReviewOf[r] \in confirmed

ReviewsInit ==
  /\ confirmed = {}
  /\ submit = [r \in ReviewCalls |-> Idle]
  /\ reviews = {} /\ rating = {} /\ ratingLock = {} /\ overtaken = {}

Step(r, at) == submit' = [submit EXCEPT ![r].at = at]

\* The receipt is confirmed; no transition leaves CONFIRMED.
ConfirmReceipt(s) ==
  /\ confirmed' = confirmed \cup {s}
  /\ UNCHANGED <<submit, reviews, rating, ratingLock, overtaken>>

Existing(r) == \E q \in reviews : ReviewOf[q] = ReviewOf[r]

\* Mutant of Reviewable.
ReviewableInAnyStatus(r) == ~Existing(r)
\* findById, the status and findByShipmentAndAuthor
Reviewable(r) == ReviewOf[r] \in confirmed /\ ~Existing(r)

CheckSubmission(r) ==
  /\ submit[r].at = "none"
  /\ Step(r, IF Reviewable(r) THEN "checked" ELSE "refused")
  /\ UNCHANGED <<confirmed, reviews, rating, ratingLock, overtaken>>

BeginReview(r) ==
  /\ submit[r].at = "checked"
  /\ Step(r, "begun")
  /\ UNCHANGED <<confirmed, reviews, rating, ratingLock, overtaken>>

\* @@unique([shipmentId, authorId]): an insert waits for the transaction that
\* holds the same key, then succeeds only if that one rolled back.
UniqueRow(r) == ~Existing(r) /\ \A q \in InTx \ {r} : submit[q].at # "begun" =>
                                                       ReviewOf[q] # ReviewOf[r]

InsertReview(r) ==
  /\ submit[r].at = "begun"
  /\ \/ UniqueRow(r) /\ Step(r, "inserted")
     \/ Existing(r) /\ ~UniqueRow(r) /\ Step(r, "refused")
  /\ overtaken' = IF Existing(r) THEN overtaken \ {r} ELSE overtaken
  /\ UNCHANGED <<confirmed, reviews, rating, ratingLock>>

\* Mutant of Visible.
VisibleBefore(r) == reviews
\* What the aggregate sees: the committed rows and its own.
Visible(r) == reviews \cup {r}

AverageReviews(r) ==
  /\ submit[r].at = "inserted"
  /\ submit' = [submit EXCEPT ![r] = [at |-> "averaged", counts |-> Visible(r)]]
  /\ UNCHANGED <<confirmed, reviews, rating, ratingLock, overtaken>>

\* The update of the user's row waits for its lock.
WriteRating(r) ==
  /\ submit[r].at = "averaged" /\ ratingLock = {}
  /\ ratingLock' = {r}
  /\ Step(r, "written")
  /\ UNCHANGED <<confirmed, reviews, rating, overtaken>>

CommitReview(r) ==
  /\ submit[r].at = "written"
  /\ reviews' = reviews \cup {r}
  /\ rating' = submit[r].counts
  /\ ratingLock' = {}
  /\ overtaken' = overtaken \cup (InTx \ {r})
  /\ submit' = [submit EXCEPT ![r] = [at |-> "done", counts |-> {}]]
  /\ UNCHANGED confirmed

\* A statement fails or the process stops: the transaction rolls back.
RollBack(r) ==
  /\ r \in InTx
  /\ submit' = [submit EXCEPT ![r] = [at |-> "refused", counts |-> {}]]
  /\ ratingLock' = ratingLock \ {r}
  /\ overtaken' = overtaken \ {r}
  /\ UNCHANGED <<confirmed, reviews, rating>>

ReviewsNext ==
  \/ \E s \in Reviewed : ConfirmReceipt(s)
  \/ \E r \in ReviewCalls :
       \/ CheckSubmission(r) \/ BeginReview(r) \/ InsertReview(r) \/ AverageReviews(r)
       \/ WriteRating(r) \/ CommitReview(r) \/ RollBack(r)

ReviewsSpec == ReviewsInit /\ [][ReviewsNext]_reviewsVars

----------------------------------------------------------------------------
(* Properties *)

\* A shipment has at most one review by its author, however two submissions of it
\* interleave: the check before the transaction does not ensure it.
OneReviewPerShipment ==
  \A q, r \in reviews : ReviewOf[q] = ReviewOf[r] => q = r

\* User.rating averages every committed review.  It takes two transactions that
\* overlap to leave one out, and the next review that is submitted alone repairs it.
RatingCountsEveryReview ==
  [][\A r \in ReviewCalls \ overtaken : r \notin reviews /\ r \in reviews'
       => rating' = reviews']_reviewsVars

\* One review of a shipment, and a rating that counts them all.
ReviewsCounted == []OneReviewPerShipment /\ RatingCountsEveryReview
=============================================================================
