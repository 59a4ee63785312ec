------------------------------- MODULE Ratings -------------------------------
(***************************************************************************)
(* rateCollectionRequest: a household rates a request that is over, once,   *)
(* and its collector's reputation takes the rating in.  Nothing is locked:  *)
(* the request and then the collector are read and written by id.  One      *)
(* collector; the ratings of two share nothing.                            *)
(***************************************************************************)
EXTENDS Naturals

CONSTANTS Rateable,     \* completed requests of the collector
          Raters,       \* requests in flight
          Stars,        \* ratings given, 1..5 in the code
          QaRatings     \* ratings before a review is asked for (5 in the code)

ASSUME RatingsAssumption ==
  /\ Rateable # {} /\ Stars \subseteq 1..5 /\ QaRatings \in Nat \ {0}

VARIABLES rating,       \* rating of a request, 0 for none
          reputation,   \* of the collector
          rater         \* a request in flight: what it rates and what it has read

ratingVars == <<rating, reputation, rater>>

(* reputationScore as the sum that the score and totalRatings stand for: its *)
(* rounding to two decimals is left out                                     *)
Unrated == [stars |-> 0, totalRatings |-> 0, requiresQaReview |-> FALSE]
NoRater == [stage |-> "idle", request |-> CHOOSE r \in Rateable : TRUE, stars |-> 0,
            read |-> Unrated]

RatingsInit ==
  /\ rating = [r \in Rateable |-> 0]
  /\ reputation = Unrated
  /\ rater = [c \in Raters |-> NoRater]

Rating(c, stage) == rater[c].stage = stage

ReadRequest(c, r, stars) ==
  /\ Rating(c, "idle")
  /\ rating[r] = 0
  /\ rater' = [rater EXCEPT ![c] = [NoRater EXCEPT !.stage = "rate", !.request = r, !.stars = stars]]
  /\ UNCHANGED <<rating, reputation>>

WriteRating(c) ==
  /\ Rating(c, "rate")
  /\ rating' = [rating EXCEPT ![rater[c].request] = rater[c].stars]
  /\ rater' = [rater EXCEPT ![c].stage = "collector"]
  /\ UNCHANGED reputation

ReadCollector(c) ==
  /\ Rating(c, "collector")
  /\ rater' = [rater EXCEPT ![c].stage = "reputation", ![c].read = reputation]
  /\ UNCHANGED <<rating, reputation>>

(* Fewer than three stars on average, after enough ratings                  *)
NeedsQa(stars, total) == stars < 3 * total /\ total >= QaRatings

WriteReputation(c) ==
  LET stars == rater[c].read.stars + rater[c].stars
      total == rater[c].read.totalRatings + 1
  IN  /\ Rating(c, "reputation")
      /\ reputation' = [stars |-> stars, totalRatings |-> total,
                        requiresQaReview |-> NeedsQa(stars, total)
                                               \/ rater[c].read.requiresQaReview]
      /\ rater' = [rater EXCEPT ![c] = NoRater]
      /\ UNCHANGED rating

(* A write fails, or the server stops                                       *)
RatingFails(c) ==
  /\ ~Rating(c, "idle")
  /\ rater' = [rater EXCEPT ![c] = NoRater]
  /\ UNCHANGED <<rating, reputation>>

RatingsNext ==
  \E c \in Raters :
    \/ \E r \in Rateable, stars \in Stars : ReadRequest(c, r, stars)
    \/ WriteRating(c) \/ ReadCollector(c) \/ WriteReputation(c) \/ RatingFails(c)

RatingsSpec == RatingsInit /\ [][RatingsNext]_ratingVars

-----------------------------------------------------------------------------
(* Properties                                                              *)

Reputation == [stars : Nat, totalRatings : Nat, requiresQaReview : BOOLEAN]

(* The score stays between one star and five: a call that goes on from an   *)
(* old reputation loses ratings, but never half of one.                     *)
RatingsTypeOK ==
  /\ rating \in [Rateable -> 0..5]
  /\ reputation \in Reputation
  /\ reputation.totalRatings <= reputation.stars
  /\ reputation.stars <= 5 * reputation.totalRatings
  /\ \A c \in Raters : rater[c].read \in Reputation /\ rater[c].stars \in 0..5

=============================================================================
