------------------------------- MODULE Ratings -------------------------------
(***************************************************************************)
(* giveStudentFeedback: the student's score goes on the lesson, then the   *)
(* average over all rated lessons of the instructor is aggregated and then *)
(* stored on the instructor's row.  Lessons may be rated again, two        *)
(* students may rate at once, and the server may die between the writes.   *)
(***************************************************************************)
EXTENDS Naturals, FiniteSets, FiniteSetsExt, Handlers

CONSTANTS
    Lessons,        \* the lessons of one instructor
    Scores          \* the ratings students send; a null one, which takes a rating back, is None

ASSUME RatingsAssumption ==
    /\ Scores \subseteq Nat
    /\ None \notin Scores /\ None \notin Requests

VARIABLES
    score,          \* [Lessons -> studentFeedbackRating]
    profile,        \* rating and reviewsCount of the instructor
    rater,          \* [Requests -> giveStudentFeedback]
    averages,       \* history: every average the lessons have had
    solo,           \* history: the request that has had the lessons for itself since it began
    settled         \* history: the profile was stored by such a request, and nothing since

ratingsVars == <<score, profile, rater, averages, solo, settled>>

\* _avg and _count of the rated lessons; the average is kept as the sum it is of.
Average(scores) ==
    LET rated == {l \in Lessons : scores[l] # None} IN
    [total |-> MapThenSumSet(LAMBDA l : scores[l], rated), count |-> Cardinality(rated)]

NoReviews == [total |-> 0, count |-> 0]

\* The averages the lessons can have.
Stats == {Average(scores) : scores \in [Lessons -> Scores \cup {None}]}

NoRating == [at |-> "idle", lesson |-> None, score |-> None, stats |-> NoReviews]

RaterSlot(stats) ==
    [at : {"idle", "write", "aggregate", "store"}, lesson : Lessons \cup {None},
     score : Scores \cup {None}, stats : stats]

RatingsInit ==
    /\ score = [l \in Lessons |-> None]
    /\ profile = NoReviews
    /\ rater = [r \in Requests |-> NoRating]
    /\ averages = {NoReviews}
    /\ solo = None /\ settled = TRUE

\* No condition on the status of the lesson, nor on a rating it has already.
GiveFeedback(r, l, s) ==
    /\ rater[r].at = "idle"
    /\ rater' = [rater EXCEPT ![r] = [at |-> "write", lesson |-> l, score |-> s,
                                      stats |-> NoReviews]]
    /\ solo' = IF \A q \in Requests : rater[q].at = "idle" THEN r ELSE None
    /\ UNCHANGED <<score, profile, averages, settled>>

WriteScore(r) ==
    /\ rater[r].at = "write"
    /\ score' = [score EXCEPT ![rater[r].lesson] = rater[r].score]
    /\ averages' = averages \cup {Average(score')}
    /\ settled' = FALSE
    /\ rater' = [rater EXCEPT ![r] = [@ EXCEPT !.at = "aggregate"]]
    /\ UNCHANGED <<profile, solo>>

Aggregate(r) ==
    /\ rater[r].at = "aggregate"
    /\ rater' = [rater EXCEPT ![r] = [@ EXCEPT !.at = "store", !.stats = Average(score)]]
    /\ UNCHANGED <<score, profile, averages, solo, settled>>

\* Mutant: the new score is added to what the profile has.
StoreAverage_Incremental(r) ==
    /\ rater[r].at = "store"
    /\ profile' = IF rater[r].score = None THEN profile
                  ELSE [total |-> profile.total + rater[r].score, count |-> profile.count + 1]
    /\ settled' = (solo = r)
    /\ rater' = [rater EXCEPT ![r] = NoRating]
    /\ UNCHANGED <<score, averages, solo>>

\* What was aggregated an await ago.
StoreAverage(r) ==
    /\ rater[r].at = "store"
    /\ profile' = rater[r].stats
    /\ settled' = (solo = r)
    /\ rater' = [rater EXCEPT ![r] = NoRating]
    /\ UNCHANGED <<score, averages, solo>>

\* A score may be left on its lesson and in no average.
RatingCrash(r) ==
    /\ rater[r].at # "idle"
    /\ rater' = [rater EXCEPT ![r] = NoRating]
    /\ UNCHANGED <<score, profile, averages, solo, settled>>

RatingsNext ==
    \E r \in Requests :
        \/ \E l \in Lessons, s \in Scores \cup {None} : GiveFeedback(r, l, s)
        \/ WriteScore(r) \/ Aggregate(r) \/ StoreAverage(r) \/ RatingCrash(r)

RatingsSpec == RatingsInit /\ [][RatingsNext]_ratingsVars

(***************************************************************************)
(* Properties                                                              *)
(***************************************************************************)
\* Rows and requests have the columns and values of the code.
RatingsTypeOK ==
    /\ score \in [Lessons -> Scores \cup {None}]
    /\ profile \in Stats
    /\ rater \in [Requests -> RaterSlot(Stats)]
    /\ averages \subseteq Stats
    /\ solo \in Requests \cup {None} /\ settled \in BOOLEAN

\* The profile shows an average the lessons have had, never a mix of two and never
\* a lesson counted twice; and the present one once a rating has run alone to its
\* end: ratings that overlap, or die, leave an old average until then.
RatingIsAverage ==
    /\ profile \in averages
    /\ settled => profile = Average(score)

(***************************************************************************)
(* What makes them so                                                      *)
(***************************************************************************)
\* What a request has aggregated is an average, and while it has the lessons for
\* itself the present one.
RaterInv(r) ==
    /\ solo = r /\ rater[r].at = "store" => rater[r].stats = Average(score)
    /\ solo = r => \A q \in Requests : q # r => rater[q].at = "idle"

\* Inductive.
RatingsInv ==
    /\ RatingsTypeOK
    /\ RatingIsAverage
    /\ NoReviews \in averages /\ Average(score) \in averages
    /\ rater \in [Requests -> RaterSlot(averages)]
    /\ \A r \in Requests : RaterInv(r)
=============================================================================
