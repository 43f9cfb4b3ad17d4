------------------------------- MODULE Comments -------------------------------
(***************************************************************************)
(* The comments of one product and the rating kept on the product's row.   *)
(* Moderation answers first and recomputes the rating behind the answer.   *)
(***************************************************************************)
EXTENDS Integers, FiniteSets, Sequences, FiniteSetsExt

CONSTANTS
    MaxComments,       \* bound: ids are 1 .. MaxComments
    Stars,             \* the ratings a customer may give
    Recomputations,    \* recomputeProductRating calls in flight together
    Deletions,         \* deleteComment calls in flight together
    MaxModerations     \* bound: writes to comments after their creation

ASSUME CommentConstantsOK == MaxComments \in Nat /\ Stars \subseteq Nat \ {0}

VARIABLES
    comment,           \* the Comment rows, by id
    deleting,          \* the comment each deleteComment call has checked
    rating,            \* avgRating and reviewCount of the product, as sum and count
    recomputing,       \* the recomputations behind the answers
    moderations,       \* bound
    ratingMissed       \* history: a change of the approved ratings nobody recomputes

commentsVars == <<comment, deleting, rating, recomputing, moderations, ratingMissed>>
-------------------------------------------------------------------------------
NoComment == 0         \* no parent, nothing to delete

NoStars == 0

NoRating == [sum |-> 0, count |-> 0]

IdleRating == [phase |-> "idle", read |-> NoRating, overtaken |-> FALSE]

CommentIds == DOMAIN comment

\* Deleted rows keep their place: ids are not used again.
Existing == {c \in CommentIds : comment[c].status # "deleted"}

Given == [c \in CommentIds |-> comment[c].stars]

RatingOf(ids) == [sum |-> SumFunctionOnSet(Given, ids), count |-> Cardinality(ids)]

\* Faulty: comments still to be moderated count.
RatedAnyStatus == {c \in Existing : comment[c].stars # NoStars}

\* The rows recomputeProductRating aggregates: replies would count, too.
ApprovedRated == {c \in Existing : comment[c].status = "APPROVED" /\ comment[c].stars # NoStars}

CommentsInit ==
    /\ comment = <<>>
    /\ deleting = [d \in Deletions |-> NoComment]
    /\ rating = NoRating
    /\ recomputing = [t \in Recomputations |-> IdleRating]
    /\ moderations = 0
    /\ ratingMissed = FALSE

\* The rows a recomputation has read are no longer those of the table.
ReadsOvertaken ==
    [t \in Recomputations |->
        [recomputing[t] EXCEPT !.overtaken = @ \/ recomputing[t].phase = "write"]]
-------------------------------------------------------------------------------
\* createComment: only a comment on the product itself carries stars.
CreateComment(parent, stars) ==
    /\ Len(comment) < MaxComments
    /\ parent \in Existing \cup {NoComment}
    /\ parent # NoComment => stars = NoStars
    /\ comment' = Append(comment, [status |-> "PENDING", parent |-> parent, stars |-> stars])
    /\ UNCHANGED <<deleting, rating, recomputing, moderations, ratingMissed>>

\* updateComment: back to the queue, and the rating stays as it is.
UpdateComment(c) ==
    /\ c \in Existing /\ moderations < MaxModerations
    /\ comment' = [comment EXCEPT ![c].status = "PENDING"]
    /\ moderations' = moderations + 1
    /\ ratingMissed' = (ratingMissed \/ c \in ApprovedRated)
    /\ recomputing' = IF c \in ApprovedRated THEN ReadsOvertaken ELSE recomputing
    /\ UNCHANGED <<deleting, rating>>

\* deleteComment counts the replies ...
CheckReplies(d, c) ==
    /\ deleting[d] = NoComment /\ moderations < MaxModerations
    /\ c \in Existing
    /\ \A r \in Existing : comment[r].parent # c
    /\ deleting' = [deleting EXCEPT ![d] = c]
    /\ UNCHANGED <<comment, rating, recomputing, moderations, ratingMissed>>

\* ... and deletes, if the comment is still there; a reply that came meanwhile loses
\* its parent, and the rating stays as it is.
DeleteComment(d) ==
    LET c == deleting[d]
    IN  /\ c # NoComment
        /\ comment' = [r \in CommentIds |->
                IF c \notin Existing THEN comment[r]
                ELSE IF r = c THEN [comment[r] EXCEPT !.status = "deleted"]
                ELSE IF comment[r].parent = c THEN [comment[r] EXCEPT !.parent = NoComment]
                ELSE comment[r]]
        /\ deleting' = [deleting EXCEPT ![d] = NoComment]
        /\ moderations' = moderations + 1
        /\ ratingMissed' = (ratingMissed \/ c \in ApprovedRated)
        /\ recomputing' = IF c \in ApprovedRated THEN ReadsOvertaken ELSE recomputing
        /\ UNCHANGED rating

\* moderateComment writes the status and starts the recomputation.
ModerateComment(c, status, t) ==
    /\ c \in Existing /\ moderations < MaxModerations
    /\ recomputing[t].phase = "idle"
    /\ comment' = [comment EXCEPT ![c].status = status]
    /\ moderations' = moderations + 1
    /\ recomputing' = [ReadsOvertaken EXCEPT ![t].phase = "read"]
    /\ UNCHANGED <<deleting, rating, ratingMissed>>

\* recomputeProductRating: the aggregate is read ...
ReadRatings(t) ==
    /\ recomputing[t].phase = "read"
    /\ recomputing' = [recomputing EXCEPT ![t] =
            [phase |-> "write", read |-> RatingOf(ApprovedRated), overtaken |-> FALSE]]
    /\ UNCHANGED <<comment, deleting, rating, moderations, ratingMissed>>

\* ... and written.
WriteRating(t) ==
    /\ recomputing[t].phase = "write"
    /\ rating' = recomputing[t].read
    /\ ratingMissed' = recomputing[t].overtaken
    /\ recomputing' = [recomputing EXCEPT ![t] = IdleRating]
    /\ UNCHANGED <<comment, deleting, moderations>>

\* .catch(() => undefined): an error, or the end of the process, is not noticed.
RecomputationFails(t) ==
    /\ recomputing[t].phase # "idle"
    /\ recomputing' = [recomputing EXCEPT ![t] = IdleRating]
    /\ ratingMissed' = TRUE
    /\ UNCHANGED <<comment, deleting, rating, moderations>>

CommentsNext ==
    \/ \E parent \in 0 .. MaxComments, stars \in Stars \cup {NoStars} : CreateComment(parent, stars)
    \/ \E c \in 1 .. MaxComments :
          \/ UpdateComment(c)
          \/ \E d \in Deletions : CheckReplies(d, c)
          \/ \E status \in {"APPROVED", "REJECTED"}, t \in Recomputations :
                ModerateComment(c, status, t)
    \/ \E d \in Deletions : DeleteComment(d)
    \/ \E t \in Recomputations : ReadRatings(t) \/ WriteRating(t) \/ RecomputationFails(t)
-------------------------------------------------------------------------------
\* The ratingSummary of listApprovedComments: the top level only.
SummarisedRatings ==
    {c \in Existing : /\ comment[c].parent = NoComment
                      /\ comment[c].status = "APPROVED"
                      /\ comment[c].stars # NoStars}

\* The comments it lists: approved ones under an approved parent, up to the top.
ListedComments ==
    LET approved == {c \in Existing : comment[c].status = "APPROVED"}
        level[n \in 0 .. MaxComments] ==
            IF n = 0 THEN {c \in approved : comment[c].parent = NoComment}
            ELSE {c \in approved : comment[c].parent \in level[n - 1]}
    IN  UNION {level[n] : n \in 0 .. MaxComments}

CommentsTypeOK ==
    /\ Len(comment) <= MaxComments
    /\ \A c \in CommentIds : comment[c].parent \in 0 .. c - 1
    /\ rating.sum >= rating.count

\* Once the recomputations are done, the stars on the product's card are those of the
\* comments listed under it, although two queries with different filters compute them.
\* Only an edited or deleted approved comment, two recomputations that cross or one
\* that fails may leave them apart (product.service.ts 607-621, comment.service.ts
\* 234-315, 439-474, and schema.prisma 555-556).
RatingCountsListedComments ==
    (\A t \in Recomputations : recomputing[t].phase = "idle") /\ ~ratingMissed =>
        /\ rating = RatingOf(SummarisedRatings)
        /\ SummarisedRatings \subseteq ListedComments
===============================================================================
