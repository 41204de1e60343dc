------------------------------ MODULE Matching ------------------------------
(***************************************************************************)
(* Matching: which event a cluster pass takes a signal for.  Every signal  *)
(* is compared with candidates, chosen in one of two ways, and is linked to*)
(* the best, sent to review, or becomes an event of its own that the later *)
(* signals of the pass are compared with.                                  *)
(*                                                                         *)
(* Scores are in percent, times in hours, places kilometres on a line; -1  *)
(* is no time or no place, "none" no title or category.  A title stands for*)
(* the whole text it heads, and names the vector of that text.             *)
(***************************************************************************)
EXTENDS Integers, FiniteSets

CONSTANTS
    Story,       \* what signals say: title, start, place, category
    Words,       \* Jaccard similarity of two titles
    Cosine,      \* cosine of the vectors of two titles
    Venue,       \* rows of venues, a bound
    VenueSamePlace,  \* VENUE_SAME_PLACE_KM
    Nearest,     \* PGVECTOR_CANDIDATE_K
    Link,        \* settings.cluster_link_threshold
    Review,      \* settings.cluster_review_threshold
    SameTime,    \* settings.cluster_time_window_hours
    SamePoint,   \* settings.cluster_distance_km
    VetoTime,    \* settings.cluster_max_link_time_days
    VetoPlace,   \* settings.cluster_max_link_distance_km
    CandidateWindow,  \* settings.cluster_candidate_window_days
    MaxEvents    \* bound: events

Titles == {s.title : s \in Story} \cup {"untitled"}
Points == {s.place : s \in Story} \cup {-1}

ASSUME MatchingAssumption ==
    /\ {Nearest, SameTime, SamePoint, VetoTime, VetoPlace, CandidateWindow, VenueSamePlace, MaxEvents}
           \subseteq Nat
    /\ {Review, Link} \subseteq Nat /\ Review < Link
    /\ \A s \in Story : {s.start, s.place} \subseteq Int
    /\ \A t, u \in Titles : {Words[<<t, u>>], Cosine[<<t, u>>]} \subseteq Int
    /\ "missing" \notin Titles /\ "nowhere" \notin Venue

VARIABLES
    events,    \* id, title, category, start, venue, vector
    points,    \* where each venue is
    created,   \* ids of the events of the running pass
    decided    \* the last signal, how its candidates were found, and its outcome

matchingVars == <<events, points, created, decided>>

Undecided == [outcome |-> "none"]

MatchingInit ==
    /\ events = {} /\ points = [v \in Venue |-> -1]
    /\ created = {} /\ decided = Undecided

Between(p, q) == IF p <= q THEN q - p ELSE p - q
Known(p, q) == p # -1 /\ q # -1

\* has_coordinates of the event's venue, if it has one.
PlaceOf(e) == IF e.venue = "nowhere" THEN -1 ELSE points[e.venue]

-----------------------------------------------------------------------------
(* score_pair, of a signal (vector: whether it has one) and an event.      *)

Vetoed(s, e) ==
    \/ Known(s.place, PlaceOf(e)) /\ Between(s.place, PlaceOf(e)) > VetoPlace
    \/ Known(s.start, e.start) /\ Between(s.start, e.start) > VetoTime

\* title_similarity: the vectors if there are both, else the titles.
TitleSimilarity(s, vector, e) ==
    IF vector /\ e.vector # "missing" THEN Cosine[<<s.title, e.vector>>]
    ELSE IF s.title = "none" THEN 0 ELSE Words[<<s.title, e.title>>]

TimeBoost(s, e) == IF Known(s.start, e.start) /\ Between(s.start, e.start) <= SameTime THEN 20 ELSE 0
CategoryBoost(s, e) == IF s.category # "none" /\ s.category = e.category THEN 10 ELSE 0
GeoBoost(s, e) ==
    IF Known(s.place, PlaceOf(e)) /\ Between(s.place, PlaceOf(e)) <= SamePoint THEN 25 ELSE 0

\* Without a trace of the title or the time, place and category say nothing.
ScoreOf(s, vector, e) ==
    LET title == TitleSimilarity(s, vector, e)
    IN  IF Vetoed(s, e) THEN 0
        ELSE IF title < 10 /\ TimeBoost(s, e) = 0 THEN title
        ELSE title + CategoryBoost(s, e) + TimeBoost(s, e) + GeoBoost(s, e)

-----------------------------------------------------------------------------
(* _get_candidates                                                         *)

\* The scan narrows by time, unless signal or event has none.
InWindow(s) ==
    {e \in events : Known(s.start, e.start) => Between(s.start, e.start) <= CandidateWindow}

\* The index gives the nearest of the events that have a vector.
Indexed == {e \in events : e.vector # "missing"}
Closer(s, near, e) == \A f \in near : Cosine[<<s.title, e.vector>>] <= Cosine[<<s.title, f.vector>>]
Nearby(s) ==
    {near \in SUBSET Indexed :
        /\ Cardinality(near) <= Nearest /\ (near = Indexed \/ Cardinality(near) = Nearest)
        /\ \A e \in Indexed \ near : Closer(s, near, e)}

\* The events of the pass are always appended.
OfThisPass == {e \in events : e.id \in created}

Found(s, way) == IF way = "scan" THEN {InWindow(s)} ELSE Nearby(s)
CandidatesFound(s, way) == Found(s, way)
Candidates(s, way) == {found \cup OfThisPass : found \in Found(s, way)}

-----------------------------------------------------------------------------
(* _cluster_signals_locked, for one signal.  The first of equally good     *)
(* candidates wins, in an order that is free.                              *)

Best(s, vector, candidates) ==
    {e \in candidates : /\ ScoreOf(s, vector, e) > 0
                        /\ \A f \in candidates : ScoreOf(s, vector, f) <= ScoreOf(s, vector, e)}

TooLow(score) == score < Review \/ score <= 0

Decide(s, vector, way, outcome, e, score) ==
    decided' = [signal |-> s, vector |-> vector, way |-> way, outcome |-> outcome, event |-> e, score |-> score]

\* link_signal_to_event: the event, and its venue with all its other events, get
\* what they lack from the signal.
FillIn(e, s) ==
    /\ events' = (events \ {e}) \cup {[e EXCEPT !.start = IF @ = -1 THEN s.start ELSE @]}
    /\ points' = [v \in Venue |-> IF v = e.venue /\ points[v] = -1 THEN s.place ELSE points[v]]

Match(s, vector, way) ==
    /\ way = "index" => vector
    /\ \E candidates \in Candidates(s, way) : \E e \in Best(s, vector, candidates) :
          LET score == ScoreOf(s, vector, e)
          IN  /\ score >= Review
              /\ Decide(s, vector, way, IF score >= Link THEN "link" ELSE "review", e.id, score)
              /\ IF score >= Link THEN FillIn(e, s) ELSE UNCHANGED <<events, points>>
    /\ UNCHANGED created

\* get_or_create_venue, for a signal with coordinates: a new venue, one without
\* coordinates, or one at the same place.  Without, the venue, if the signal names
\* one, is where it is known or geocoded to be, if it is.
Houses(s, venue, at) ==
    s.place # -1 =>
        venue # "nowhere" /\ at = s.place
        /\ (points[venue] # -1 => Between(points[venue], s.place) <= VenueSamePlace)

\* create_event_from_signal
EventOf(s, id, venue, vector) ==
    [id |-> id, start |-> s.start, venue |-> venue, vector |-> vector,
     title |-> IF s.title = "none" THEN "untitled" ELSE s.title,
     category |-> IF s.category = "none" THEN "general" ELSE s.category]

Seed(s, vector, way) ==
    /\ way = "index" => vector
    /\ Cardinality(events) < MaxEvents
    /\ \E candidates \in Candidates(s, way) :
          \A e \in candidates : TooLow(ScoreOf(s, vector, e))
    /\ LET id == Cardinality(events) + 1 IN
       /\ \E venue \in Venue \cup {"nowhere"}, at \in Points :
             /\ Houses(s, venue, at)
             /\ points' = [v \in Venue |-> IF v = venue /\ points[v] = -1 THEN at ELSE points[v]]
             /\ \E own \in {"missing", EventOf(s, id, venue, "missing").title} :
                   events' = events \cup {EventOf(s, id, venue, IF vector THEN s.title ELSE own)}
       /\ created' = created \cup {id}
       /\ Decide(s, vector, way, "create", id, 0)

EndPass ==
    /\ created' = {} /\ decided' = Undecided
    /\ UNCHANGED <<events, points>>

\* Events are deleted, their venues stay.
Clear ==
    /\ created = {} /\ events' = {} /\ decided' = Undecided
    /\ UNCHANGED <<points, created>>

MatchingNext ==
    \/ \E s \in Story, vector \in BOOLEAN, way \in {"scan", "index"} : Match(s, vector, way) \/ Seed(s, vector, way)
    \/ EndPass \/ Clear

MatchingSpec == MatchingInit /\ [][MatchingNext]_matchingVars

-----------------------------------------------------------------------------
(* Properties.                                                             *)

MatchingTypeOK ==
    /\ \A e \in events : /\ e.id \in 1 .. MaxEvents /\ e.title \in Titles
                         /\ e.vector \in Titles \cup {"missing"} /\ e.venue \in Venue \cup {"nowhere"}
    /\ \A e, f \in events : e.id = f.id => e = f
    /\ points \in [Venue -> Points]
    /\ created \subseteq {e.id : e \in events}
    /\ decided.outcome \in {"none", "link", "review", "create"}

\* What the index does not give: an older event that has no vector, or that as many
\* others as are asked for are at least as near as.
Overlooked(s, way, e) ==
    /\ way = "index" /\ e.id \notin created
    /\ \/ e.vector = "missing"
       \/ \E near \in SUBSET (Indexed \ {e}) : Cardinality(near) = Nearest /\ Closer(s, near, e)

BestOfAll ==
    decided'.outcome # "none" =>
        \A e \in events :
            LET score == ScoreOf(decided'.signal, decided'.vector, e)
            IN  \/ Overlooked(decided'.signal, decided'.way, e)
                \/ /\ decided'.outcome = "create" => TooLow(score)
                   /\ decided'.outcome \in {"review", "link"} => score <= decided'.score
                   /\ decided'.outcome = "review" => score < Link

\* The event a signal is linked to or reviewed against is the best of all there are
\* at that moment, and a signal becomes an event of its own only if none is near
\* enough: the window of the scan loses no match, nor do the vectors that are still
\* missing in the running pass; the index loses those it overlooks, and no other
\* (clustering.py:32-38, :121-136, :205-235).
NoBetterMatch == [][BestOfAll]_matchingVars
=============================================================================
