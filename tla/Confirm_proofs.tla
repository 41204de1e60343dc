---------------------------- MODULE Confirm_proofs --------------------------
(* No event the pipeline makes is confirmed in silence, and every score is   *)
(* in range: for every number of events, reviewers and edits, every threshold*)
(* and every set of sources and precisions.  And evidence takes no           *)
(* confirmation back, if the threshold is not too far from its default.      *)
EXTENDS Confirm, TLAPS

-----------------------------------------------------------------------------
(* The inductive invariant.                                                  *)

\* The evidence of an event, that of a session not yet committed included,
\* stays within its bound.
EvidenceBounded == \A w \in Session, e \in Event : Evidence(w, e) <= MaxEvidence

\* Only one session at a time has changed an event, and it has a copy of it.
OneWriter ==
    /\ \A v, w \in Session, e \in Event : Dirty(v, e) /\ Dirty(w, e) => v = w
    /\ \A w \in Session, e \in Event : Dirty(w, e) => copy[w][e] # None

\* An event a session has read is there, and nobody changes how it was made.
LoadedIsStored ==
    \A w \in Session, e \in Event :
        loaded[w][e] # None =>
            /\ row[e] # None /\ copy[w][e] # None
            /\ copy[w][e].posted = row[e].posted

\* An event a session has a copy of and has not read is its own new one.
SeededAlone ==
    \A w \in Session, e \in Event :
        copy[w][e] # None /\ loaded[w][e] = None =>
            /\ row[e] = None /\ ~copy[w][e].posted
            /\ \A v \in Session \ {w} : copy[v][e] = None

\* Of an event with an organizer the session knows the organizer's score.
OrganizerIsRead ==
    \A w \in Session, e \in Event :
        copy[w][e] # None /\ copy[w][e].organized => trust[w] \in Percent

\* The copies sessions write are announced before they are written.
CopiesAnnounced ==
    \A w \in Session, e \in Event :
        copy[w][e] # None /\ ~copy[w][e].posted => Announced(copy[w][e], e)

IInv ==
    /\ TypeOK
    /\ EvidenceBounded
    /\ OneWriter
    /\ LoadedIsStored
    /\ SeededAlone
    /\ OrganizerIsRead
    /\ CopiesAnnounced
    /\ SeededIsAnnounced

-----------------------------------------------------------------------------
(* Scores.                                                                   *)

\* Thousandths of at most 1 stay so.
LEMMA Thousandths ==
    ASSUME NEW m \in Nat, m <= 100050
    PROVE  m \div 100 \in Nat /\ m \div 100 <= 1000
  OBVIOUS

\* Rounding keeps a score between 0 and 1.
LEMMA CappedAndRounded ==
    ASSUME NEW n \in Nat
    PROVE  Rounded(AtMost(100000, n)) \subseteq Score
  <1>1. AtMost(100000, n) \in Nat /\ AtMost(100000, n) <= 100000
      BY DEF AtMost
  <1> QED
      BY <1>1, Thousandths DEF Rounded, Score

\* A score is between 0 and 1 although its terms sum up to 1.4.
LEMMA ScoreInRange ==
    ASSUME NEW source \in Score, NEW count \in Nat, NEW geo \in Percent,
           NEW time \in Percent, NEW organizer \in Percent
    PROVE  score_event(source, count, geo, time, organizer) \subseteq Score
  <1>1. AtMost(5, count) \in Nat
      BY DEF AtMost
  <1>2. Points(source, count, geo, time, organizer) \in Nat
      BY <1>1 DEF Points, Score, Percent
  <1> QED
      BY <1>2, CappedAndRounded DEF score_event

\* A column set to a value of its type leaves a row a row, and other columns alone.
LEMMA SetColumn ==
    ASSUME NEW event \in Row
    PROVE  /\ \A x \in Score : [event EXCEPT !.conf = x] \in Row
           /\ \A x \in Percent : [event EXCEPT !.geo = x] \in Row
           /\ \A x \in Percent : [event EXCEPT !.time = x] \in Row
           /\ \A x \in 0 .. MaxEvidence : [event EXCEPT !.count = x] \in Row
           /\ \A x \in BOOLEAN : [event EXCEPT !.organized = x] \in Row
           /\ \A x \in BOOLEAN : [event EXCEPT !.edited = x] \in Row
  <1>1. \A x \in Score : [event EXCEPT !.conf = x] \in Row
      BY DEF Row
  <1>2. \A x \in Percent : [event EXCEPT !.geo = x] \in Row
      BY DEF Row
  <1>3. \A x \in Percent : [event EXCEPT !.time = x] \in Row
      BY DEF Row
  <1>4. \A x \in 0 .. MaxEvidence : [event EXCEPT !.count = x] \in Row
      BY DEF Row
  <1>5. \A x \in BOOLEAN : [event EXCEPT !.organized = x] \in Row
      BY DEF Row
  <1>6. \A x \in BOOLEAN : [event EXCEPT !.edited = x] \in Row
      BY DEF Row
  <1> QED
      BY <1>1, <1>2, <1>3, <1>4, <1>5, <1>6

\* A webhook is counted when a score crosses the threshold, and never uncounted.
LEMMA NotifyEffect ==
    ASSUME TypeOK, NEW e \in Event, notified[e] < MaxNotified,
           NEW before \in Score, NEW after \in Score,
           Notify(e, before, after)
    PROVE  /\ notified' \in [Event -> 0 .. MaxNotified]
           /\ \A f \in Event : notified[f] > 0 => notified'[f] > 0
           /\ Crosses(before, after) => notified'[e] > 0
  BY ConfirmAssumption DEF TypeOK, Notify, Crosses, Score

-----------------------------------------------------------------------------
(* Each action preserves the invariant.                                      *)

\* The invariant holds before the first request.
LEMMA InitIInv == Init => IInv
  BY ConfirmAssumption
     DEF Init, NoEvents, IInv, TypeOK, EvidenceBounded, Evidence, OneWriter, Dirty,
         LoadedIsStored, SeededAlone, OrganizerIsRead, CopiesAnnounced,
         SeededIsAnnounced, Announced, Percent

\* An event made by POST /events is nobody's copy and not the pipeline's.
LEMMA CreateEventIInv ==
    ASSUME IInv, NEW e \in Event, NEW geo \in Venue, NEW time \in Start,
           NEW organized \in BOOLEAN, create_event(e, geo, time, organized)
    PROVE  IInv'
  <1> DEFINE organizer == IF organized THEN reliability ELSE 0
             new(conf) == [conf |-> conf, geo |-> geo, time |-> time, count |-> 0,
                           organized |-> organized, posted |-> TRUE, edited |-> FALSE]
  <1>1. geo \in Percent /\ time \in Percent /\ organizer \in Percent
      BY ConfirmAssumption DEF IInv, TypeOK, Percent
  <1>2. PICK conf \in score_event(600, 1, geo, time, organizer) :
            row' = [row EXCEPT ![e] = new(conf)]
      BY DEF create_event
  <1> HIDE DEF organizer
  <1>3. conf \in Score
    <2>1. 600 \in Score /\ 1 \in Nat
        BY DEF Score
    <2>2. score_event(600, 1, geo, time, organizer) \subseteq Score
        BY <2>1, <1>1, ScoreInRange
    <2> QED
        BY <2>2, <1>2
  <1>4. new(conf) \in Row /\ new(conf).posted /\ new(conf).count = 0
      BY <1>1, <1>3, ConfirmAssumption DEF Row
  <1>5. row[e] = None /\ \A w \in Session : copy[w][e] = None
      BY DEF create_event, Unknown
  <1>6. UNCHANGED <<reliability, loaded, copy, trust, added, verdict, edits, notified>>
      BY DEF create_event, session
  <1> HIDE DEF new
  <1>7. TypeOK'
      BY <1>2, <1>4, <1>6 DEF IInv, TypeOK
  <1>8. EvidenceBounded'
      <2> SUFFICES ASSUME NEW w \in Session, NEW f \in Event
                   PROVE  Evidence(w, f)' <= MaxEvidence
          BY DEF EvidenceBounded
      <2>1. Evidence(w, f)' = Evidence(w, f)
          BY <1>2, <1>4, <1>5, <1>6 DEF IInv, TypeOK, Evidence
      <2> QED
          BY <2>1 DEF IInv, EvidenceBounded
  <1>9. OneWriter' /\ OrganizerIsRead' /\ CopiesAnnounced'
      BY <1>6 DEF IInv, OneWriter, Dirty, OrganizerIsRead, CopiesAnnounced, Announced
  <1>10. LoadedIsStored' /\ SeededAlone'
      BY <1>2, <1>5, <1>6 DEF IInv, TypeOK, LoadedIsStored, SeededAlone
  <1>11. SeededIsAnnounced'
      BY <1>2, <1>4, <1>6 DEF IInv, TypeOK, SeededIsAnnounced, Announced
  <1> QED
      BY <1>7, <1>8, <1>9, <1>10, <1>11 DEF IInv

\* A PATCH leaves the score of an event and how it was made.
LEMMA UpdateEventIInv ==
    ASSUME IInv, NEW e \in Event, NEW geo \in {row[e].geo} \cup Venue,
           NEW time \in {row[e].time} \cup Start, NEW organized \in BOOLEAN,
           update_event(e, geo, time, organized)
    PROVE  IInv'
  <1> DEFINE new == [row[e] EXCEPT !.geo = geo, !.time = time,
                                   !.organized = organized, !.edited = TRUE]
  <1>1. row[e] \in Row /\ row[e] # None
      BY DEF IInv, TypeOK, update_event
  <1>2. row[e].geo \in Percent /\ row[e].time \in Percent
      BY <1>1 DEF Row
  <1>3. geo \in Percent /\ time \in Percent
      BY <1>2, ConfirmAssumption
  <1>4. /\ new.conf = row[e].conf /\ new.posted = row[e].posted
        /\ new.count = row[e].count
      BY <1>1 DEF Row
  <1>5. /\ row' = [row EXCEPT ![e] = new] /\ edits' \in 0 .. MaxEdits
        /\ UNCHANGED <<reliability, loaded, copy, trust, added, verdict, notified>>
      BY ConfirmAssumption DEF update_event, session, IInv, TypeOK
  <1>11. new \in Row
      BY <1>1, <1>3, SetColumn, Zenon
  <1> HIDE DEF new
  <1>6. TypeOK'
      BY <1>11, <1>5 DEF IInv, TypeOK
  <1>7. EvidenceBounded'
      <2> SUFFICES ASSUME NEW w \in Session, NEW f \in Event
                   PROVE  Evidence(w, f)' <= MaxEvidence
          BY DEF EvidenceBounded
      <2>1. Evidence(w, f)' = Evidence(w, f) \/ row'[f] = None
          BY <1>1, <1>4, <1>5 DEF IInv, TypeOK, Evidence
      <2> QED
          BY <2>1, <1>1, <1>5 DEF IInv, TypeOK, EvidenceBounded, Evidence
  <1>8. OneWriter' /\ OrganizerIsRead' /\ CopiesAnnounced'
      BY <1>5 DEF IInv, OneWriter, Dirty, OrganizerIsRead, CopiesAnnounced, Announced
  <1>9. LoadedIsStored' /\ SeededAlone'
    <2>1. LoadedIsStored'
        BY <1>1, <1>4, <1>5, <1>11, ConfirmAssumption DEF IInv, TypeOK, LoadedIsStored
    <2>2. SeededAlone'
        BY <1>1, <1>5 DEF IInv, TypeOK, SeededAlone
    <2> QED
        BY <2>1, <2>2
  <1>10. SeededIsAnnounced'
      BY <1>1, <1>4, <1>5 DEF IInv, TypeOK, SeededIsAnnounced, Announced
  <1> QED
      BY <1>6, <1>7, <1>8, <1>9, <1>10 DEF IInv

\* The organizer's score a session keeps is a score, and it has one whenever it
\* reads an event with an organizer.
LEMMA ReadOrganizerEffect ==
    ASSUME IInv, NEW w \in Session, NEW e \in Event, row[e] # None
    PROVE  /\ ReadOrganizer(trust[w], e) \in Percent \cup {None}
           /\ trust[w] \in Percent => ReadOrganizer(trust[w], e) \in Percent
           /\ row[e].organized => ReadOrganizer(trust[w], e) \in Percent
  BY DEF IInv, TypeOK, ReadOrganizer

\* A clean copy of a row is as the row is.
LEMMA CleanCopyIInv ==
    ASSUME IInv, NEW w \in Session, NEW e \in Event, row[e] # None, ~Dirty(w, e),
           loaded' = [loaded EXCEPT ![w][e] = row[e]],
           copy' = [copy EXCEPT ![w][e] = row[e]],
           trust' = [trust EXCEPT ![w] = ReadOrganizer(@, e)],
           UNCHANGED <<row, reliability, added, verdict, edits, notified>>
    PROVE  IInv'
  <1>1. row[e] \in Row
      BY DEF IInv, TypeOK
  <1>2. TypeOK'
      BY <1>1, ReadOrganizerEffect DEF IInv, TypeOK
  <1>3. EvidenceBounded' /\ SeededIsAnnounced'
      BY DEF IInv, EvidenceBounded, Evidence, SeededIsAnnounced, Announced
  <1>4. OneWriter'
      BY DEF IInv, TypeOK, OneWriter, Dirty
  <1>5. LoadedIsStored'
      BY DEF IInv, TypeOK, LoadedIsStored
  <1>6. SeededAlone'
      BY DEF IInv, TypeOK, SeededAlone
  <1>7. OrganizerIsRead'
      BY ReadOrganizerEffect DEF IInv, TypeOK, OrganizerIsRead
  <1>8. CopiesAnnounced'
      BY DEF IInv, TypeOK, CopiesAnnounced, SeededIsAnnounced, Announced
  <1> QED
      BY <1>2, <1>3, <1>4, <1>5, <1>6, <1>7, <1>8 DEF IInv

\* A session reads an event.
LEMMA LoadIInv ==
    ASSUME IInv, NEW w \in Session, NEW e \in Event, Load(w, e)
    PROVE  IInv'
  <1>1. ~Dirty(w, e)
      BY DEF Load, IInv, OneWriter
  <1> QED
      BY <1>1, CleanCopyIInv DEF Load

\* The pass reads an event again: of a row it has changed it sees only the
\* evidence anew, of any other everything.
LEMMA ReloadIInv ==
    ASSUME IInv, NEW e \in Event, Reload(e)
    PROVE  IInv'
  <1>1. Passer \in Session
      BY DEF Session
  <1>2. CASE ~Dirty(Passer, e)
      BY <1>1, <1>2, CleanCopyIInv DEF Reload
  <1>3. CASE Dirty(Passer, e)
    <2> DEFINE new == [copy[Passer][e] EXCEPT !.count = row[e].count + added[Passer][e]]
    <2>1. UNCHANGED <<row, reliability, loaded, trust, added, verdict, edits, notified>>
        BY <1>3 DEF Reload
    <2>2. copy' = [copy EXCEPT ![Passer] = [@ EXCEPT ![e] = new]]
        BY <1>3, Zenon DEF Reload
    <2>3. row[e] \in Row /\ copy[Passer][e] \in Row
        BY <1>1 DEF IInv, TypeOK, Reload
    <2>4. row[e].count + added[Passer][e] \in 0 .. MaxEvidence
        BY <1>1, <2>3, ConfirmAssumption
           DEF IInv, TypeOK, EvidenceBounded, Evidence, Row, Reload
    <2>5. new \in Row
        BY <2>3, <2>4, SetColumn
    <2>6. /\ new.conf = copy[Passer][e].conf /\ new.posted = copy[Passer][e].posted
          /\ new.organized = copy[Passer][e].organized
        BY <2>3 DEF Row
    <2>7. new # None
        BY <2>5, ConfirmAssumption
    <2> HIDE DEF new
    <2>8. TypeOK'
      <3>1. copy' \in [Session -> [Event -> Row \cup {None}]]
          BY <1>1, <2>2, <2>5 DEF IInv, TypeOK
      <3> QED
          BY <2>1, <3>1 DEF IInv, TypeOK
    <2>9. EvidenceBounded' /\ SeededIsAnnounced'
        BY <2>1 DEF IInv, EvidenceBounded, Evidence, SeededIsAnnounced, Announced
    <2>10. OneWriter'
        BY <1>1, <2>1, <2>2, <2>7 DEF IInv, TypeOK, OneWriter, Dirty
    <2>11. LoadedIsStored'
        BY <1>1, <2>1, <2>2, <2>6, <2>7 DEF IInv, TypeOK, LoadedIsStored
    <2>12. SeededAlone'
        BY <1>1, <2>1, <2>2, <2>6, <2>7 DEF IInv, TypeOK, SeededAlone, Reload
    <2>13. OrganizerIsRead'
        BY <1>1, <2>1, <2>2, <2>6 DEF IInv, TypeOK, OrganizerIsRead, Reload
    <2>14. CopiesAnnounced'
        BY <1>1, <2>1, <2>2, <2>6
           DEF IInv, TypeOK, CopiesAnnounced, Announced, Reload
    <2> QED
        BY <2>8, <2>9, <2>10, <2>11, <2>12, <2>13, <2>14 DEF IInv
  <1> QED
      BY <1>2, <1>3

\* A session that ends without a commit leaves nothing behind.
LEMMA RollbackIInv ==
    ASSUME IInv, NEW w \in Session, Rollback(w)
    PROVE  IInv'
  <1>1. /\ UNCHANGED <<row, reliability, edits, notified>>
        /\ loaded' = [loaded EXCEPT ![w] = NoEvents]
        /\ copy' = [copy EXCEPT ![w] = NoEvents]
        /\ trust' = [trust EXCEPT ![w] = None]
        /\ added' = [added EXCEPT ![w] = [e \in Event |-> 0]]
        /\ verdict' = [verdict EXCEPT ![w] = None]
      BY DEF Rollback, Drop
  <1>2. TypeOK'
    <2>1. /\ NoEvents \in [Event -> Row \cup {None}]
          /\ [e \in Event |-> 0] \in [Event -> 0 .. MaxEvidence]
        BY ConfirmAssumption DEF NoEvents
    <2> QED
        BY <1>1, <2>1 DEF IInv, TypeOK
  <1>3. EvidenceBounded'
      BY <1>1, ConfirmAssumption DEF IInv, TypeOK, EvidenceBounded, Evidence, Row
  <1>4. OneWriter' /\ LoadedIsStored' /\ SeededAlone'
      BY <1>1 DEF IInv, TypeOK, OneWriter, Dirty, LoadedIsStored, SeededAlone, NoEvents
  <1>5. OrganizerIsRead' /\ CopiesAnnounced' /\ SeededIsAnnounced'
      BY <1>1 DEF IInv, TypeOK, OrganizerIsRead, CopiesAnnounced, SeededIsAnnounced,
                  Announced, NoEvents
  <1> QED
      BY <1>2, <1>3, <1>4, <1>5 DEF IInv

\* A session rescores its copy of an event, or makes a new one that nobody else
\* knows, and adds one piece of evidence: what it has announced decides.
LEMMA ScoredCopyIInv ==
    ASSUME IInv, NEW w \in Session, NEW e \in Event, NEW new \in Row,
           copy' = [copy EXCEPT ![w] = [@ EXCEPT ![e] = new]],
           added' = [added EXCEPT ![w][e] = @ + 1],
           RowIsFree(w, e), Evidence(w, e) < MaxEvidence,
           verdict' \in [Session -> {None, "approved", "rejected"}],
           notified' \in [Event -> 0 .. MaxNotified],
           \A f \in Event : notified[f] > 0 => notified'[f] > 0,
           \/ /\ copy[w][e] # None
              /\ new.posted = copy[w][e].posted /\ new.organized = copy[w][e].organized
           \/ Unknown(e) /\ ~new.posted /\ ~new.organized,
           ~new.posted => (new.conf >= Threshold => notified'[e] > 0),
           UNCHANGED <<row, reliability, loaded, trust, edits>>
    PROVE  IInv'
  <1>1. new # None
      BY ConfirmAssumption
  <1>2. /\ copy' \in [Session -> [Event -> Row \cup {None}]]
        /\ copy'[w][e] = new
        /\ \A v \in Session, f \in Event :
              ~(v = w /\ f = e) => copy'[v][f] = copy[v][f]
      BY DEF IInv, TypeOK
  <1>3. added[w][e] + 1 \in 0 .. MaxEvidence
      BY ConfirmAssumption DEF IInv, TypeOK, Evidence, Row
  <1>4. /\ added' \in [Session -> [Event -> 0 .. MaxEvidence]]
        /\ added'[w][e] = added[w][e] + 1
        /\ \A v \in Session, f \in Event :
              ~(v = w /\ f = e) => added'[v][f] = added[v][f]
    <2>1. [added[w] EXCEPT ![e] = @ + 1] \in [Event -> 0 .. MaxEvidence]
        BY <1>3 DEF IInv, TypeOK
    <2>2. added' \in [Session -> [Event -> 0 .. MaxEvidence]]
        BY <2>1 DEF IInv, TypeOK
    <2>3. added'[w] = [added[w] EXCEPT ![e] = @ + 1]
        BY DEF IInv, TypeOK
    <2>4. added'[w][e] = added[w][e] + 1
        BY <2>3 DEF IInv, TypeOK
    <2>5. \A v \in Session, f \in Event :
              ~(v = w /\ f = e) => added'[v][f] = added[v][f]
        BY DEF IInv, TypeOK
    <2> QED
        BY <2>2, <2>4, <2>5
  <1>5. TypeOK'
      BY <1>2, <1>4 DEF IInv, TypeOK
  <1>6. EvidenceBounded'
      BY <1>4, ConfirmAssumption DEF IInv, TypeOK, EvidenceBounded, Evidence, Row
  <1>7. OneWriter'
      BY <1>1, <1>2, <1>4 DEF IInv, TypeOK, OneWriter, Dirty, RowIsFree
  <1>8. LoadedIsStored'
      BY <1>1, <1>2 DEF IInv, LoadedIsStored, Unknown
  <1>9. SeededAlone'
      BY <1>1, <1>2 DEF IInv, SeededAlone, Unknown
  <1>10. OrganizerIsRead'
      BY <1>1, <1>2 DEF IInv, OrganizerIsRead
  <1>11. CopiesAnnounced'
      BY <1>1, <1>2 DEF IInv, CopiesAnnounced, Announced
  <1>12. SeededIsAnnounced'
      BY DEF IInv, SeededIsAnnounced, Announced
  <1> QED
      BY <1>5, <1>6, <1>7, <1>8, <1>9, <1>10, <1>11, <1>12 DEF IInv

\* Whatever a session answers is an answer.
LEMMA AnsweredType ==
    ASSUME TypeOK, NEW w \in Session, NEW answer \in {"approved", "rejected"},
           Answered(w, answer)
    PROVE  verdict' \in [Session -> {None, "approved", "rejected"}]
  BY DEF TypeOK, Answered

\* What a link sets.
LEMMA SetScored ==
    ASSUME NEW event \in Row, NEW conf \in Score, NEW geo \in Percent, NEW time \in Percent
    PROVE  [event EXCEPT !.conf = conf, !.geo = geo, !.time = time] \in Row
  <1>1. [event EXCEPT !.conf = conf] \in Row
      BY SetColumn, Zenon
  <1>2. [[event EXCEPT !.conf = conf] EXCEPT !.geo = geo] \in Row
      BY <1>1, SetColumn, Zenon
  <1>3. [[[event EXCEPT !.conf = conf] EXCEPT !.geo = geo] EXCEPT !.time = time] \in Row
      BY <1>2, SetColumn, Zenon
  <1> QED
      BY <1>3

\* The source a link is scored with is no weaker than the score so far.
LEMMA BaseOfScore ==
    ASSUME NEW conf \in Score, NEW source \in Score
    PROVE  AtLeast(conf, source) \in Score /\ AtLeast(conf, source) >= conf
  <1>1. conf \in Int /\ source \in Int
      BY DEF Score
  <1> QED
      BY <1>1 DEF AtLeast

\* What a link makes of the copy.
LEMMA LinkEffect ==
    ASSUME NEW w, NEW e, NEW source, link_signal_to_event(w, e, source)
    PROVE  \E conf \in score_event(AtLeast(copy[w][e].conf, source), copy[w][e].count + 1,
                                   copy[w][e].geo, copy[w][e].time,
                                   IF copy[w][e].organized THEN trust[w] ELSE 0),
              geo \in {copy[w][e].geo} \cup (IF copy[w][e].geo \in {35, 50} THEN {70} ELSE {}),
              time \in {copy[w][e].time} \cup (IF copy[w][e].time = 20 THEN {60} ELSE {}) :
              /\ copy' = [copy EXCEPT ![w] = [@ EXCEPT ![e] =
                            [copy[w][e] EXCEPT !.conf = conf, !.geo = geo, !.time = time]]]
              /\ Notify(e, copy[w][e].conf, conf)
  BY Zenon DEF link_signal_to_event, LinkCounting

\* A link keeps its event announced: the copy was announced before, or the new
\* score crosses the threshold and is announced now.
LEMMA LinkIInv ==
    ASSUME IInv, NEW w \in Session, NEW e \in Event, NEW source \in Source,
           link_signal_to_event(w, e, source)
    PROVE  IInv'
  <1> DEFINE event == copy[w][e]
             organizer == IF event.organized THEN trust[w] ELSE 0
             base == AtLeast(event.conf, source)
             set(conf, geo, time) ==
                [event EXCEPT !.conf = conf, !.geo = geo, !.time = time]
  <1>1. /\ event # None /\ RowIsFree(w, e)
        /\ Evidence(w, e) < MaxEvidence /\ notified[e] < MaxNotified
        /\ added' = [added EXCEPT ![w][e] = @ + 1]
        /\ Answered(w, "approved")
        /\ UNCHANGED <<row, reliability, loaded, trust, edits>>
    <2>1. LinkCounting(w, e, source, event.count + 1)
        BY DEF link_signal_to_event
    <2> QED
        BY <2>1 DEF LinkCounting
  <1>2. event \in Row
      BY <1>1 DEF IInv, TypeOK
  <1>3. /\ event.conf \in Score /\ event.geo \in Percent /\ event.time \in Percent
        /\ event.count + 1 \in Nat
      BY <1>2, ConfirmAssumption DEF Row
  <1>4. organizer \in Percent
      BY <1>1, <1>2 DEF IInv, OrganizerIsRead, Row, Percent
  <1>5. base \in Score
    <2>1. source \in Score
        BY ConfirmAssumption
    <2> QED
        BY <1>3, <2>1, BaseOfScore
  <1>6. PICK conf \in score_event(base, event.count + 1, event.geo, event.time, organizer),
             geo \in {event.geo} \cup (IF event.geo \in {35, 50} THEN {70} ELSE {}),
             time \in {event.time} \cup (IF event.time = 20 THEN {60} ELSE {}) :
             /\ copy' = [copy EXCEPT ![w] = [@ EXCEPT ![e] = set(conf, geo, time)]]
             /\ Notify(e, event.conf, conf)
      BY LinkEffect, Zenon
  <1> HIDE DEF base, organizer
  <1>7. conf \in Score
      BY <1>3, <1>4, <1>5, <1>6, ScoreInRange
  <1>8. geo \in Percent /\ time \in Percent
      BY <1>3, <1>6 DEF Percent
  <1>9. set(conf, geo, time) \in Row
      BY <1>2, <1>7, <1>8, SetScored, Zenon
  <1>10. /\ set(conf, geo, time).conf = conf
         /\ set(conf, geo, time).posted = event.posted
         /\ set(conf, geo, time).organized = event.organized
      BY <1>2 DEF Row
  <1>11. /\ notified' \in [Event -> 0 .. MaxNotified]
         /\ \A f \in Event : notified[f] > 0 => notified'[f] > 0
         /\ Crosses(event.conf, conf) => notified'[e] > 0
      BY <1>1, <1>3, <1>6, <1>7, NotifyEffect DEF IInv
  <1>12. ASSUME ~event.posted, conf >= Threshold
         PROVE  notified'[e] > 0
    <2>1. CASE event.conf >= Threshold
        BY <1>1, <1>11, <1>12, <2>1 DEF IInv, CopiesAnnounced, Announced
    <2>2. CASE event.conf < Threshold
        BY <1>11, <1>12, <2>2 DEF Crosses
    <2>3. event.conf \in Int
      <3>1. Score \subseteq Int
          BY DEF Score
      <3> QED
          BY <1>3, <3>1
    <2>4. Threshold \in Int
        BY ConfirmAssumption
    <2> QED
        BY <2>1, <2>2, <2>3, <2>4
  <1>13. verdict' \in [Session -> {None, "approved", "rejected"}]
      BY <1>1, AnsweredType DEF IInv
  <1> HIDE DEF set
  <1> QED
      BY <1>1, <1>6, <1>9, <1>10, <1>11, <1>12, <1>13, ScoredCopyIInv

\* A seeded event crosses the threshold from nothing.
LEMMA SeedIInv ==
    ASSUME IInv, NEW w \in Session, NEW e \in Event, NEW source \in Source,
           NEW geo \in Percent, NEW time \in Percent,
           create_event_from_signal(w, e, source, geo, time)
    PROVE  IInv'
  <1> DEFINE new(conf) ==
                [conf |-> conf, geo |-> geo, time |-> time, count |-> 1,
                 organized |-> FALSE, posted |-> FALSE, edited |-> FALSE]
  <1>1. PICK conf \in score_event(source, 1, geo, time, 0) :
            SeedScored(w, e, conf, geo, time) /\ Notify(e, 0, conf)
      BY DEF create_event_from_signal
  <1>2. conf \in Score
    <2>1. source \in Score /\ 1 \in Nat /\ 0 \in Percent
        BY ConfirmAssumption DEF Percent
    <2>2. score_event(source, 1, geo, time, 0) \subseteq Score
        BY <2>1, ScoreInRange
    <2> QED
        BY <2>2, <1>1
  <1>3. /\ Unknown(e) /\ notified[e] < MaxNotified
        /\ copy' = [copy EXCEPT ![w] = [@ EXCEPT ![e] = new(conf)]]
        /\ added' = [added EXCEPT ![w][e] = 1]
        /\ Answered(w, "rejected")
        /\ UNCHANGED <<row, reliability, loaded, trust, edits>>
      BY <1>1 DEF create_event_from_signal, SeedScored
  <1>4. \A v \in Session : ~Dirty(v, e) /\ added[v][e] = 0
      BY <1>3, ConfirmAssumption DEF Unknown, IInv, TypeOK, OneWriter, Dirty
  <1>5. RowIsFree(w, e) /\ Evidence(w, e) < MaxEvidence
      BY <1>3, <1>4, ConfirmAssumption DEF RowIsFree, Evidence, Unknown
  <1>6. added' = [added EXCEPT ![w][e] = @ + 1]
    <2>1. added[w][e] + 1 = 1
        BY <1>4
    <2> QED
        BY <1>3, <2>1, Zenon
  <1>7. /\ new(conf) \in Row /\ new(conf).conf = conf
        /\ ~new(conf).posted /\ ~new(conf).organized
      BY <1>2, ConfirmAssumption DEF Row
  <1>8. /\ notified' \in [Event -> 0 .. MaxNotified]
        /\ \A f \in Event : notified[f] > 0 => notified'[f] > 0
        /\ Crosses(0, conf) => notified'[e] > 0
    <2>1. 0 \in Score
        BY DEF Score
    <2> QED
        BY <2>1, <1>1, <1>2, <1>3, NotifyEffect DEF IInv
  <1>9. conf >= Threshold => notified'[e] > 0
      BY <1>8, ConfirmAssumption DEF Crosses
  <1>10. verdict' \in [Session -> {None, "approved", "rejected"}]
      BY <1>3, AnsweredType DEF IInv
  <1> HIDE DEF new
  <1> QED
      BY <1>3, <1>5, <1>6, <1>7, <1>8, <1>9, <1>10, ScoredCopyIInv

\* What a commit writes of an event: a row, with all the evidence, made as it
\* was made, and announced if the pipeline made it and it is confirmed.
LEMMA FlushedRow ==
    ASSUME IInv, NEW w \in Session, NEW e \in Event, Dirty(w, e)
    PROVE  /\ Flushed(w, e) \in Row
           /\ Flushed(w, e).count = Evidence(w, e)
           /\ row[e] # None => Flushed(w, e).posted = row[e].posted
           /\ ~Flushed(w, e).posted => Announced(Flushed(w, e), e)
  <1> DEFINE mine == copy[w][e]
             was == loaded[w][e]
             now == row[e]
  <1>1. mine \in Row /\ mine # None
      BY DEF IInv, TypeOK, OneWriter
  <1>2. added[w][e] \in Nat /\ MaxEvidence \in Nat /\ Evidence(w, e) <= MaxEvidence
      BY ConfirmAssumption DEF IInv, TypeOK, EvidenceBounded
  <1>3. CASE was = None
    <2> DEFINE new == [mine EXCEPT !.count = added[w][e]]
    <2>1. Flushed(w, e) = new
        BY <1>3 DEF Flushed
    <2>2. now = None /\ ~mine.posted
        BY <1>1, <1>3 DEF IInv, SeededAlone
    <2>3. Evidence(w, e) = added[w][e] /\ added[w][e] \in 0 .. MaxEvidence
        BY <1>2, <2>2 DEF Evidence
    <2>4. /\ new \in Row /\ new.count = added[w][e]
          /\ new.conf = mine.conf /\ new.posted = mine.posted
      <3>1. new \in Row
          BY <1>1, <2>3, SetColumn
      <3> QED
          BY <1>1, <3>1 DEF Row
    <2>5. Announced(mine, e)
        BY <1>1, <2>2 DEF IInv, CopiesAnnounced
    <2> HIDE DEF new
    <2> QED
        BY <1>1, <2>1, <2>2, <2>3, <2>4, <2>5 DEF Announced
  <1>4. CASE was # None
    <2>1. /\ was \in Row /\ now \in Row /\ now # None
          /\ mine.posted = now.posted
        BY <1>1, <1>4 DEF IInv, TypeOK, LoadedIsStored
    <2> DEFINE conf == IF mine.conf # was.conf THEN mine.conf ELSE now.conf
               geo == IF mine.geo # was.geo THEN mine.geo ELSE now.geo
               time == IF mine.time # was.time THEN mine.time ELSE now.time
               count == now.count + added[w][e]
               new == [now EXCEPT !.conf = conf, !.geo = geo, !.time = time,
                                  !.count = count]
    <2>2. Flushed(w, e) = new
        BY <1>4 DEF Flushed
    <2>3. conf \in Score /\ geo \in Percent /\ time \in Percent
        BY <1>1, <2>1 DEF Row
    <2>4. now.count \in Nat
        BY <2>1, <1>2 DEF Row
    <2>5. count = Evidence(w, e)
        BY <2>1, <2>4, <1>2 DEF Evidence
    <2>6. count \in 0 .. MaxEvidence
        BY <2>4, <2>5, <1>2
    <2>7. conf = mine.conf \/ conf = now.conf
        OBVIOUS
    <2> HIDE DEF conf, geo, time, count
    <2>8. new \in Row
        BY <2>1, <2>3, <2>6, SetColumn, Zenon
    <2>9. new.conf = conf /\ new.count = count /\ new.posted = now.posted
        BY <2>1 DEF Row
    <2>10. ASSUME ~now.posted PROVE Announced(mine, e) /\ Announced(now, e)
        BY <1>1, <2>1, <2>10 DEF IInv, CopiesAnnounced, SeededIsAnnounced
    <2> HIDE DEF new
    <2>11. ASSUME ~new.posted PROVE Announced(new, e)
        BY <1>1, <2>1, <2>7, <2>9, <2>10, <2>11 DEF Announced
    <2> QED
        BY <2>2, <2>5, <2>8, <2>9, <2>11
  <1> QED
      BY <1>3, <1>4

\* However often reviews nudge it, an organizer's score stays in range.
LEMMA NudgedInRange ==
    ASSUME TypeOK, NEW w \in Session
    PROVE  Nudged(w) \in Percent
  <1>1. reliability \in Percent /\ trust[w] \in Percent \cup {None}
      BY DEF TypeOK
  <1>2. verdict[w] \in {None, "approved", "rejected"}
      BY DEF TypeOK
  <1>3. ASSUME NEW n \in Percent
        PROVE  AtMost(100, n + 3) \in Percent /\ AtLeast(0, n - 5) \in Percent
      BY DEF AtMost, AtLeast, Percent
  <1> QED
      BY <1>1, <1>2, <1>3 DEF Nudged

\* A commit writes rows that are announced, over no row another session has new.
LEMMA CommitIInv ==
    ASSUME IInv, NEW w \in Session, Commit(w)
    PROVE  IInv'
  <1>1. /\ row' = [e \in Event |-> IF Dirty(w, e) THEN Flushed(w, e) ELSE row[e]]
        /\ reliability' = Nudged(w)
        /\ UNCHANGED <<edits, notified>>
        /\ loaded' = [loaded EXCEPT ![w] = NoEvents]
        /\ copy' = [copy EXCEPT ![w] = NoEvents]
        /\ trust' = [trust EXCEPT ![w] = None]
        /\ added' = [added EXCEPT ![w] = [e \in Event |-> 0]]
        /\ verdict' = [verdict EXCEPT ![w] = None]
      BY DEF Commit, Drop
  <1>2. ASSUME NEW e \in Event, Dirty(w, e)
        PROVE  /\ row'[e] \in Row /\ row'[e] # None
               /\ row'[e].count = Evidence(w, e)
               /\ row[e] # None => row'[e].posted = row[e].posted
               /\ ~row'[e].posted => Announced(row'[e], e)
      BY <1>1, <1>2, FlushedRow, ConfirmAssumption
  <1>3. ASSUME NEW e \in Event, ~Dirty(w, e)
        PROVE  row'[e] = row[e]
      BY <1>1, <1>3
  <1>4. \A e \in Event : row[e] # None => row'[e] # None /\ row'[e].posted = row[e].posted
      BY <1>2, <1>3
  <1>5. /\ \A e \in Event : copy'[w][e] = None /\ loaded'[w][e] = None /\ added'[w][e] = 0
        /\ \A v \in Session \ {w} : /\ copy'[v] = copy[v] /\ loaded'[v] = loaded[v]
                                    /\ added'[v] = added[v] /\ trust'[v] = trust[v]
      BY <1>1 DEF IInv, TypeOK, NoEvents
  <1>6. TypeOK'
    <2>1. row' \in [Event -> Row \cup {None}]
      <3>1. \A e \in Event : row'[e] \in Row \cup {None}
          BY <1>2, <1>3 DEF IInv, TypeOK
      <3> QED
          BY <1>1, <3>1
    <2>2. reliability' \in Percent
        BY <1>1, NudgedInRange DEF IInv
    <2>3. /\ NoEvents \in [Event -> Row \cup {None}]
          /\ [e \in Event |-> 0] \in [Event -> 0 .. MaxEvidence]
        BY ConfirmAssumption DEF NoEvents
    <2> HIDE DEF NoEvents
    <2>4. /\ loaded' \in [Session -> [Event -> Row \cup {None}]]
          /\ copy' \in [Session -> [Event -> Row \cup {None}]]
          /\ trust' \in [Session -> Percent \cup {None}]
          /\ added' \in [Session -> [Event -> 0 .. MaxEvidence]]
          /\ verdict' \in [Session -> {None, "approved", "rejected"}]
        BY <1>1, <2>3 DEF IInv, TypeOK
    <2> QED
        BY <1>1, <2>1, <2>2, <2>4 DEF IInv, TypeOK
  <1>7. EvidenceBounded'
    <2> SUFFICES ASSUME NEW v \in Session, NEW e \in Event
                 PROVE  Evidence(v, e)' <= MaxEvidence
        BY DEF EvidenceBounded
    <2>1. CASE Dirty(w, e)
      <3>1. added'[v][e] = 0
        <4>1. CASE v = w
            BY <1>5, <4>1
        <4>2. CASE v # w
          <5>1. ~(added[v][e] > 0) /\ added[v][e] \in Nat
              BY <2>1, <4>2, ConfirmAssumption DEF IInv, TypeOK, OneWriter, Dirty
          <5>2. added[v][e] = 0
              BY <5>1
          <5> QED
              BY <1>5, <4>2, <5>2
        <4> QED
            BY <4>1, <4>2
      <3>2. Evidence(w, e) \in Int
          BY DEF IInv, TypeOK, Evidence, Row
      <3>3. Evidence(v, e)' = Evidence(w, e)
          BY <1>2, <2>1, <3>1, <3>2 DEF Evidence
      <3> QED
          BY <3>3 DEF IInv, EvidenceBounded
    <2>2. CASE ~Dirty(w, e)
      <3>1. Evidence(v, e)' = Evidence(v, e)
          BY <1>3, <1>5, <2>2 DEF IInv, TypeOK, Evidence, Dirty
      <3> QED
          BY <3>1 DEF IInv, EvidenceBounded
    <2> QED
        BY <2>1, <2>2
  <1>8. OneWriter'
      BY <1>5 DEF IInv, OneWriter, Dirty
  <1>9. LoadedIsStored'
      BY <1>4, <1>5 DEF IInv, LoadedIsStored
  <1>10. SeededAlone'
    <2> SUFFICES ASSUME NEW v \in Session \ {w}, NEW e \in Event,
                        copy[v][e] # None, loaded[v][e] = None
                 PROVE  /\ row'[e] = None /\ ~copy[v][e].posted
                        /\ \A u \in Session \ {v} : copy'[u][e] = None
        BY <1>5 DEF SeededAlone
    <2>1. /\ row[e] = None /\ ~copy[v][e].posted
          /\ \A u \in Session \ {v} : copy[u][e] = None
        BY DEF IInv, SeededAlone
    <2>2. ~Dirty(w, e)
        BY <2>1 DEF IInv, OneWriter
    <2> QED
        BY <1>3, <1>5, <2>1, <2>2
  <1>11. OrganizerIsRead'
      BY <1>5 DEF IInv, OrganizerIsRead
  <1>12. CopiesAnnounced'
      BY <1>1, <1>5 DEF IInv, CopiesAnnounced, Announced
  <1>13. SeededIsAnnounced'
      BY <1>1, <1>2, <1>3 DEF IInv, SeededIsAnnounced, Announced
  <1> QED
      BY <1>6, <1>7, <1>8, <1>9, <1>10, <1>11, <1>12, <1>13 DEF IInv

-----------------------------------------------------------------------------
\* Every step of the specification preserves the invariant.
LEMMA NextIInv == IInv /\ [Next]_vars => IInv'
  <1> SUFFICES ASSUME IInv, [Next]_vars PROVE IInv'
      OBVIOUS
  <1>1. ASSUME NEW e \in Event, Administer(e) PROVE IInv'
      BY <1>1, CreateEventIInv, UpdateEventIInv DEF Administer
  <1>2. ASSUME NEW e \in Event, Reload(e) PROVE IInv'
      BY <1>2, ReloadIInv
  <1>3. ASSUME NEW w \in Session, Commit(w) PROVE IInv'
      BY <1>3, CommitIInv
  <1>4. ASSUME NEW w \in Session, Rollback(w) PROVE IInv'
      BY <1>4, RollbackIInv
  <1>5. ASSUME NEW w \in Session, NEW e \in Event, Gather(w, e) PROVE IInv'
    <2>1. CASE Load(w, e)
        BY <2>1, LoadIInv
    <2>2. ASSUME NEW source \in Source, link_signal_to_event(w, e, source) PROVE IInv'
        BY <2>2, LinkIInv
    <2>3. ASSUME NEW source \in Source, NEW found \in Found,
                 create_event_from_signal(w, e, source, found[1], found[2])
          PROVE  IInv'
      <3>1. found[1] \in Percent /\ found[2] \in Percent
          BY ConfirmAssumption
      <3> QED
          BY <2>3, <3>1, SeedIInv
    <2> QED
        BY <1>5, <2>1, <2>2, <2>3 DEF Gather
  <1>6. CASE UNCHANGED vars
      BY <1>6 DEF vars, session, IInv, TypeOK, EvidenceBounded, Evidence, OneWriter,
                  Dirty, LoadedIsStored, SeededAlone, OrganizerIsRead,
                  CopiesAnnounced, SeededIsAnnounced, Announced
  <1> QED
      BY <1>1, <1>2, <1>3, <1>4, <1>5, <1>6 DEF Next

\* The invariant holds of every behaviour.
LEMMA SpecIInv == Spec => []IInv
  BY InitIInv, NextIInv, PTL DEF Spec

\* Scores and the organizer's reliability stay in range, and so does what
\* sessions hold, for every threshold, source, edit and number of sessions.
THEOREM ScoresInRange == Spec => []TypeOK
  <1>1. IInv => TypeOK
      BY DEF IInv
  <1> QED
      BY <1>1, SpecIInv, PTL

\* However stale the copies that passes and reviewers score and commit, no event
\* the pipeline has made is confirmed without a webhook.
THEOREM NoSilentConfirmation == Spec => []SeededIsAnnounced
  <1>1. IInv => SeededIsAnnounced
      BY DEF IInv
  <1> QED
      BY <1>1, SpecIInv, PTL
-----------------------------------------------------------------------------
(* Evidence does not take a confirmation back.  A score tells how much        *)
(* evidence it was made of at least: the rest of it must come from the        *)
(* precision of place and time, which every later score counts in full.       *)

\* The most that source and evidence can add to a score, in hundred-thousandths.
Ceiling(count) == IF count = 0 THEN 31000 ELSE 35000 + 10000 * AtMost(5, count)

\* The score of an event is within what that much evidence can make it.
Earned(event, count) == 100 * event.conf <= Ceiling(count) + 200 * event.geo + 200 * event.time + 50

\* Place and time of an event only become more precise, once.
Grown(before, after) ==
    /\ after.geo = before.geo \/ (before.geo \in {35, 50} /\ after.geo = 70)
    /\ after.time = before.time \/ (before.time = 20 /\ after.time = 60)

RowsEarned == \A e \in Event : row[e] # None /\ Pristine(row[e]) => Earned(row[e], row[e].count)

CopiesEarned ==
    \A w \in Session, e \in Event :
        copy[w][e] # None /\ Pristine(row[e]) =>
            /\ Pristine(copy[w][e]) /\ copy[w][e].count <= Evidence(w, e)
            /\ Earned(copy[w][e], Evidence(w, e))

ReadsGrow ==
    \A w \in Session, e \in Event :
        loaded[w][e] # None /\ Pristine(row[e]) =>
            Grown(loaded[w][e], row[e]) /\ Grown(loaded[w][e], copy[w][e])

EInv == RowsEarned /\ CopiesEarned /\ ReadsGrow

\* Dividing rounds down.
LEMMA RoundsDown ==
    ASSUME NEW m \in Nat
    PROVE  m \div 100 \in Int /\ 100 * (m \div 100) <= m /\ m <= 100 * (m \div 100) + 99
  OBVIOUS

\* What the columns of a row are.
LEMMA RowNumbers ==
    ASSUME NEW event \in Row
    PROVE  /\ event.conf \in Int /\ 0 <= event.conf /\ event.conf <= 1000
           /\ event.geo \in Int /\ 0 <= event.geo /\ event.geo <= 100
           /\ event.time \in Int /\ 0 <= event.time /\ event.time <= 100
           /\ event.count \in Nat
  <1>1. event.conf \in Score /\ event.geo \in Percent /\ event.time \in Percent
        /\ event.count \in 0 .. MaxEvidence
      BY DEF Row
  <1>2. event.conf \in Int /\ 0 <= event.conf /\ event.conf <= 1000
      BY <1>1 DEF Score
  <1>3. /\ event.geo \in Int /\ 0 <= event.geo /\ event.geo <= 100
        /\ event.time \in Int /\ 0 <= event.time /\ event.time <= 100
      BY <1>1 DEF Percent
  <1>4. MaxEvidence \in Nat
      BY ConfirmAssumption
  <1>5. event.count \in Nat
      BY <1>1, <1>4
  <1> QED
      BY <1>2, <1>3, <1>5

\* A score without an organizer is its points, rounded and capped.
LEMMA ScoreIsPoints ==
    ASSUME NEW source \in Score, NEW count \in Nat, NEW geo \in Percent, NEW time \in Percent,
           NEW conf \in score_event(source, count, geo, time, 0),
           NEW floor \in Score
    PROVE  LET points == 35 * source + 10000 * AtMost(5, count) + 200 * geo + 200 * time
           IN  /\ 100 * conf <= points + 50
               /\ 100 * floor <= points + 49 => conf >= floor
  <1> DEFINE points == 35 * source + 10000 * AtMost(5, count) + 200 * geo + 200 * time
             n == AtMost(100000, points)
  <1>1. points \in Nat /\ points = Points(source, count, geo, time, 0)
    <2>1. AtMost(5, count) \in Nat
        BY DEF AtMost
    <2> QED
        BY <2>1 DEF Points, Score, Percent
  <1>2. conf \in Rounded(n)
      BY <1>1 DEF score_event
  <1> HIDE DEF points
  <1>3. n \in Nat /\ n <= points /\ n <= 100000 /\ (n = points \/ n = 100000)
      BY <1>1 DEF AtMost
  <1> HIDE DEF n
  <1>4. PICK k \in {49, 50} : conf = (n + k) \div 100
      BY <1>2 DEF Rounded
  <1>5. conf \in Int /\ 100 * conf <= n + k /\ n + k <= 100 * conf + 99
      BY <1>3, <1>4, RoundsDown
  <1>6. floor \in Int /\ floor <= 1000
      BY DEF Score
  <1>7. 100 * conf <= points + 50
      BY <1>1, <1>3, <1>5
  <1>8. ASSUME 100 * floor <= points + 49 PROVE conf >= floor
    <2>1. 100 * floor <= n + 49
        BY <1>1, <1>3, <1>6, <1>8
    <2> QED
        BY <2>1, <1>3, <1>5, <1>6
  <1> QED
      BY <1>7, <1>8 DEF points

\* More evidence, more to earn.
LEMMA CeilingGrows ==
    ASSUME NEW m \in Nat, NEW n \in Nat, m <= n
    PROVE  Ceiling(m) \in Nat /\ Ceiling(n) \in Nat /\ Ceiling(m) <= Ceiling(n)
  BY DEF Ceiling, AtMost

LEMMA EarnedByMore ==
    ASSUME NEW event \in Row, NEW new \in Row, NEW m \in Nat, NEW n \in Nat, m <= n,
           Earned(event, m),
           new.conf = event.conf, new.geo >= event.geo, new.time >= event.time
    PROVE  Earned(new, n)
  <1>1. Ceiling(m) \in Nat /\ Ceiling(n) \in Nat /\ Ceiling(m) <= Ceiling(n)
      BY CeilingGrows
  <1> QED
      BY <1>1, RowNumbers DEF Earned

\* A score is earned by the evidence it counts, and by any that is as precise.
LEMMA ScoreIsEarned ==
    ASSUME NEW source \in Score, NEW count \in Nat, count >= 1,
           NEW geo \in Percent, NEW time \in Percent,
           NEW new \in Row, new.conf \in score_event(source, count, geo, time, 0),
           new.geo >= geo, new.time >= time, NEW n \in Nat, count <= n
    PROVE  Earned(new, n)
  <1>1. 0 \in Score
      BY DEF Score
  <1>2. 100 * new.conf <= 35 * source + 10000 * AtMost(5, count) + 200 * geo + 200 * time + 50
      BY <1>1, ScoreIsPoints
  <1>3. source \in Int /\ source <= 1000 /\ geo \in Int /\ time \in Int
      BY DEF Score, Percent
  <1>4. Ceiling(count) = 35000 + 10000 * AtMost(5, count) /\ AtMost(5, count) \in Nat
      BY DEF Ceiling, AtMost
  <1>5. Ceiling(count) \in Nat /\ Ceiling(n) \in Nat /\ Ceiling(count) <= Ceiling(n)
      BY CeilingGrows
  <1> QED
      BY <1>2, <1>3, <1>4, <1>5, RowNumbers DEF Earned

\* A link that counts one more piece of evidence than a confirmed score was
\* earned by gives a confirmed score again, however weak its source.
LEMMA ConfirmationStands ==
    ASSUME Threshold \in 715 .. 769,
           NEW event \in Row, event.conf >= Threshold, Earned(event, event.count),
           NEW source \in Score, source >= event.conf,
           NEW conf \in score_event(source, event.count + 1, event.geo, event.time, 0)
    PROVE  conf >= Threshold
  <1> DEFINE before == AtMost(5, event.count)
             counted == AtMost(5, event.count + 1)
             gained == 200 * event.geo + 200 * event.time
  <1>1. /\ event.conf \in Int /\ event.count \in Nat /\ gained \in Int /\ gained >= 0
        /\ Threshold \in Int /\ 715 <= Threshold /\ Threshold <= 769
        /\ source \in Int
      BY RowNumbers DEF Score
  <1>2. 100 * event.conf <= Ceiling(event.count) + gained + 50
      BY <1>1, RowNumbers, CeilingGrows DEF Earned
  <1>3. \/ event.count = 0 /\ counted = 1 /\ Ceiling(event.count) = 31000
        \/ /\ before \in 1 .. 4 /\ counted = before + 1
           /\ Ceiling(event.count) = 35000 + 10000 * before
        \/ counted = 5
      BY <1>1 DEF Ceiling, AtMost
  <1> HIDE DEF before, counted, gained
  <1>4. 100 * Threshold <= 35 * event.conf + 10000 * counted + gained + 49
    <2>1. CASE event.count = 0 /\ counted = 1 /\ Ceiling(event.count) = 31000
        BY <1>1, <1>2, <2>1
    <2>2. CASE /\ before \in 1 .. 4 /\ counted = before + 1
               /\ Ceiling(event.count) = 35000 + 10000 * before
        BY <1>1, <1>2, <2>2
    <2>3. CASE counted = 5
        BY <1>1, <2>3
    <2> QED
        BY <1>3, <2>1, <2>2, <2>3
  <1>5. counted \in Int
      BY <1>3 DEF before
  <1>6. 100 * Threshold <= 35 * source + 10000 * counted + gained + 49
      BY <1>1, <1>4, <1>5
  <1>7. /\ event.count + 1 \in Nat /\ event.geo \in Percent /\ event.time \in Percent
        /\ event.geo \in Int /\ event.time \in Int /\ Threshold \in Score
      BY <1>1, RowNumbers DEF Row, Score
  <1>8. 100 * Threshold <= 35 * source + 10000 * AtMost(5, event.count + 1)
                           + 200 * event.geo + 200 * event.time + 49
      BY <1>6, <1>1, <1>5, <1>7 DEF counted, gained
  <1> QED
      BY <1>7, <1>8, ScoreIsPoints

-----------------------------------------------------------------------------
(* Each action preserves it.                                                 *)

LEMMA InitEInv == Init => EInv
  BY DEF Init, NoEvents, EInv, RowsEarned, CopiesEarned, ReadsGrow

\* What nobody touches of an event stays earned.
Untouched(e) ==
    /\ row'[e] = row[e]
    /\ \A w \in Session : /\ loaded'[w][e] = loaded[w][e] /\ copy'[w][e] = copy[w][e]
                          /\ added'[w][e] = added[w][e]

\* The invariant, of one event.
EventEarned(e) ==
    /\ row[e] # None /\ Pristine(row[e]) => Earned(row[e], row[e].count)
    /\ \A w \in Session :
          /\ copy[w][e] # None /\ Pristine(row[e]) =>
                /\ Pristine(copy[w][e]) /\ copy[w][e].count <= Evidence(w, e)
                /\ Earned(copy[w][e], Evidence(w, e))
          /\ loaded[w][e] # None /\ Pristine(row[e]) =>
                Grown(loaded[w][e], row[e]) /\ Grown(loaded[w][e], copy[w][e])

LEMMA EInvByEvent == EInv <=> \A e \in Event : EventEarned(e)
  BY DEF EInv, RowsEarned, CopiesEarned, ReadsGrow, EventEarned

LEMMA UntouchedStaysEarned ==
    ASSUME NEW e \in Event, EventEarned(e), Untouched(e)
    PROVE  EventEarned(e)'
  BY DEF EventEarned, Untouched, Evidence, Earned, Pristine, Grown

\* The numbers behind the evidence of an event.
LEMMA EvidenceNumbers ==
    ASSUME TypeOK, NEW w \in Session, NEW e \in Event
    PROVE  /\ Evidence(w, e) \in Nat /\ added[w][e] \in Nat
           /\ row[e] = None => Evidence(w, e) = added[w][e]
           /\ row[e] # None => /\ row[e] \in Row /\ row[e].count \in Nat
                               /\ Evidence(w, e) = row[e].count + added[w][e]
  <1>1. added[w][e] \in Nat
      BY ConfirmAssumption DEF TypeOK
  <1>2. row[e] # None => row[e] \in Row /\ row[e].count \in Nat
      BY RowNumbers DEF TypeOK
  <1> QED
      BY <1>1, <1>2 DEF Evidence

\* Growing only adds precision, and happens once.
LEMMA GrownIsMore ==
    ASSUME NEW a \in Row, NEW b \in Row, Grown(a, b)
    PROVE  b.geo >= a.geo /\ b.time >= a.time
  BY RowNumbers DEF Grown

LEMMA CreateEventEInv ==
    ASSUME IInv, EInv, NEW e \in Event, NEW geo \in Venue, NEW time \in Start,
           NEW organized \in BOOLEAN, create_event(e, geo, time, organized)
    PROVE  EInv'
  <1> SUFFICES ASSUME NEW f \in Event PROVE EventEarned(f)'
      BY EInvByEvent DEF EInv, RowsEarned, CopiesEarned, ReadsGrow, EventEarned
  <1> DEFINE organizer == IF organized THEN reliability ELSE 0
             new(conf) == [conf |-> conf, geo |-> geo, time |-> time, count |-> 0,
                           organized |-> organized, posted |-> TRUE, edited |-> FALSE]
  <1>1. PICK conf \in score_event(600, 1, geo, time, organizer) :
            row' = [row EXCEPT ![e] = new(conf)]
      BY DEF create_event
  <1>2. /\ UNCHANGED <<loaded, copy, added>>
        /\ row[e] = None /\ \A w \in Session : copy[w][e] = None
      BY DEF create_event, Unknown, session
  <1>3. CASE f # e
      BY <1>1, <1>2, <1>3, UntouchedStaysEarned, EInvByEvent DEF Untouched, IInv, TypeOK
  <1>4. CASE f = e
    <2>1. row'[e] = new(conf)
        BY <1>1 DEF IInv, TypeOK
    <2>2. \A w \in Session : copy'[w][e] = None /\ loaded'[w][e] = None
        BY <1>2 DEF IInv, LoadedIsStored
    <2>3. ASSUME ~organized PROVE Earned(new(conf), 0)
      <3>1. conf \in score_event(600, 1, geo, time, 0)
          BY <1>1, <2>3
      <3>2. 600 \in Score /\ 0 \in Score /\ 1 \in Nat /\ geo \in Percent /\ time \in Percent
          BY ConfirmAssumption DEF Score
      <3>3. 100 * conf <= 35 * 600 + 10000 * AtMost(5, 1) + 200 * geo + 200 * time + 50
          BY <3>1, <3>2, ScoreIsPoints
      <3>4. AtMost(5, 1) = 1 /\ Ceiling(0) = 31000
          BY DEF AtMost, Ceiling
      <3>5. geo \in Int /\ time \in Int
          BY <3>2 DEF Percent
      <3> QED
          BY <3>3, <3>4, <3>5 DEF Earned
    <2>4. new(conf) # None /\ Pristine(new(conf)) => ~organized
        BY DEF Pristine
    <2>5. new(conf).count = 0
        OBVIOUS
    <2> HIDE DEF new
    <2> QED
        BY <1>4, <2>1, <2>2, <2>3, <2>4, <2>5 DEF EventEarned
  <1> QED
      BY <1>3, <1>4

\* Nothing is said of an event that was edited.
LEMMA UpdateEventEInv ==
    ASSUME IInv, EInv, NEW e \in Event, NEW geo \in {row[e].geo} \cup Venue,
           NEW time \in {row[e].time} \cup Start, NEW organized \in BOOLEAN,
           update_event(e, geo, time, organized)
    PROVE  EInv'
  <1> SUFFICES ASSUME NEW f \in Event PROVE EventEarned(f)'
      BY EInvByEvent DEF EInv, RowsEarned, CopiesEarned, ReadsGrow, EventEarned
  <1> DEFINE new == [row[e] EXCEPT !.geo = geo, !.time = time, !.organized = organized, !.edited = TRUE]
  <1>1. /\ row' = [row EXCEPT ![e] = new] /\ row[e] \in Row
        /\ UNCHANGED <<loaded, copy, added>>
      BY DEF update_event, session, IInv, TypeOK
  <1>2. CASE f # e
      BY <1>1, <1>2, UntouchedStaysEarned, EInvByEvent DEF Untouched, IInv, TypeOK
  <1>3. CASE f = e
    <2>1. geo \in Percent /\ time \in Percent
        BY <1>1, ConfirmAssumption DEF Row
    <2>2. new \in Row
        BY <1>1, <2>1, SetColumn, Zenon
    <2>3. new.edited
        BY <1>1 DEF Row
    <2> HIDE DEF new
    <2>4. row'[e] = new /\ new # None
        BY <1>1, <2>2, ConfirmAssumption DEF IInv, TypeOK
    <2>5. ~Pristine(row'[e]) /\ row'[e] # None
        BY <2>3, <2>4 DEF Pristine
    <2> QED
        BY <1>3, <2>5 DEF EventEarned
  <1> QED
      BY <1>2, <1>3

\* A session that reads an event takes it over as it is.
LEMMA CleanCopyEInv ==
    ASSUME IInv, EInv, NEW w \in Session, NEW e \in Event, row[e] # None, ~Dirty(w, e),
           loaded' = [loaded EXCEPT ![w][e] = row[e]],
           copy' = [copy EXCEPT ![w][e] = row[e]],
           UNCHANGED <<row, added>>
    PROVE  EInv'
  <1> SUFFICES ASSUME NEW f \in Event PROVE EventEarned(f)'
      BY EInvByEvent DEF EInv, RowsEarned, CopiesEarned, ReadsGrow, EventEarned
  <1>1. /\ loaded'[w][e] = row[e] /\ copy'[w][e] = row[e]
        /\ \A v \in Session, g \in Event :
              ~(v = w /\ g = e) => loaded'[v][g] = loaded[v][g] /\ copy'[v][g] = copy[v][g]
      BY DEF IInv, TypeOK
  <1>2. CASE f # e
      BY <1>1, <1>2, UntouchedStaysEarned, EInvByEvent DEF Untouched
  <1>3. CASE f = e
    <2>1. EventEarned(e)
        BY EInvByEvent
    <2>2. Evidence(w, e) = row[e].count /\ row[e].count \in Nat
        BY EvidenceNumbers, ConfirmAssumption DEF IInv, Dirty
    <2>3. \A v \in Session : Evidence(v, e)' = Evidence(v, e)
        BY DEF Evidence
    <2>4. Grown(row[e], row[e])
        BY DEF Grown
    <2>5. row'[e] = row[e] /\ row[e].count <= Evidence(w, e)
        BY <2>2
    <2> QED
        BY <1>1, <1>3, <2>1, <2>2, <2>3, <2>4, <2>5 DEF EventEarned, Earned, Pristine
  <1> QED
      BY <1>2, <1>3

LEMMA ReloadEInv ==
    ASSUME IInv, EInv, NEW e \in Event, Reload(e)
    PROVE  EInv'
  <1>1. Passer \in Session
      BY DEF Session
  <1>2. CASE ~Dirty(Passer, e)
      BY <1>1, <1>2, CleanCopyEInv DEF Reload
  <1>3. CASE Dirty(Passer, e)
    <2> SUFFICES ASSUME NEW f \in Event PROVE EventEarned(f)'
        BY EInvByEvent DEF EInv, RowsEarned, CopiesEarned, ReadsGrow, EventEarned
    <2> DEFINE old == copy[Passer][e]
               new == [old EXCEPT !.count = row[e].count + added[Passer][e]]
    <2>1. UNCHANGED <<row, loaded, added>> /\ row[e] # None /\ old # None
        BY <1>3 DEF Reload
    <2>2. copy' = [copy EXCEPT ![Passer] = [@ EXCEPT ![e] = new]]
        BY <1>3, Zenon DEF Reload
    <2>3. old \in Row
        BY <1>1, <2>1 DEF IInv, TypeOK
    <2>4. /\ new.conf = old.conf /\ new.geo = old.geo /\ new.time = old.time
          /\ new.edited = old.edited /\ new.organized = old.organized
          /\ new.count = row[e].count + added[Passer][e]
        BY <2>3 DEF Row
    <2> HIDE DEF new
    <2>5. /\ copy'[Passer][e] = new
          /\ \A v \in Session, g \in Event : ~(v = Passer /\ g = e) => copy'[v][g] = copy[v][g]
        BY <1>1, <2>2 DEF IInv, TypeOK
    <2>6. CASE f # e
        BY <2>1, <2>5, <2>6, UntouchedStaysEarned, EInvByEvent DEF Untouched
    <2>7. CASE f = e
      <3>1. EventEarned(e)
          BY EInvByEvent
      <3>2. \A v \in Session : Evidence(v, e)' = Evidence(v, e)
          BY <2>1 DEF Evidence
      <3>3. new.count = Evidence(Passer, e) /\ Evidence(Passer, e) \in Nat
          BY <1>1, <2>1, <2>4, EvidenceNumbers DEF IInv
      <3>4. Pristine(row[e]) => /\ Pristine(new) /\ Earned(new, Evidence(Passer, e))
                                /\ loaded[Passer][e] # None => Grown(loaded[Passer][e], new)
          BY <1>1, <2>1, <2>4, <3>1 DEF EventEarned, Pristine, Earned, Grown
      <3>5. new.count <= Evidence(Passer, e)
          BY <3>3
      <3>6. row'[e] = row[e] /\ \A v \in Session : loaded'[v][e] = loaded[v][e]
          BY <2>1
      <3> QED
          BY <1>1, <2>5, <2>7, <3>1, <3>2, <3>4, <3>5, <3>6 DEF EventEarned, Earned, Pristine, Grown
    <2> QED
        BY <2>6, <2>7
  <1> QED
      BY <1>2, <1>3

\* A session scores its copy of an event, or a new one, and adds one piece of
\* evidence: the score is earned by what there is then.
LEMMA ScoredCopyEInv ==
    ASSUME IInv, EInv, NEW w \in Session, NEW e \in Event, NEW new \in Row,
           copy' = [copy EXCEPT ![w] = [@ EXCEPT ![e] = new]],
           added' = [added EXCEPT ![w][e] = @ + 1],
           Pristine(row[e]) => /\ Pristine(new) /\ new.count <= Evidence(w, e) + 1
                               /\ Earned(new, Evidence(w, e) + 1)
                               /\ loaded[w][e] # None => Grown(loaded[w][e], new),
           UNCHANGED <<row, loaded>>
    PROVE  EInv'
  <1> SUFFICES ASSUME NEW f \in Event PROVE EventEarned(f)'
      BY EInvByEvent DEF EInv, RowsEarned, CopiesEarned, ReadsGrow, EventEarned
  <1>1. /\ copy'[w][e] = new
        /\ \A v \in Session, g \in Event : ~(v = w /\ g = e) => copy'[v][g] = copy[v][g]
      BY DEF IInv, TypeOK
  <1>2. /\ added'[w][e] = added[w][e] + 1
        /\ \A v \in Session, g \in Event : ~(v = w /\ g = e) => added'[v][g] = added[v][g]
    <2>1. \A v \in Session : added[v] \in [Event -> 0 .. MaxEvidence]
        BY DEF IInv, TypeOK
    <2>2. added'[w] = [added[w] EXCEPT ![e] = @ + 1] /\ \A v \in Session \ {w} : added'[v] = added[v]
        BY DEF IInv, TypeOK
    <2> QED
        BY <2>1, <2>2
  <1>3. CASE f # e
      BY <1>1, <1>2, <1>3, UntouchedStaysEarned, EInvByEvent DEF Untouched
  <1>4. CASE f = e
    <2>1. EventEarned(e)
        BY EInvByEvent
    <2>2. Evidence(w, e)' = Evidence(w, e) + 1
        BY <1>2, EvidenceNumbers DEF IInv, Evidence
    <2>3. \A v \in Session \ {w} : Evidence(v, e)' = Evidence(v, e)
        BY <1>2 DEF Evidence
    <2>4. row'[e] = row[e] /\ \A v \in Session : loaded'[v][e] = loaded[v][e]
        OBVIOUS
    <2>5. \A v \in Session \ {w} : copy'[v][e] = copy[v][e]
        BY <1>1
    <2> QED
        BY <1>1, <1>4, <2>1, <2>2, <2>3, <2>4, <2>5 DEF EventEarned, Earned, Pristine, Grown
  <1> QED
      BY <1>3, <1>4

LEMMA LinkEInv ==
    ASSUME IInv, EInv, NEW w \in Session, NEW e \in Event, NEW source \in Source,
           link_signal_to_event(w, e, source)
    PROVE  EInv'
  <1> DEFINE event == copy[w][e]
             organizer == IF event.organized THEN trust[w] ELSE 0
             base == AtLeast(event.conf, source)
             set(conf, geo, time) == [event EXCEPT !.conf = conf, !.geo = geo, !.time = time]
  <1>1. /\ event # None /\ UNCHANGED <<row, loaded>>
        /\ added' = [added EXCEPT ![w][e] = @ + 1]
      BY DEF link_signal_to_event, LinkCounting
  <1>2. event \in Row
      BY <1>1 DEF IInv, TypeOK
  <1>3. /\ event.conf \in Score /\ event.geo \in Percent /\ event.time \in Percent
        /\ event.geo \in Int /\ event.time \in Int
        /\ event.count \in Nat /\ event.count + 1 \in Nat /\ event.count + 1 >= 1
      BY <1>2, RowNumbers DEF Row
  <1>4. base \in Score
    <2>1. source \in Score
        BY ConfirmAssumption
    <2> QED
        BY <1>3, <2>1, BaseOfScore
  <1>5. organizer \in Percent
      BY <1>1, <1>2 DEF IInv, OrganizerIsRead, Row, Percent
  <1>6. PICK conf \in score_event(base, event.count + 1, event.geo, event.time, organizer),
             geo \in {event.geo} \cup (IF event.geo \in {35, 50} THEN {70} ELSE {}),
             time \in {event.time} \cup (IF event.time = 20 THEN {60} ELSE {}) :
             /\ copy' = [copy EXCEPT ![w] = [@ EXCEPT ![e] = set(conf, geo, time)]]
             /\ Notify(e, event.conf, conf)
      BY LinkEffect, Zenon
  <1> DEFINE new == set(conf, geo, time)
  <1> HIDE DEF base
  <1>7. conf \in Score
    <2> HIDE DEF organizer
    <2> QED
        BY <1>3, <1>4, <1>5, <1>6, ScoreInRange
  <1>8. geo \in Percent /\ time \in Percent /\ geo >= event.geo /\ time >= event.time
      BY <1>3, <1>6 DEF Percent
  <1>9. new \in Row
      BY <1>2, <1>7, <1>8, SetScored, Zenon
  <1>10. /\ new.conf = conf /\ new.geo = geo /\ new.time = time /\ new.count = event.count
         /\ new.edited = event.edited /\ new.organized = event.organized
      BY <1>2 DEF Row
  <1>11. copy' = [copy EXCEPT ![w] = [@ EXCEPT ![e] = new]]
      BY <1>6
  <1> HIDE DEF new
  <1>12. ASSUME Pristine(row[e])
         PROVE  /\ Pristine(new) /\ new.count <= Evidence(w, e) + 1
                /\ Earned(new, Evidence(w, e) + 1)
                /\ loaded[w][e] # None => Grown(loaded[w][e], new)
    <2>1. EventEarned(e)
        BY EInvByEvent
    <2>2. Pristine(event) /\ event.count <= Evidence(w, e) /\ Evidence(w, e) \in Nat
        BY <1>1, <1>12, <2>1, EvidenceNumbers DEF EventEarned, IInv
    <2>3. organizer = 0
        BY <1>1, <2>2 DEF Pristine
    <2>4. event.count + 1 <= Evidence(w, e) + 1 /\ Evidence(w, e) + 1 \in Nat
          /\ new.count <= Evidence(w, e) + 1
        BY <1>3, <1>10, <2>2
    <2>5. new.conf \in score_event(base, event.count + 1, event.geo, event.time, 0)
        BY <1>6, <1>10, <2>3
    <2>6. Earned(new, Evidence(w, e) + 1)
        BY <1>3, <1>4, <1>8, <1>9, <1>10, <2>4, <2>5, ScoreIsEarned
    <2>7. Pristine(new)
        BY <1>1, <1>10, <2>2 DEF Pristine
    <2>8. loaded[w][e] # None => Grown(loaded[w][e], new)
      <3>1. loaded[w][e] # None => Grown(loaded[w][e], event)
          BY <1>12, <2>1 DEF EventEarned
      <3> QED
          BY <3>1, <1>6, <1>10 DEF Grown
    <2> QED
        BY <2>4, <2>6, <2>7, <2>8
  <1> HIDE DEF event
  <1> QED
      BY <1>1, <1>9, <1>11, <1>12, ScoredCopyEInv

LEMMA SeedEInv ==
    ASSUME IInv, EInv, NEW w \in Session, NEW e \in Event, NEW source \in Source,
           NEW geo \in Percent, NEW time \in Percent,
           create_event_from_signal(w, e, source, geo, time)
    PROVE  EInv'
  <1> DEFINE new(conf) ==
                [conf |-> conf, geo |-> geo, time |-> time, count |-> 1,
                 organized |-> FALSE, posted |-> FALSE, edited |-> FALSE]
  <1>1. PICK conf \in score_event(source, 1, geo, time, 0) : SeedScored(w, e, conf, geo, time)
      BY DEF create_event_from_signal
  <1>2. source \in Score /\ 1 \in Nat /\ 0 \in Percent /\ geo \in Int /\ time \in Int
      BY ConfirmAssumption DEF Percent
  <1>3. conf \in Score
      BY <1>1, <1>2, ScoreInRange
  <1>4. /\ Unknown(e) /\ UNCHANGED <<row, loaded>>
        /\ copy' = [copy EXCEPT ![w] = [@ EXCEPT ![e] = new(conf)]]
        /\ added' = [added EXCEPT ![w][e] = 1]
      BY <1>1 DEF SeedScored
  <1>5. added[w][e] = 0 /\ loaded[w][e] = None
      BY <1>4, ConfirmAssumption DEF Unknown, IInv, TypeOK, OneWriter, Dirty, LoadedIsStored
  <1>6. added' = [added EXCEPT ![w][e] = @ + 1] /\ Evidence(w, e) + 1 = 1
    <2>1. added[w][e] + 1 = 1
        BY <1>5
    <2>2. added' = [added EXCEPT ![w][e] = @ + 1]
        BY <1>4, <2>1, Zenon
    <2>3. Evidence(w, e) = 0
        BY <1>4, <1>5 DEF Unknown, Evidence
    <2> QED
        BY <2>2, <2>3
  <1>7. new(conf) \in Row /\ Pristine(new(conf)) /\ new(conf).count = 1
        /\ new(conf).conf = conf /\ new(conf).geo = geo /\ new(conf).time = time
      BY <1>3, ConfirmAssumption DEF Row, Pristine
  <1> HIDE DEF new
  <1>8. Earned(new(conf), 1)
      BY <1>1, <1>2, <1>7, ScoreIsEarned
  <1>9. /\ Pristine(new(conf)) /\ new(conf).count <= Evidence(w, e) + 1
        /\ Earned(new(conf), Evidence(w, e) + 1)
        /\ loaded[w][e] # None => Grown(loaded[w][e], new(conf))
      BY <1>5, <1>6, <1>7, <1>8
  <1> QED
      BY <1>4, <1>6, <1>7, <1>9, ScoredCopyEInv, Zenon

\* What a commit writes over a row is earned by all the evidence, and has grown
\* from whatever anybody has read.
LEMMA FlushedIsEarned ==
    ASSUME IInv, NEW w \in Session, NEW e \in Event, Dirty(w, e), EventEarned(e),
           Pristine(Flushed(w, e))
    PROVE  /\ Pristine(row[e])
           /\ Earned(Flushed(w, e), Evidence(w, e))
           /\ \A before \in Row : row[e] # None /\ Grown(before, row[e]) => Grown(before, Flushed(w, e))
  <1> DEFINE mine == copy[w][e]
             was == loaded[w][e]
             now == row[e]
  <1>1. mine \in Row /\ mine # None /\ Flushed(w, e) \in Row /\ Flushed(w, e) # None
      BY FlushedRow, ConfirmAssumption DEF IInv, TypeOK, OneWriter
  <1>2. Evidence(w, e) \in Nat
      BY EvidenceNumbers DEF IInv
  <1>3. CASE was = None
    <2> DEFINE new == [mine EXCEPT !.count = added[w][e]]
    <2>1. Flushed(w, e) = new /\ now = None
        BY <1>1, <1>3 DEF Flushed, IInv, SeededAlone
    <2>2. new.conf = mine.conf /\ new.geo = mine.geo /\ new.time = mine.time
        BY <1>1 DEF Row
    <2>3. Pristine(row[e])
        BY <2>1 DEF Pristine
    <2>4. Earned(mine, Evidence(w, e))
        BY <1>1, <2>3 DEF EventEarned
    <2> HIDE DEF new
    <2> QED
        BY <2>1, <2>2, <2>3, <2>4 DEF Earned
  <1>4. CASE was # None
    <2> DEFINE conf == IF mine.conf # was.conf THEN mine.conf ELSE now.conf
               geo == IF mine.geo # was.geo THEN mine.geo ELSE now.geo
               time == IF mine.time # was.time THEN mine.time ELSE now.time
               new == [now EXCEPT !.conf = conf, !.geo = geo, !.time = time,
                                  !.count = now.count + added[w][e]]
    <2>1. Flushed(w, e) = new
        BY <1>4 DEF Flushed
    <2>2. was \in Row /\ now \in Row /\ now # None
        BY <1>1, <1>4 DEF IInv, TypeOK, LoadedIsStored
    <2>3. /\ new.conf = conf /\ new.geo = geo /\ new.time = time
          /\ new.edited = now.edited /\ new.organized = now.organized
        BY <2>2 DEF Row
    <2>4. Pristine(row[e])
        BY <1>1, <2>1, <2>2, <2>3 DEF Pristine
    <2>5. /\ Earned(mine, Evidence(w, e)) /\ Earned(now, now.count)
          /\ Grown(was, now) /\ Grown(was, mine)
        BY <1>1, <1>4, <2>2, <2>4 DEF EventEarned
    <2>6. now.count \in Nat /\ now.count <= Evidence(w, e)
        BY <2>2, EvidenceNumbers DEF IInv
    <2> HIDE DEF new
    <2>7. /\ new.geo = mine.geo \/ (new.geo = now.geo /\ mine.geo = was.geo)
          /\ new.time = mine.time \/ (new.time = now.time /\ mine.time = was.time)
          /\ new.conf = mine.conf \/ new.conf = now.conf
        BY <2>3
    <2>8. Grown(now, new) /\ Grown(mine, new)
        BY <2>3, <2>5 DEF Grown
    <2>9. new \in Row
        BY <1>1, <2>1
    <2>10. /\ new.geo >= now.geo /\ new.time >= now.time
           /\ new.geo >= mine.geo /\ new.time >= mine.time
        BY <1>1, <2>2, <2>8, <2>9, GrownIsMore
    <2>11. Earned(new, Evidence(w, e))
      <3>1. CASE new.conf = mine.conf
          BY <1>1, <1>2, <2>5, <2>9, <2>10, <3>1, EarnedByMore
      <3>2. CASE new.conf = now.conf
          BY <1>2, <2>2, <2>5, <2>6, <2>9, <2>10, <3>2, EarnedByMore
      <3> QED
          BY <2>7, <3>1, <3>2
    <2>12. \A before \in Row : Grown(before, now) => Grown(before, new)
        BY <2>8 DEF Grown
    <2> QED
        BY <2>1, <2>4, <2>11, <2>12
  <1> QED
      BY <1>3, <1>4

LEMMA CommitEInv ==
    ASSUME IInv, EInv, NEW w \in Session, Commit(w)
    PROVE  EInv'
  <1> SUFFICES ASSUME NEW e \in Event PROVE EventEarned(e)'
      BY EInvByEvent DEF EInv, RowsEarned, CopiesEarned, ReadsGrow, EventEarned
  <1>1. /\ row' = [f \in Event |-> IF Dirty(w, f) THEN Flushed(w, f) ELSE row[f]]
        /\ loaded' = [loaded EXCEPT ![w] = NoEvents]
        /\ copy' = [copy EXCEPT ![w] = NoEvents]
        /\ added' = [added EXCEPT ![w] = [f \in Event |-> 0]]
      BY DEF Commit, Drop
  <1>2. /\ copy'[w][e] = None /\ loaded'[w][e] = None
        /\ \A v \in Session \ {w} : /\ copy'[v][e] = copy[v][e] /\ loaded'[v][e] = loaded[v][e]
                                    /\ added'[v][e] = added[v][e]
      BY <1>1 DEF IInv, TypeOK, NoEvents
  <1>3. EventEarned(e)
      BY EInvByEvent
  <1>4. CASE ~Dirty(w, e)
    <2>1. row'[e] = row[e]
        BY <1>1, <1>4
    <2>2. \A v \in Session \ {w} : Evidence(v, e)' = Evidence(v, e)
        BY <1>2, <2>1 DEF Evidence
    <2> QED
        BY <1>2, <1>3, <2>1, <2>2 DEF EventEarned, Earned, Pristine, Grown
  <1>5. CASE Dirty(w, e)
    <2> DEFINE new == Flushed(w, e)
    <2>1. row'[e] = new
        BY <1>1, <1>5
    <2>2. new \in Row /\ new # None /\ new.count = Evidence(w, e)
        BY <1>5, FlushedRow, ConfirmAssumption
    <2>3. Pristine(new) => /\ Pristine(row[e]) /\ Earned(new, Evidence(w, e))
                           /\ \A before \in Row : row[e] # None /\ Grown(before, row[e]) => Grown(before, new)
        BY <1>3, <1>5, FlushedIsEarned
    <2> HIDE DEF new
    <2>4. ASSUME Pristine(new), NEW v \in Session \ {w}, copy[v][e] # None
          PROVE  /\ Pristine(copy[v][e]) /\ copy[v][e].count <= Evidence(v, e)'
                 /\ Earned(copy[v][e], Evidence(v, e)')
                 /\ loaded[v][e] # None => Grown(loaded[v][e], new) /\ Grown(loaded[v][e], copy[v][e])
      <3>1. copy[v][e] \in Row
          BY <2>4 DEF IInv, TypeOK
      <3>2. row[e] # None
        <4>1. copy[w][e] # None
            BY <1>5 DEF IInv, OneWriter
        <4>2. loaded[w][e] # None
            BY <2>4, <4>1 DEF IInv, SeededAlone
        <4> QED
            BY <4>2 DEF IInv, LoadedIsStored
      <3>3. added[v][e] = 0
        <4>1. ~Dirty(v, e)
            BY <1>5 DEF IInv, OneWriter
        <4> QED
            BY <4>1, EvidenceNumbers DEF IInv, Dirty
      <3>4. /\ Pristine(copy[v][e]) /\ copy[v][e].count <= Evidence(v, e)
            /\ Earned(copy[v][e], Evidence(v, e))
            /\ loaded[v][e] # None => Grown(loaded[v][e], row[e]) /\ Grown(loaded[v][e], copy[v][e])
          BY <1>3, <2>3, <2>4 DEF EventEarned
      <3>5. /\ Evidence(v, e) \in Nat /\ Evidence(w, e) \in Nat
            /\ Evidence(v, e) <= Evidence(w, e)
          BY <3>2, <3>3, EvidenceNumbers DEF IInv
      <3>6. Evidence(v, e)' = Evidence(w, e)
          BY <1>2, <2>1, <2>2, <3>3, <3>5 DEF Evidence
      <3>7. copy[v][e].count <= Evidence(w, e)
          BY <3>1, <3>4, <3>5, RowNumbers
      <3>8. Earned(copy[v][e], Evidence(w, e))
        <4>1. copy[v][e].geo >= copy[v][e].geo /\ copy[v][e].time >= copy[v][e].time
            BY <3>1, RowNumbers
        <4> QED
            BY <3>1, <3>4, <3>5, <4>1, EarnedByMore
      <3>9. loaded[v][e] # None => Grown(loaded[v][e], new)
        <4>1. loaded[v][e] # None => loaded[v][e] \in Row
            BY DEF IInv, TypeOK
        <4> QED
            BY <2>3, <2>4, <3>2, <3>4, <4>1
      <3> QED
          BY <3>4, <3>6, <3>7, <3>8, <3>9
    <2>5. Pristine(row'[e]) <=> Pristine(new)
        BY <2>1
    <2>6. \A v \in Session : loaded'[v][e] # None => v # w /\ copy[v][e] # None
        BY <1>2 DEF IInv, LoadedIsStored
    <2>7. Pristine(row'[e]) => Earned(row'[e], row'[e].count)
        BY <2>1, <2>2, <2>3, <2>5
    <2>8. ASSUME NEW v \in Session, copy'[v][e] # None, Pristine(row'[e])
          PROVE  /\ Pristine(copy'[v][e]) /\ copy'[v][e].count <= Evidence(v, e)'
                 /\ Earned(copy'[v][e], Evidence(v, e)')
        BY <1>2, <2>4, <2>5, <2>8
    <2>9. ASSUME NEW v \in Session, loaded'[v][e] # None, Pristine(row'[e])
          PROVE  Grown(loaded'[v][e], row'[e]) /\ Grown(loaded'[v][e], copy'[v][e])
        BY <1>2, <2>1, <2>4, <2>5, <2>6, <2>9
    <2> QED
        BY <2>7, <2>8, <2>9 DEF EventEarned, Earned, Pristine, Grown
  <1> QED
      BY <1>4, <1>5

LEMMA RollbackEInv ==
    ASSUME IInv, EInv, NEW w \in Session, Rollback(w)
    PROVE  EInv'
  <1> SUFFICES ASSUME NEW e \in Event PROVE EventEarned(e)'
      BY EInvByEvent DEF EInv, RowsEarned, CopiesEarned, ReadsGrow, EventEarned
  <1>1. /\ row' = row /\ copy'[w][e] = None /\ loaded'[w][e] = None
        /\ \A v \in Session \ {w} : /\ copy'[v][e] = copy[v][e] /\ loaded'[v][e] = loaded[v][e]
                                    /\ added'[v][e] = added[v][e]
      BY DEF Rollback, Drop, IInv, TypeOK, NoEvents
  <1>2. \A v \in Session \ {w} : Evidence(v, e)' = Evidence(v, e)
      BY <1>1 DEF Evidence
  <1>3. EventEarned(e)
      BY EInvByEvent
  <1> QED
      BY <1>1, <1>2, <1>3 DEF EventEarned, Earned, Pristine, Grown

LEMMA NextEInv == IInv /\ EInv /\ [Next]_vars => EInv'
  <1> SUFFICES ASSUME IInv, EInv, [Next]_vars PROVE EInv'
      OBVIOUS
  <1>1. ASSUME NEW e \in Event, Administer(e) PROVE EInv'
      BY <1>1, CreateEventEInv, UpdateEventEInv DEF Administer
  <1>2. ASSUME NEW e \in Event, Reload(e) PROVE EInv'
      BY <1>2, ReloadEInv
  <1>3. ASSUME NEW w \in Session, Commit(w) PROVE EInv'
      BY <1>3, CommitEInv
  <1>4. ASSUME NEW w \in Session, Rollback(w) PROVE EInv'
      BY <1>4, RollbackEInv
  <1>5. ASSUME NEW w \in Session, NEW e \in Event, Gather(w, e) PROVE EInv'
    <2>1. CASE Load(w, e)
      <3>1. ~Dirty(w, e)
          BY <2>1 DEF Load, IInv, OneWriter
      <3> QED
          BY <2>1, <3>1, CleanCopyEInv DEF Load
    <2>2. ASSUME NEW source \in Source, link_signal_to_event(w, e, source) PROVE EInv'
        BY <2>2, LinkEInv
    <2>3. ASSUME NEW source \in Source, NEW found \in Found,
                 create_event_from_signal(w, e, source, found[1], found[2])
          PROVE  EInv'
      <3>1. found[1] \in Percent /\ found[2] \in Percent
          BY ConfirmAssumption
      <3> QED
          BY <2>3, <3>1, SeedEInv
    <2> QED
        BY <1>5, <2>1, <2>2, <2>3 DEF Gather
  <1>6. CASE UNCHANGED vars
    <2>1. \A e \in Event : Untouched(e)
        BY <1>6 DEF vars, session, Untouched
    <2>2. \A e \in Event : EventEarned(e)'
        BY <2>1, UntouchedStaysEarned, EInvByEvent
    <2> QED
        BY <2>2 DEF EInv, RowsEarned, CopiesEarned, ReadsGrow, EventEarned
  <1> QED
      BY <1>1, <1>2, <1>3, <1>4, <1>5, <1>6 DEF Next

-----------------------------------------------------------------------------
\* A step that adds evidence to an event a session has a copy of is a link.
LEMMA AddedByLink ==
    ASSUME IInv, [Next]_vars, NEW w \in Session, NEW e \in Event,
           copy[w][e] # None, added'[w][e] > added[w][e]
    PROVE  \E source \in Source : link_signal_to_event(w, e, source)
  <1>1. added[w][e] \in Int /\ \A v \in Session : added[v] \in [Event -> 0 .. MaxEvidence]
      BY EvidenceNumbers DEF IInv, TypeOK
  <1>2. ~UNCHANGED added
      BY <1>1
  <1>3. ASSUME NEW f \in Event, Administer(f) \/ Reload(f) PROVE FALSE
    <2>1. Administer(f) => UNCHANGED added
      <3>1. ASSUME NEW organized \in BOOLEAN, NEW geo, NEW time,
                   create_event(f, geo, time, organized) \/ update_event(f, geo, time, organized)
            PROVE  UNCHANGED added
          BY <3>1 DEF create_event, update_event, session
      <3> QED
          BY <3>1, Zenon DEF Administer
    <2>2. Reload(f) => UNCHANGED added
        BY DEF Reload
    <2> QED
        BY <1>2, <1>3, <2>1, <2>2
  <1>4. ASSUME NEW v \in Session, Commit(v) \/ Rollback(v) PROVE FALSE
    <2>1. added' = [added EXCEPT ![v] = [f \in Event |-> 0]]
        BY <1>4 DEF Commit, Rollback, Drop
    <2>2. added'[w][e] = added[w][e] \/ added'[w][e] = 0
        BY <2>1 DEF IInv, TypeOK
    <2>3. added[w][e] >= 0
        BY EvidenceNumbers DEF IInv
    <2> QED
        BY <1>1, <2>2, <2>3
  <1>5. ASSUME NEW v \in Session, NEW f \in Event, Gather(v, f)
        PROVE  \E source \in Source : link_signal_to_event(w, e, source)
    <2>1. CASE Load(v, f)
        BY <1>2, <2>1 DEF Load
    <2>2. ASSUME NEW source \in Source, link_signal_to_event(v, f, source) PROVE v = w /\ f = e
      <3>1. added' = [added EXCEPT ![v][f] = @ + 1]
          BY <2>2 DEF link_signal_to_event, LinkCounting
      <3>2. ~(v = w /\ f = e) => added'[w][e] = added[w][e]
          BY <3>1, <1>1 DEF IInv, TypeOK
      <3> QED
          BY <1>1, <3>2
    <2>3. ASSUME NEW source \in Source, NEW found \in Found,
                 create_event_from_signal(v, f, source, found[1], found[2])
          PROVE  FALSE
      <3>1. Unknown(f) /\ added' = [added EXCEPT ![v][f] = 1]
          BY <2>3 DEF create_event_from_signal, SeedScored
      <3>2. f # e
          BY <3>1 DEF Unknown
      <3>3. added'[w][e] = added[w][e]
          BY <3>1, <3>2, <1>1 DEF IInv, TypeOK
      <3> QED
          BY <1>1, <3>3
    <2> QED
        BY <1>5, <2>1, <2>2, <2>3 DEF Gather
  <1> QED
      BY <1>2, <1>3, <1>4, <1>5 DEF Next, vars, session

\* What a session sees of an event it is current with is earned by what it counts.
LEMMA CurrentIsEarned ==
    ASSUME IInv, EInv, NEW w \in Session, NEW e \in Event, Current(w, e), Pristine(row[e])
    PROVE  Earned(copy[w][e], copy[w][e].count)
  <1>1. EventEarned(e) /\ copy[w][e] # None
      BY EInvByEvent DEF Current
  <1>2. CASE Dirty(w, e)
      BY <1>1, <1>2 DEF Current, EventEarned
  <1>3. CASE ~Dirty(w, e)
      BY <1>1, <1>3 DEF Current, EventEarned
  <1> QED
      BY <1>2, <1>3

\* One step: the evidence was added by a link, which keeps the score up.
LEMMA StepKeepsConfirmation ==
    ASSUME Threshold \in 715 .. 769, IInv, EInv, [Next]_vars,
           NEW w \in Session, NEW e \in Event,
           Current(w, e), copy[w][e].conf >= Threshold,
           Pristine(copy[w][e]), Pristine(row[e]), added'[w][e] > added[w][e]
    PROVE  copy'[w][e].conf >= Threshold
  <1> DEFINE event == copy[w][e]
             set(conf, geo, time) == [event EXCEPT !.conf = conf, !.geo = geo, !.time = time]
  <1>1. event # None /\ event \in Row /\ ~event.organized /\ Earned(event, event.count)
      BY CurrentIsEarned DEF Current, IInv, TypeOK, Pristine
  <1>2. PICK source \in Source : link_signal_to_event(w, e, source)
      BY <1>1, AddedByLink
  <1> DEFINE base == AtLeast(event.conf, source)
             organizer == IF event.organized THEN trust[w] ELSE 0
  <1>3. PICK conf \in score_event(base, event.count + 1, event.geo, event.time, organizer),
             geo \in {event.geo} \cup (IF event.geo \in {35, 50} THEN {70} ELSE {}),
             time \in {event.time} \cup (IF event.time = 20 THEN {60} ELSE {}) :
             /\ copy' = [copy EXCEPT ![w] = [@ EXCEPT ![e] = set(conf, geo, time)]]
             /\ Notify(e, event.conf, conf)
      BY <1>2, LinkEffect, Zenon
  <1>4. organizer = 0
      BY <1>1
  <1> DEFINE new == set(conf, geo, time)
  <1>5. new.conf = conf
      BY <1>1 DEF Row
  <1>6. copy' = [copy EXCEPT ![w] = [@ EXCEPT ![e] = new]]
      BY <1>3
  <1> HIDE DEF new
  <1>7. copy'[w][e].conf = conf
      BY <1>5, <1>6 DEF IInv, TypeOK
  <1>8. base \in Score /\ base >= event.conf
    <2>1. event.conf \in Score
        BY <1>1 DEF Row
    <2>2. source \in Score
        BY ConfirmAssumption
    <2> QED
        BY <2>1, <2>2, BaseOfScore
  <1> HIDE DEF base, organizer
  <1>9. conf >= Threshold
      BY <1>1, <1>3, <1>4, <1>8, ConfirmationStands
  <1> QED
      BY <1>7, <1>9

\* Evidence never takes the confirmation of an unedited event back, for every
\* source, precision and number of sessions, while the threshold is around its
\* default of 750 (scoring.py:11-22, event_service.py:347-357).
THEOREM ConfirmationsStand ==
    ASSUME Threshold \in 715 .. 769
    PROVE  Spec => EvidenceKeepsConfirmation
  <1> DEFINE Keeps ==
        \A w \in Session, e \in Event :
            /\ Current(w, e) /\ copy[w][e].conf >= Threshold
            /\ Pristine(copy[w][e]) /\ Pristine(row[e])
            /\ added'[w][e] > added[w][e]
            => copy'[w][e].conf >= Threshold
  <1>1. IInv /\ EInv /\ [Next]_vars => [Keeps]_vars
      BY StepKeepsConfirmation
  <1>2. Spec => []EInv
      BY InitEInv, NextEInv, SpecIInv, PTL DEF Spec
  <1> QED
      BY <1>1, <1>2, SpecIInv, PTL DEF Spec, EvidenceKeepsConfirmation
=============================================================================
