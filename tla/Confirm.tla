------------------------------ MODULE Confirm -------------------------------
(***************************************************************************)
(* Confidence of events and the "confirmed" webhook.                       *)
(*                                                                         *)
(* An event is rescored when a signal joins it: by a cluster pass, many    *)
(* links in one transaction, or by a reviewer, one link per transaction.   *)
(* The webhook goes out in the middle of the transaction, when the score   *)
(* crosses the threshold in the session's copy of the event, and cannot be *)
(* taken back.                                                             *)
(*                                                                         *)
(* A session keeps its copy of an event until it commits.  The copy counts *)
(* the evidence that was there when it was loaded, not the rows the        *)
(* session has added since (autoflush is off and evidence rows are added   *)
(* by event id).  Events a pass has seeded stay referenced and are never   *)
(* loaded again; the copies of others may be dropped by the garbage        *)
(* collector between two signals and read anew.                            *)
(*                                                                         *)
(* Which signal joins which event is left to Pipeline.tla: here any signal *)
(* may join any event.  Scores are in thousandths, precisions and          *)
(* reliability in hundredths.                                              *)
(***************************************************************************)
EXTENDS Integers, FiniteSets

CONSTANTS
    Event,        \* ids of events
    Passer,       \* the session of the cluster pass (passes do not overlap)
    Reviewer,     \* the sessions of review requests
    None,
    Threshold,    \* settings.confirmed_confidence_threshold
    Source,       \* source_confidence of signals
    Found,        \* pairs of geo and time precision of a seeded event
    Venue, Start, \* geo and time precision POST and PATCH set
    MaxEdits,     \* bound: PATCH requests
    MaxEvidence,  \* bound: evidence of one event
    MaxNotified   \* bound: webhooks counted for one event

Session == {Passer} \cup Reviewer

Score == 0 .. 1000     \* thousandths
Percent == 0 .. 100

\* posted: made by POST /events; edited: changed by PATCH since.
Row == [conf : Score, geo : Percent, time : Percent, count : 0 .. MaxEvidence,
        organized : BOOLEAN, posted : BOOLEAN, edited : BOOLEAN]

ASSUME ConfirmAssumption ==
    /\ Threshold \in 1 .. 1000 /\ Source \subseteq Score
    /\ Found \subseteq Percent \X Percent
    /\ Venue \cup Start \subseteq Percent /\ MaxEdits \in Nat
    /\ Passer \notin Reviewer /\ None \notin Session \cup Row
    /\ MaxEvidence \in Nat \ {0} /\ MaxNotified \in Nat

VARIABLES
    row,          \* events: the committed rows
    reliability,  \* organizers.reliability_score of the one organizer
    loaded,       \* the events each session has read, as they were
    copy,         \* the same as the session has changed them, and its new ones
    trust,        \* the organizer's reliability as the session has read it
    added,        \* evidence rows each session has inserted and not committed
    edits,        \* PATCH requests so far
    verdict,      \* the reviewer's answer the session will commit
    notified      \* webhooks sent for each event

session == <<loaded, copy, trust, added, verdict>>
vars == <<row, reliability, session, edits, notified>>

NoEvents == [e \in Event |-> None]

Init ==
    /\ row = NoEvents
    /\ reliability = 50
    /\ loaded = [w \in Session |-> NoEvents]
    /\ copy = [w \in Session |-> NoEvents]
    /\ trust = [w \in Session |-> None]
    /\ added = [w \in Session |-> [e \in Event |-> 0]]
    /\ verdict = [w \in Session |-> None]
    /\ edits = 0
    /\ notified = [e \in Event |-> 0]

-----------------------------------------------------------------------------
(* Scores.                                                                 *)

AtMost(bound, n) == IF n <= bound THEN n ELSE bound
AtLeast(bound, n) == IF n >= bound THEN n ELSE bound

\* Rounding to three decimals; on a tie the binary fraction decides.
Rounded(n) == {(n + 49) \div 100, (n + 50) \div 100}

Points(source, count, geo, time, organizer) ==
    35 * source + 10000 * AtMost(5, count) + 200 * geo + 200 * time + 150 * organizer

UncappedScore(source, count, geo, time, organizer) ==
    Rounded(Points(source, count, geo, time, organizer))
score_event(source, count, geo, time, organizer) ==
    Rounded(AtMost(100000, Points(source, count, geo, time, organizer)))

Crosses(before, after) == before < Threshold /\ after >= Threshold

Notify(e, before, after) ==
    notified' = [notified EXCEPT ![e] = IF Crosses(before, after) THEN @ + 1 ELSE @]

-----------------------------------------------------------------------------
(* Administrators.                                                         *)

\* An UPDATE waits for the transaction that has changed the row.
Dirty(w, e) == added[w][e] > 0
RowIsFree(w, e) == \A v \in Session \ {w} : ~Dirty(v, e)

Unknown(e) == row[e] = None /\ \A w \in Session : copy[w][e] = None

\* POST /events, with or without a venue, a start time and an organizer.  The
\* row has no evidence, is scored as if it had one, and no webhook is sent.
create_event(e, geo, time, organized) ==
    /\ Unknown(e)
    /\ \E conf \in score_event(600, 1, geo, time, IF organized THEN reliability ELSE 0) :
          row' = [row EXCEPT ![e] =
                    [conf |-> conf, geo |-> geo, time |-> time, count |-> 0,
                     organized |-> organized, posted |-> TRUE, edited |-> FALSE]]
    /\ UNCHANGED <<reliability, session, edits, notified>>

\* PATCH /events/{id}: a new venue, start time or organizer changes what the
\* next score is made of; the score itself stays.
update_event(e, geo, time, organized) ==
    /\ row[e] # None /\ \A w \in Session : ~Dirty(w, e)
    /\ edits < MaxEdits /\ edits' = edits + 1
    /\ row' = [row EXCEPT ![e] = [@ EXCEPT !.geo = geo, !.time = time,
                                           !.organized = organized, !.edited = TRUE]]
    /\ UNCHANGED <<reliability, session, notified>>

-----------------------------------------------------------------------------
(* Sessions.                                                               *)

ReadOrganizer(known, e) ==
    IF known = None /\ row[e].organized THEN reliability ELSE known

Load(w, e) ==
    /\ row[e] # None /\ copy[w][e] = None
    /\ w \in Reviewer => verdict[w] = None /\ copy[w] = NoEvents
    /\ loaded' = [loaded EXCEPT ![w][e] = row[e]]
    /\ copy' = [copy EXCEPT ![w][e] = row[e]]
    /\ trust' = [trust EXCEPT ![w] = ReadOrganizer(@, e)]
    /\ UNCHANGED <<row, reliability, added, verdict, edits, notified>>

\* The pass has dropped its copy of an event and reads it again: of a row it has
\* changed only the evidence is news to it.
Reload(e) ==
    /\ row[e] # None /\ copy[Passer][e] # None
    /\ IF Dirty(Passer, e)
       THEN /\ copy' = [copy EXCEPT ![Passer][e].count = row[e].count + added[Passer][e]]
            /\ UNCHANGED <<loaded, trust>>
       ELSE /\ copy' = [copy EXCEPT ![Passer][e] = row[e]]
            /\ loaded' = [loaded EXCEPT ![Passer][e] = row[e]]
            /\ trust' = [trust EXCEPT ![Passer] = ReadOrganizer(@, e)]
    /\ UNCHANGED <<row, reliability, added, verdict, edits, notified>>

Answered(w, answer) == verdict' = [verdict EXCEPT ![w] = IF w \in Reviewer THEN answer ELSE @]

\* All evidence of the event, the session's own rows included.
Evidence(w, e) == added[w][e] + (IF row[e] = None THEN 0 ELSE row[e].count)

LinkCounting(w, e, source, count) ==
    LET event == copy[w][e] IN
    /\ event # None /\ RowIsFree(w, e) /\ verdict[w] = None
    /\ Evidence(w, e) < MaxEvidence /\ notified[e] < MaxNotified
    /\ \E conf \in score_event(AtLeast(event.conf, source), count, event.geo, event.time,
                               IF event.organized THEN trust[w] ELSE 0),
          geo \in {event.geo} \cup (IF event.geo \in {35, 50} THEN {70} ELSE {}),
          time \in {event.time} \cup (IF event.time = 20 THEN {60} ELSE {}) :
          /\ copy' = [copy EXCEPT ![w][e] =
                        [@ EXCEPT !.conf = conf, !.geo = geo, !.time = time]]
          /\ Notify(e, event.conf, conf)
    /\ added' = [added EXCEPT ![w][e] = @ + 1]
    /\ Answered(w, "approved")
    /\ UNCHANGED <<row, reliability, loaded, trust, edits>>

\* link_signal_to_event.  A signal may bring the coordinates of a venue that had
\* none or a missing start time; they count from the next score on.
link_uncounted(w, e, source) == LinkCounting(w, e, source, copy[w][e].count)
link_signal_to_event(w, e, source) == LinkCounting(w, e, source, copy[w][e].count + 1)

SeedScored(w, e, conf, geo, time) ==
    /\ Unknown(e) /\ verdict[w] = None
    /\ copy' = [copy EXCEPT ![w][e] =
                  [conf |-> conf, geo |-> geo, time |-> time, count |-> 1,
                   organized |-> FALSE, posted |-> FALSE, edited |-> FALSE]]
    /\ added' = [added EXCEPT ![w][e] = 1]
    /\ Answered(w, "rejected")
    /\ UNCHANGED <<row, reliability, loaded, trust, edits>>

\* create_event_from_signal, by a pass or by a reviewer who rejects a candidate.
seed_silently(w, e, source, geo, time) ==
    \E conf \in score_event(source, 1, geo, time, 0) :
        SeedScored(w, e, conf, geo, time) /\ UNCHANGED notified
create_event_from_signal(w, e, source, geo, time) ==
    /\ notified[e] < MaxNotified
    /\ \E conf \in score_event(source, 1, geo, time, 0) :
          SeedScored(w, e, conf, geo, time) /\ Notify(e, 0, conf)

Drop(w) ==
    /\ loaded' = [loaded EXCEPT ![w] = NoEvents]
    /\ copy' = [copy EXCEPT ![w] = NoEvents]
    /\ trust' = [trust EXCEPT ![w] = None]
    /\ added' = [added EXCEPT ![w] = [e \in Event |-> 0]]
    /\ verdict' = [verdict EXCEPT ![w] = None]

\* An UPDATE sets the columns that differ from what was read.
Flushed(w, e) ==
    LET mine == copy[w][e]
        was == loaded[w][e]
    IN  IF was = None THEN [mine EXCEPT !.count = added[w][e]]
        ELSE [row[e] EXCEPT !.conf = IF mine.conf # was.conf THEN mine.conf ELSE @,
                            !.geo = IF mine.geo # was.geo THEN mine.geo ELSE @,
                            !.time = IF mine.time # was.time THEN mine.time ELSE @,
                            !.count = @ + added[w][e]]

\* The organizer of the reviewer's event is rewarded or penalised.
Nudged(w) ==
    CASE trust[w] = None \/ verdict[w] = None -> reliability
      [] trust[w] # None /\ verdict[w] = "approved" -> AtMost(100, trust[w] + 3)
      [] trust[w] # None /\ verdict[w] = "rejected" -> AtLeast(0, trust[w] - 5)

Commit(w) ==
    /\ \E e \in Event : Dirty(w, e)
    /\ row' = [e \in Event |-> IF Dirty(w, e) THEN Flushed(w, e) ELSE row[e]]
    /\ reliability' = Nudged(w)
    /\ Drop(w)
    /\ UNCHANGED <<edits, notified>>

\* A statement or the commit fails, or the process dies.
Rollback(w) ==
    /\ copy[w] # NoEvents
    /\ Drop(w)
    /\ UNCHANGED <<row, reliability, edits, notified>>

-----------------------------------------------------------------------------
Administer(e) ==
    \E organized \in BOOLEAN :
        \/ \E geo \in Venue, time \in Start : create_event(e, geo, time, organized)
        \/ /\ row[e] # None
           /\ \E geo \in {row[e].geo} \cup Venue, time \in {row[e].time} \cup Start :
                 update_event(e, geo, time, organized)

Gather(w, e) ==
    \/ Load(w, e)
    \/ \E source \in Source : link_signal_to_event(w, e, source)
    \/ \E source \in Source, found \in Found :
          create_event_from_signal(w, e, source, found[1], found[2])

Next ==
    \/ \E e \in Event : Administer(e) \/ Reload(e)
    \/ \E w \in Session : Commit(w) \/ Rollback(w) \/ \E e \in Event : Gather(w, e)

Spec == Init /\ [][Next]_vars

-----------------------------------------------------------------------------
(* Properties.                                                             *)

\* Scores stay between 0 and 1 although the terms of a score sum up to 1.4, and
\* the organizer's reliability although reviews keep pushing it.
TypeOK ==
    /\ row \in [Event -> Row \cup {None}]
    /\ reliability \in Percent
    /\ loaded \in [Session -> [Event -> Row \cup {None}]]
    /\ copy \in [Session -> [Event -> Row \cup {None}]]
    /\ trust \in [Session -> Percent \cup {None}]
    /\ added \in [Session -> [Event -> 0 .. MaxEvidence]]
    /\ verdict \in [Session -> {None, "approved", "rejected"}]
    /\ edits \in 0 .. MaxEdits
    /\ notified \in [Event -> 0 .. MaxNotified]

Announced(event, e) ==
    event # None /\ event.conf >= Threshold => notified[e] > 0

\* No event the pipeline has made is confirmed without a webhook, whatever
\* stale copies passes and reviewers score and write, in whatever order.
SeededIsAnnounced ==
    \A e \in Event : row[e] # None /\ ~row[e].posted => Announced(row[e], e)

\* "A POST fires once per event, when its confidence first reaches
\* CONFIRMED_CONFIDENCE_THRESHOLD" (README.md:222-223).
AnnouncedOnce == \A e \in Event : notified[e] <= 1

\* The session sees the event as it is, its own evidence included.
Current(w, e) ==
    /\ copy[w][e] # None
    /\ IF Dirty(w, e) THEN copy[w][e].count = Evidence(w, e) ELSE copy[w][e] = row[e]

Pristine(event) == event # None => ~event.edited /\ ~event.organized

\* Evidence never takes a confirmation back: a link that counts all evidence of
\* an event nobody has edited keeps it confirmed, however weak the new signal.
EvidenceKeepsConfirmation ==
    [][\A w \in Session, e \in Event :
          /\ Current(w, e) /\ copy[w][e].conf >= Threshold
          /\ Pristine(copy[w][e]) /\ Pristine(row[e])
          /\ added'[w][e] > added[w][e]
          => copy'[w][e].conf >= Threshold]_vars
=============================================================================
