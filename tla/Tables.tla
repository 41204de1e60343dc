------------------------------- MODULE Tables -------------------------------
(***************************************************************************)
(* The rows of the signal pipeline (models/event.py), what the queries of  *)
(* the pipeline read from them, and what must hold of them.  Pipeline.tla  *)
(* changes the rows one transaction at a time, Sessions.tla one statement  *)
(* at a time.                                                              *)
(*                                                                         *)
(* What a score is made of (text, embedding, time, place) is left out:     *)
(* whenever there is an event to compare with, a signal may link to it,    *)
(* be queued against it, or match nothing.                                 *)
(***************************************************************************)
EXTENDS Naturals, FiniteSets

CONSTANTS
    Signal,        \* ids of raw_signals rows, in ingestion order
    Event,         \* ids of events rows (an id may be reused after a delete)
    Item,          \* ids of review_queue rows, in creation order
    None,          \* SQL NULL
    DefaultLimit,  \* settings.cluster_batch_size
    Limit          \* batch sizes a caller of a pass may ask for

ASSUME TablesAssumption ==
    /\ Signal \subseteq Nat
    /\ Item \subseteq Nat
    /\ None \notin Signal \cup Event
    /\ Limit \subseteq Nat \ {0}
    /\ DefaultLimit \in Limit

VARIABLES
    stored,       \* raw_signals: the rows that exist (none is ever deleted)
    processed,    \* raw_signals.processed
    events,       \* events: the rows that exist
    evidence,     \* event_evidence: how many rows join an event and a signal
    status,       \* review_queue.status ("unused": no such row yet)
    about,        \* review_queue.raw_signal_id
    candidate     \* review_queue.candidate_event_id

reviewRows == <<status, about, candidate>>
rows == <<stored, processed, events, evidence, reviewRows>>

Status == {"unused", "pending", "approved", "rejected", "discarded", "reclustered"}

EmptyTables ==
    /\ stored = {}
    /\ processed = [s \in Signal |-> FALSE]
    /\ events = {}
    /\ evidence = [e \in Event |-> [s \in Signal |-> 0]]
    /\ status = [i \in Item |-> "unused"]
    /\ about = [i \in Item |-> None]
    /\ candidate = [i \in Item |-> None]

-----------------------------------------------------------------------------
(* What the statements read and write.                                     *)

Attached(s) == \E e \in Event : evidence[e][s] > 0

UnderReview(s) == \E i \in Item : status[i] = "pending" /\ about[i] = s

Created == {i \in Item : status[i] # "unused"}

Unprocessed == {s \in stored : ~processed[s]}

\* The oldest `limit' unprocessed signals.
Batch(limit) ==
    {s \in Unprocessed : Cardinality({t \in Unprocessed : t < s}) < limit}

\* The signals of a batch that a pass scores; the others it only flags.
ScoredNoReviewCheck(batch) == {s \in batch : ~Attached(s)}
Scored(batch) == {s \in batch : ~Attached(s) /\ ~UnderReview(s)}

\* The ids of `new' continue the autoincrement sequence after `old'.
NextIds(new, old, all) ==
    /\ new \subseteq all \ old
    /\ \A i \in new : /\ \A j \in old : j < i
                      /\ \A j \in all : j < i => j \in old \cup new

AddEvidence(linked, target) ==
    [e \in Event |-> [s \in Signal |->
        IF s \in linked /\ target[s] = e THEN evidence[e][s] + 1 ELSE evidence[e][s]]]

\* What the pass makes of the signals it scores.  `linked' join their best
\* match; each review row of `opened' asks about a signal, in batch order;
\* the rest seed.  target[s] is the best match of a signal that links or asks
\* (possibly an event an earlier signal has just seeded) and otherwise the
\* event it seeds.
Outcome(scored, linked, opened, asks, target) ==
    LET queued == {asks[i] : i \in opened}
        seeds == scored \ (linked \cup queued)
    IN  /\ NextIds(opened, Created, Item)
        /\ \A i, j \in opened : i < j => asks[i] < asks[j]
        /\ \A s \in seeds : target[s] \notin events
        /\ \A s, t \in seeds : target[s] = target[t] => s = t
        /\ \A s \in linked \cup queued :
              \/ target[s] \in events
              \/ \E t \in seeds : t < s /\ target[t] = target[s]

FlagProcessed(batch) == [s \in Signal |-> processed[s] \/ s \in batch]

\* The rows a pass writes for a batch of which it scored some.
WritePass(batch, scored) ==
    \E opened \in SUBSET Item : \E linked \in SUBSET scored :
    \E asks \in [opened -> scored \ linked], target \in [scored -> Event] :
    LET attaching == scored \ {asks[i] : i \in opened}
    IN  /\ Outcome(scored, linked, opened, asks, target)
        /\ processed' = FlagProcessed(batch)
        /\ events' = events \cup {target[s] : s \in attaching}
        /\ evidence' = AddEvidence(attaching, target)
        /\ status' = [i \in Item |-> IF i \in opened THEN "pending" ELSE status[i]]
        /\ about' = [i \in Item |-> IF i \in opened THEN asks[i] ELSE about[i]]
        /\ candidate' = [i \in Item |->
                            IF i \in opened THEN target[asks[i]] ELSE candidate[i]]
        /\ UNCHANGED stored

-----------------------------------------------------------------------------
(* What must hold of the rows between transactions.                        *)

\* Every row has the columns models/event.py declares, and a row refers only
\* to rows of the other tables that could exist.
TablesTypeOK ==
    /\ stored \subseteq Signal
    /\ processed \in [Signal -> BOOLEAN]
    /\ events \subseteq Event
    /\ evidence \in [Event -> [Signal -> Nat]]
    /\ status \in [Item -> Status]
    /\ about \in [Item -> Signal \cup {None}]
    /\ candidate \in [Item -> Event \cup {None}]

\* A signal is evidence of at most one event, once: no mix of passes, text
\* updates, reviews, overrides and deletes attaches it a second time
\* (tests/test_concurrency.py: every signal attached exactly once).
OneEvidencePerSignal ==
    \A s \in Signal, e, f \in Event :
        evidence[e][s] > 0 /\ evidence[f][s] > 0 => e = f /\ evidence[e][s] = 1

\* A reviewer is never asked two questions about one signal at a time, although
\* a text update sends a signal under review back to the pool.
OneQuestionPerSignal ==
    \A i, j \in Item :
        status[i] = "pending" /\ status[j] = "pending" /\ about[i] = about[j] => i = j

\* A question is open only while its signal is no event's evidence: approving
\* or rejecting it cannot attach the signal twice.
OpenQuestionUnattached ==
    \A i \in Item : status[i] = "pending" =>
        about[i] \in stored /\ \A e \in Event : evidence[e][about[i]] = 0

\* The evidence of an event is never in the pool of unprocessed signals
\* ("evidence stays authoritative", event_service.py _update_signal).
AttachedIsProcessed ==
    \A e \in Event, s \in Signal : evidence[e][s] > 0 => s \in stored /\ processed[s]

\* The last thing a reviewer said of the signal is that it is noise.
LastDiscarded(s) ==
    \E i \in Item : /\ status[i] = "discarded" /\ about[i] = s
                    /\ \A j \in Item : about[j] = s => j <= i

\* No signal is lost: it waits for a pass, is evidence, is under review, or a
\* reviewer's last word on it was "discard", whatever was deleted or updated
\* in between and wherever the process stopped (review.py:13, :18-19).
NothingLost ==
    \A s \in stored : processed[s] => Attached(s) \/ UnderReview(s) \/ LastDiscarded(s)

\* Evidence and review rows refer to live events only, so that an event can be
\* deleted at any time without breaking a foreign key.
References ==
    /\ \A e \in Event, s \in Signal : evidence[e][s] > 0 => e \in events
    /\ \A i \in Item : candidate[i] \in events \cup {None}

\* An approved question names the event its signal is evidence of, until that
\* event is deleted: also when the reviewer picked another candidate and when
\* an event id comes into use again.
ApprovalHolds ==
    \A i \in Item : status[i] = "approved" /\ candidate[i] # None =>
        evidence[candidate[i]][about[i]] = 1

-----------------------------------------------------------------------------
(* The fate of each signal, read off the rows.  "doubled" and "contested"  *)
(* are no stages of SignalFate: a database that shows them broke a promise.*)

AttachedOnce(s) ==
    \A e, f \in Event :
        evidence[e][s] > 0 /\ evidence[f][s] > 0 => e = f /\ evidence[e][s] = 1

StageOf(s) ==
    CASE s \notin stored -> "absent"
      [] s \in stored /\ Attached(s) ->
            IF UnderReview(s) THEN "contested"
            ELSE IF AttachedOnce(s) THEN "attached" ELSE "doubled"
      [] s \in stored /\ ~Attached(s) ->
            IF UnderReview(s) THEN "asked"
            ELSE IF processed[s] THEN "discarded" ELSE "waiting"

HomeOf(s) == IF Attached(s) THEN CHOOSE e \in Event : evidence[e][s] > 0 ELSE None

Fate == INSTANCE SignalFate WITH stage <- [s \in Signal |-> StageOf(s)],
                                 home <- [s \in Signal |-> HomeOf(s)]
=============================================================================
