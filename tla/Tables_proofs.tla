---------------------------- MODULE Tables_proofs ----------------------------
(* What every program that writes the rows of Tables one transaction at a    *)
(* time may rely on, for every number of signals, events and review items.   *)
(* RowStep lists what a transaction may do to the rows; each of its kinds    *)
(* keeps the invariant of the rows and is a step of SignalFate.  Pipeline    *)
(* takes only such steps, and so do the commits of Sessions kept apart.      *)
EXTENDS Tables, TLAPS

USE DEF Status

-----------------------------------------------------------------------------
(* The transactions, by the rows they write.                                *)

StoreSignal(s) ==
    /\ NextIds({s}, stored, Signal)
    /\ stored' = stored \cup {s}
    /\ processed' = [processed EXCEPT ![s] = FALSE]
    /\ UNCHANGED <<events, evidence, reviewRows>>

ReviseSignal(s) ==
    /\ s \in stored
    /\ processed' = [processed EXCEPT ![s] = @ /\ Attached(s)]
    /\ UNCHANGED <<stored, events, evidence, reviewRows>>

AnswerWithEvent(i, e, answer) ==
    /\ status[i] = "pending"
    /\ events' = events \cup {e}
    /\ evidence' = AddEvidence({about[i]}, [s \in {about[i]} |-> e])
    /\ processed' = [processed EXCEPT ![about[i]] = TRUE]
    /\ status' = [status EXCEPT ![i] = answer]
    /\ candidate' = IF answer = "approved" THEN [candidate EXCEPT ![i] = e] ELSE candidate
    /\ UNCHANGED <<stored, about>>

AnswerWithoutEvent(i, answer) ==
    /\ status[i] = "pending"
    /\ processed' = [processed EXCEPT ![about[i]] = (answer = "discarded")]
    /\ status' = [status EXCEPT ![i] = answer]
    /\ UNCHANGED <<stored, events, evidence, about, candidate>>

AddEvent(e) ==
    /\ events' = events \cup {e}
    /\ UNCHANGED <<stored, processed, evidence, reviewRows>>

\* Items that name the event lose their candidate; others may, too.
DropEvent(e, items) ==
    /\ {i \in Item : candidate[i] = e} \subseteq items
    /\ events' = events \ {e}
    /\ processed' = [s \in Signal |-> processed[s] /\ evidence[e][s] = 0]
    /\ evidence' = [evidence EXCEPT ![e] = [s \in Signal |-> 0]]
    /\ candidate' = [i \in Item |-> IF i \in items THEN None ELSE candidate[i]]
    /\ UNCHANGED <<stored, status, about>>

PassOver(batch) == WritePass(batch, Scored(batch))

RowStep ==
    \/ \E s \in Signal : StoreSignal(s) \/ ReviseSignal(s)
    \/ \E batch \in SUBSET Unprocessed : PassOver(batch)
    \/ \E i \in Item, e \in Event, answer \in {"approved", "rejected"} :
           AnswerWithEvent(i, e, answer)
    \/ \E i \in Item, answer \in {"discarded", "reclustered"} : AnswerWithoutEvent(i, answer)
    \/ \E e \in Event : AddEvent(e)
    \/ \E e \in Event, items \in SUBSET Item : DropEvent(e, items)

-----------------------------------------------------------------------------
(* The inductive invariant.                                                 *)

\* A row of the review queue exists exactly when it is about a stored signal.
RowsAreAboutSignals ==
    \A i \in Item : IF status[i] = "unused"
                    THEN about[i] = None /\ candidate[i] = None
                    ELSE about[i] \in stored

\* An open question is the newest one about its signal.
OpenIsNewest ==
    \A i, j \in Item :
        status[i] = "pending" /\ status[j] # "unused" /\ about[j] = about[i] => j <= i

RowsInv ==
    /\ TablesTypeOK
    /\ OneEvidencePerSignal
    /\ OpenQuestionUnattached
    /\ AttachedIsProcessed
    /\ NothingLost
    /\ References
    /\ ApprovalHolds
    /\ RowsAreAboutSignals
    /\ OpenIsNewest

\* The invariant holds of the empty database.
LEMMA EmptyInv == EmptyTables => RowsInv
  <1> SUFFICES ASSUME EmptyTables PROVE RowsInv
      OBVIOUS
  <1> USE TablesAssumption DEF EmptyTables
  <1>1. TablesTypeOK
      BY DEF TablesTypeOK
  <1>2. OneEvidencePerSignal /\ OpenQuestionUnattached /\ AttachedIsProcessed
      BY DEF OneEvidencePerSignal, OpenQuestionUnattached, AttachedIsProcessed
  <1>3. NothingLost /\ References /\ ApprovalHolds
      BY DEF NothingLost, References, ApprovalHolds
  <1>4. RowsAreAboutSignals /\ OpenIsNewest
      BY DEF RowsAreAboutSignals, OpenIsNewest
  <1> QED
      BY <1>1, <1>2, <1>3, <1>4 DEF RowsInv

\* Two open questions about one signal would each be the newest.
LEMMA OneQuestionFollows == RowsInv => OneQuestionPerSignal
  <1> SUFFICES ASSUME RowsInv,
                      NEW i \in Item, NEW j \in Item,
                      status[i] = "pending", status[j] = "pending", about[i] = about[j]
               PROVE  i = j
      BY DEF OneQuestionPerSignal
  <1>1. j <= i /\ i <= j
      BY DEF RowsInv, OpenIsNewest
  <1> QED
      BY <1>1, TablesAssumption

-----------------------------------------------------------------------------
(* One lemma per transaction.                                               *)

\* A stored item is new, unattached and in nobody's question.
LEMMA StoreSignalInv ==
  ASSUME RowsInv, NEW s \in Signal, StoreSignal(s) PROVE RowsInv'
  <1> USE DEF StoreSignal, reviewRows
  <1>0. s \notin stored /\ stored' = stored \cup {s}
      BY DEF NextIds
  <1>1. TablesTypeOK'
      BY DEF RowsInv, TablesTypeOK
  <1>2. OneEvidencePerSignal' /\ References' /\ ApprovalHolds' /\ OpenIsNewest'
      BY DEF RowsInv, OneEvidencePerSignal, References, ApprovalHolds, OpenIsNewest
  <1>3. OpenQuestionUnattached' /\ RowsAreAboutSignals'
      BY DEF RowsInv, OpenQuestionUnattached, RowsAreAboutSignals
  <1>4. AttachedIsProcessed'
      BY <1>0 DEF RowsInv, AttachedIsProcessed, TablesTypeOK
  <1>5. NothingLost'
      BY <1>0 DEF RowsInv, NothingLost, TablesTypeOK, Attached, UnderReview, LastDiscarded
  <1> QED
      BY <1>1, <1>2, <1>3, <1>4, <1>5 DEF RowsInv

\* A text update sends back to the pool only what is no evidence.
LEMMA ReviseSignalInv ==
  ASSUME RowsInv, NEW s \in Signal, ReviseSignal(s) PROVE RowsInv'
  <1> USE DEF ReviseSignal, reviewRows
  <1>1. TablesTypeOK'
      BY DEF RowsInv, TablesTypeOK
  <1>2. OneEvidencePerSignal' /\ References' /\ ApprovalHolds' /\ OpenIsNewest'
      BY DEF RowsInv, OneEvidencePerSignal, References, ApprovalHolds, OpenIsNewest
  <1>3. OpenQuestionUnattached' /\ RowsAreAboutSignals'
      BY DEF RowsInv, OpenQuestionUnattached, RowsAreAboutSignals
  <1>4. AttachedIsProcessed'
      BY DEF RowsInv, AttachedIsProcessed, TablesTypeOK, Attached
  <1>5. NothingLost'
      BY DEF RowsInv, NothingLost, TablesTypeOK, Attached, UnderReview, LastDiscarded
  <1> QED
      BY <1>1, <1>2, <1>3, <1>4, <1>5 DEF RowsInv

\* An event made by hand has no evidence yet.
LEMMA AddEventInv ==
  ASSUME RowsInv, NEW e \in Event, AddEvent(e) PROVE RowsInv'
  <1> USE DEF AddEvent, reviewRows
  <1>1. TablesTypeOK'
      BY DEF RowsInv, TablesTypeOK
  <1>2. OneEvidencePerSignal' /\ References' /\ ApprovalHolds' /\ OpenIsNewest'
      BY DEF RowsInv, OneEvidencePerSignal, References, ApprovalHolds, OpenIsNewest
  <1>3. OpenQuestionUnattached' /\ RowsAreAboutSignals' /\ AttachedIsProcessed'
      BY DEF RowsInv, OpenQuestionUnattached, RowsAreAboutSignals, AttachedIsProcessed
  <1>4. NothingLost'
      BY DEF RowsInv, NothingLost, TablesTypeOK, Attached, UnderReview, LastDiscarded
  <1> QED
      BY <1>1, <1>2, <1>3, <1>4 DEF RowsInv

\* A deleted event takes its evidence with it and frees its signals.
LEMMA DropEventInv ==
  ASSUME RowsInv, NEW e \in Event, NEW items \in SUBSET Item, DropEvent(e, items)
  PROVE  RowsInv'
  <1> USE DEF DropEvent
  <1>1. TablesTypeOK'
      BY TablesAssumption DEF RowsInv, TablesTypeOK
  <1>2. \A f \in Event, s \in Signal :
            evidence'[f][s] = IF f = e THEN 0 ELSE evidence[f][s]
      BY DEF RowsInv, TablesTypeOK
  <1>3. OneEvidencePerSignal'
      BY <1>2 DEF RowsInv, OneEvidencePerSignal
  <1>4. References'
      BY <1>2 DEF RowsInv, References, TablesTypeOK
  <1>5. ApprovalHolds'
      BY <1>2, TablesAssumption DEF RowsInv, ApprovalHolds, TablesTypeOK, References, RowsAreAboutSignals
  <1>6. OpenIsNewest' /\ RowsAreAboutSignals'
      BY DEF RowsInv, OpenIsNewest, RowsAreAboutSignals, TablesTypeOK
  <1>7. OpenQuestionUnattached'
      BY <1>2 DEF RowsInv, OpenQuestionUnattached, TablesTypeOK
  <1>8. AttachedIsProcessed'
      BY <1>2 DEF RowsInv, AttachedIsProcessed, OneEvidencePerSignal, TablesTypeOK
  <1>9. NothingLost'
      <2> SUFFICES ASSUME NEW s \in stored, processed'[s]
                   PROVE  Attached(s)' \/ UnderReview(s)' \/ LastDiscarded(s)'
          BY DEF NothingLost
      <2>1. processed[s] /\ evidence[e][s] = 0
          BY DEF RowsInv, TablesTypeOK
      <2>2. Attached(s) \/ UnderReview(s) \/ LastDiscarded(s)
          BY <2>1 DEF RowsInv, NothingLost
      <2>3. Attached(s) => Attached(s)'
          BY <1>2, <2>1 DEF Attached, RowsInv, TablesTypeOK
      <2>4. UnderReview(s) => UnderReview(s)'
          BY DEF UnderReview
      <2>5. LastDiscarded(s) => LastDiscarded(s)'
          BY DEF LastDiscarded
      <2> QED
          BY <2>2, <2>3, <2>4, <2>5
  <1> QED
      BY <1>1, <1>3, <1>4, <1>5, <1>6, <1>7, <1>8, <1>9 DEF RowsInv

-----------------------------------------------------------------------------
(* Attaching signals.                                                       *)

\* What AddEvidence does to each pair, and that it only adds.
LEMMA AddEvidenceEffect ==
  ASSUME evidence \in [Event -> [Signal -> Nat]],
         NEW linked, NEW target,
         evidence' = AddEvidence(linked, target)
  PROVE  /\ evidence' \in [Event -> [Signal -> Nat]]
         /\ \A e \in Event, s \in Signal :
               evidence'[e][s] = IF s \in linked /\ target[s] = e
                                 THEN evidence[e][s] + 1 ELSE evidence[e][s]
  BY DEF AddEvidence

\* Signals that are evidence of nothing may each be attached to one live event.
LEMMA AttachUnattached ==
  ASSUME TablesTypeOK, OneEvidencePerSignal, References, ApprovalHolds, RowsAreAboutSignals,
         NEW linked \in SUBSET Signal, NEW target,
         \A s \in linked : ~Attached(s) /\ target[s] \in Event,
         evidence' = AddEvidence(linked, target)
  PROVE  /\ evidence' \in [Event -> [Signal -> Nat]]
         /\ \A e \in Event, s \in Signal :
               evidence'[e][s] = IF s \in linked /\ target[s] = e
                                 THEN 1 ELSE evidence[e][s]
         /\ OneEvidencePerSignal'
         /\ \A s \in Signal : Attached(s) => Attached(s)'
         /\ \A s \in linked : Attached(s)'
         /\ \A s \in Signal \ linked, e \in Event : evidence'[e][s] = evidence[e][s]
         /\ \A i \in Item : status[i] = "approved" /\ candidate[i] # None =>
               evidence'[candidate[i]][about[i]] = 1
  <1>1. \A e \in Event, s \in linked : evidence[e][s] = 0
      BY DEF Attached, TablesTypeOK
  <1>2. /\ evidence' \in [Event -> [Signal -> Nat]]
        /\ \A e \in Event, s \in Signal :
              evidence'[e][s] = IF s \in linked /\ target[s] = e
                                THEN 1 ELSE evidence[e][s]
      BY <1>1, AddEvidenceEffect DEF TablesTypeOK
  <1>3. OneEvidencePerSignal'
      BY <1>1, <1>2 DEF OneEvidencePerSignal
  <1>4. \A s \in Signal : Attached(s) => Attached(s)'
      BY <1>2 DEF Attached
  <1>5. \A s \in linked : Attached(s)'
      BY <1>2 DEF Attached
  <1>6. \A s \in Signal \ linked, e \in Event : evidence'[e][s] = evidence[e][s]
      BY <1>2
  <1>7. ASSUME NEW i \in Item, status[i] = "approved", candidate[i] # None
        PROVE  evidence'[candidate[i]][about[i]] = 1
    <2>1. candidate[i] \in Event /\ about[i] \in Signal
        BY <1>7 DEF TablesTypeOK, RowsAreAboutSignals
    <2>2. evidence[candidate[i]][about[i]] = 1
        BY <1>7 DEF ApprovalHolds
    <2> QED
        BY <1>1, <1>6, <2>1, <2>2
  <1> QED
      BY <1>2, <1>3, <1>4, <1>5, <1>6, <1>7

\* The same for the one signal a reviewer decides about.
LEMMA AttachOne ==
  ASSUME RowsInv, NEW s \in Signal, NEW e \in Event, ~Attached(s),
         evidence' = AddEvidence({s}, [t \in {s} |-> e])
  PROVE  /\ evidence' \in [Event -> [Signal -> Nat]]
         /\ \A f \in Event, t \in Signal :
               evidence'[f][t] = IF t = s /\ f = e THEN 1 ELSE evidence[f][t]
         /\ OneEvidencePerSignal'
         /\ \A t \in Signal : Attached(t) => Attached(t)'
         /\ Attached(s)'
         /\ \A t \in Signal \ {s}, f \in Event : evidence'[f][t] = evidence[f][t]
         /\ \A j \in Item : status[j] = "approved" /\ candidate[j] # None =>
               evidence'[candidate[j]][about[j]] = 1
  <1> DEFINE one == {s}
             target == [t \in {s} |-> e]
  <1>1. target[s] = e
      OBVIOUS
  <1>2. one \in SUBSET Signal /\ \A t \in one : ~Attached(t) /\ target[t] \in Event
      OBVIOUS
  <1>3. evidence' = AddEvidence(one, target)
      OBVIOUS
  <1>4. \A t : t \in one <=> t = s
      OBVIOUS
  <1>5. TablesTypeOK /\ OneEvidencePerSignal /\ References /\ ApprovalHolds /\ RowsAreAboutSignals
      BY DEF RowsInv
  <1> HIDE DEF one, target
  <1>6. /\ evidence' \in [Event -> [Signal -> Nat]]
        /\ \A f \in Event, t \in Signal :
              evidence'[f][t] = IF t \in one /\ target[t] = f THEN 1 ELSE evidence[f][t]
        /\ OneEvidencePerSignal'
        /\ \A t \in Signal : Attached(t) => Attached(t)'
        /\ \A t \in one : Attached(t)'
        /\ \A t \in Signal \ one, f \in Event : evidence'[f][t] = evidence[f][t]
        /\ \A j \in Item : status[j] = "approved" /\ candidate[j] # None =>
              evidence'[candidate[j]][about[j]] = 1
      BY <1>2, <1>3, <1>5, AttachUnattached
  <1>7. \A f \in Event, t \in Signal :
            evidence'[f][t] = IF t = s /\ f = e THEN 1 ELSE evidence[f][t]
    <2> SUFFICES ASSUME NEW f \in Event, NEW t \in Signal
                 PROVE  evidence'[f][t] = IF t = s /\ f = e THEN 1 ELSE evidence[f][t]
        OBVIOUS
    <2>1. evidence'[f][t] = IF t \in one /\ target[t] = f THEN 1 ELSE evidence[f][t]
        BY <1>6
    <2>2. t \in one /\ target[t] = f <=> t = s /\ f = e
        BY <1>1, <1>4
    <2> QED
        BY <2>1, <2>2
  <1>8. Attached(s)'
      BY <1>4, <1>6
  <1>9. \A t \in Signal \ {s}, f \in Event : evidence'[f][t] = evidence[f][t]
      BY <1>7
  <1> QED
      BY <1>6, <1>7, <1>8, <1>9

-----------------------------------------------------------------------------
(* Review.                                                                  *)

\* The signal of an open question is stored and unattached.
LEMMA OpenQuestionFacts ==
  ASSUME RowsInv, NEW i \in Item, status[i] = "pending"
  PROVE  /\ about[i] \in stored /\ about[i] \in Signal /\ ~Attached(about[i])
         /\ \A j \in Item \ {i} : status[j] = "pending" => about[j] # about[i]
  <1>1. about[i] \in stored /\ about[i] \in Signal /\ ~Attached(about[i])
      BY DEF RowsInv, OpenQuestionUnattached, TablesTypeOK, Attached
  <1>2. \A j \in Item \ {i} : status[j] = "pending" => about[j] # about[i]
      BY OneQuestionFollows DEF OneQuestionPerSignal
  <1> QED
      BY <1>1, <1>2

\* Approving and rejecting attach the one signal of an open question to an event
\* that exists then.
LEMMA AnswerWithEventInv ==
  ASSUME RowsInv, NEW i \in Item, NEW e \in Event,
         NEW answer \in {"approved", "rejected"}, AnswerWithEvent(i, e, answer)
  PROVE  RowsInv'
  <1> USE DEF AnswerWithEvent
  <1> DEFINE s == about[i]
  <1>1. /\ s \in stored /\ s \in Signal /\ ~Attached(s) /\ status[i] = "pending"
        /\ \A j \in Item \ {i} : status[j] = "pending" => about[j] # s
      BY OpenQuestionFacts
  <1>2. /\ evidence' \in [Event -> [Signal -> Nat]]
        /\ \A f \in Event, t \in Signal :
              evidence'[f][t] = IF t = s /\ f = e THEN 1 ELSE evidence[f][t]
        /\ OneEvidencePerSignal'
        /\ \A t \in Signal : Attached(t) => Attached(t)'
        /\ Attached(s)'
        /\ \A t \in Signal \ {s}, f \in Event : evidence'[f][t] = evidence[f][t]
        /\ \A j \in Item : status[j] = "approved" /\ candidate[j] # None =>
              evidence'[candidate[j]][about[j]] = 1
      BY <1>1, AttachOne
  <1>3. TablesTypeOK'
      BY <1>1, <1>2 DEF RowsInv, TablesTypeOK
  <1>4. References'
      BY <1>1, <1>2 DEF RowsInv, References, TablesTypeOK
  <1>5. ApprovalHolds'
      BY <1>1, <1>2 DEF RowsInv, TablesTypeOK, ApprovalHolds
  <1>6. OpenIsNewest' /\ RowsAreAboutSignals'
      BY <1>1, TablesAssumption DEF RowsInv, OpenIsNewest, RowsAreAboutSignals, TablesTypeOK
  <1>7. OpenQuestionUnattached'
    <2> SUFFICES ASSUME NEW j \in Item, status'[j] = "pending"
                 PROVE  about'[j] \in stored' /\ \A f \in Event : evidence'[f][about'[j]] = 0
        BY DEF OpenQuestionUnattached
    <2>1. j # i /\ status[j] = "pending" /\ about[j] # s
        BY <1>1 DEF RowsInv, TablesTypeOK
    <2>2. about[j] \in stored /\ \A f \in Event : evidence[f][about[j]] = 0
        BY <2>1 DEF RowsInv, OpenQuestionUnattached
    <2> QED
        BY <1>2, <2>1, <2>2 DEF RowsInv, TablesTypeOK
  <1>8. AttachedIsProcessed'
      BY <1>1, <1>2 DEF RowsInv, AttachedIsProcessed, TablesTypeOK
  <1>9. NothingLost'
    <2> SUFFICES ASSUME NEW t \in stored, processed'[t], t # s
                 PROVE  Attached(t)' \/ UnderReview(t)' \/ LastDiscarded(t)'
        BY <1>2 DEF NothingLost
    <2>1. Attached(t) \/ UnderReview(t) \/ LastDiscarded(t)
        BY DEF RowsInv, NothingLost, TablesTypeOK
    <2>2. UnderReview(t) => UnderReview(t)'
        BY DEF UnderReview, RowsInv, TablesTypeOK
    <2>3. LastDiscarded(t) => LastDiscarded(t)'
        BY DEF LastDiscarded, RowsInv, TablesTypeOK
    <2> QED
        BY <1>2, <2>1, <2>2, <2>3 DEF RowsInv, TablesTypeOK
  <1> QED
      BY <1>2, <1>3, <1>4, <1>5, <1>6, <1>7, <1>8, <1>9 DEF RowsInv

\* Discarding leaves the signal processed, the last word about it "discarded".
LEMMA DiscardInv ==
  ASSUME RowsInv, NEW i \in Item, AnswerWithoutEvent(i, "discarded") PROVE RowsInv'
  <1> USE DEF AnswerWithoutEvent
  <1> DEFINE s == about[i]
  <1>1. /\ s \in stored /\ s \in Signal /\ ~Attached(s) /\ status[i] = "pending"
        /\ \A j \in Item \ {i} : status[j] = "pending" => about[j] # s
      BY OpenQuestionFacts
  <1>2. TablesTypeOK'
      BY <1>1 DEF RowsInv, TablesTypeOK
  <1>3. OneEvidencePerSignal' /\ References' /\ ApprovalHolds'
      BY DEF RowsInv, OneEvidencePerSignal, References, ApprovalHolds, TablesTypeOK
  <1>4. OpenIsNewest' /\ RowsAreAboutSignals' /\ OpenQuestionUnattached'
      BY <1>1 DEF RowsInv, OpenIsNewest, RowsAreAboutSignals, OpenQuestionUnattached, TablesTypeOK
  <1>5. AttachedIsProcessed'
      BY <1>1 DEF RowsInv, AttachedIsProcessed, TablesTypeOK
  <1>6. NothingLost'
    <2> SUFFICES ASSUME NEW t \in stored, processed'[t]
                 PROVE  Attached(t)' \/ UnderReview(t)' \/ LastDiscarded(t)'
        BY DEF NothingLost
    <2>1. CASE t = s
      <3>1. \A j \in Item : about[j] = s => j <= i
          BY <1>1, TablesAssumption DEF RowsInv, OpenIsNewest, RowsAreAboutSignals, TablesTypeOK
      <3> QED
          BY <1>1, <2>1, <3>1 DEF LastDiscarded, RowsInv, TablesTypeOK
    <2>2. CASE t # s
      <3>1. Attached(t) \/ UnderReview(t) \/ LastDiscarded(t)
          BY <2>2 DEF RowsInv, NothingLost, TablesTypeOK
      <3>2. (Attached(t) => Attached(t)') /\ (UnderReview(t) => UnderReview(t)')
          BY <2>2 DEF Attached, UnderReview, RowsInv, TablesTypeOK
      <3>3. LastDiscarded(t) => LastDiscarded(t)'
          BY DEF LastDiscarded, RowsInv, TablesTypeOK
      <3> QED
          BY <3>1, <3>2, <3>3
    <2> QED
        BY <2>1, <2>2
  <1> QED
      BY <1>2, <1>3, <1>4, <1>5, <1>6 DEF RowsInv

\* A recluster sends the signal back to the pool.
LEMMA ReclusterInv ==
  ASSUME RowsInv, NEW i \in Item, AnswerWithoutEvent(i, "reclustered") PROVE RowsInv'
  <1> USE DEF AnswerWithoutEvent
  <1> DEFINE s == about[i]
  <1>1. /\ s \in stored /\ s \in Signal /\ ~Attached(s) /\ status[i] = "pending"
        /\ \A j \in Item \ {i} : status[j] = "pending" => about[j] # s
      BY OpenQuestionFacts
  <1>2. TablesTypeOK'
      BY <1>1 DEF RowsInv, TablesTypeOK
  <1>3. OneEvidencePerSignal' /\ References' /\ ApprovalHolds'
      BY DEF RowsInv, OneEvidencePerSignal, References, ApprovalHolds, TablesTypeOK
  <1>4. OpenIsNewest' /\ RowsAreAboutSignals' /\ OpenQuestionUnattached'
      BY <1>1 DEF RowsInv, OpenIsNewest, RowsAreAboutSignals, OpenQuestionUnattached, TablesTypeOK
  <1>5. AttachedIsProcessed'
      BY <1>1 DEF RowsInv, AttachedIsProcessed, TablesTypeOK, Attached
  <1>6. NothingLost'
    <2> SUFFICES ASSUME NEW t \in stored, processed'[t]
                 PROVE  Attached(t)' \/ UnderReview(t)' \/ LastDiscarded(t)'
        BY DEF NothingLost
    <2>1. t # s
        BY <1>1 DEF RowsInv, TablesTypeOK
    <2>2. Attached(t) \/ UnderReview(t) \/ LastDiscarded(t)
        BY <2>1 DEF RowsInv, NothingLost, TablesTypeOK
    <2>3. (Attached(t) => Attached(t)') /\ (UnderReview(t) => UnderReview(t)')
        BY <2>1 DEF Attached, UnderReview, RowsInv, TablesTypeOK
    <2>4. LastDiscarded(t) => LastDiscarded(t)'
        BY <1>1 DEF LastDiscarded, RowsInv, TablesTypeOK
    <2> QED
        BY <2>2, <2>3, <2>4
  <1> QED
      BY <1>2, <1>3, <1>4, <1>5, <1>6 DEF RowsInv

-----------------------------------------------------------------------------
(* A cluster pass.                                                          *)

\* What a pass writes, in the terms the invariant needs: it attaches some of the
\* signals it scores, opens new questions about the others, flags the batch.
PassWrites(batch, scored, attaching, opened, asks, target) ==
    /\ attaching \subseteq scored
    /\ opened \subseteq Item \ Created
    /\ asks \in [opened -> scored \ attaching]
    /\ target \in [scored -> Event]
    /\ \A s \in scored \ attaching : \E i \in opened : asks[i] = s
    /\ \A i \in opened, j \in Created : j < i
    /\ \A i, j \in opened : i < j => asks[i] < asks[j]
    /\ \A s \in scored : target[s] \in events'
    /\ events \subseteq events' /\ events' \subseteq Event
    /\ processed' = [s \in Signal |-> processed[s] \/ s \in batch]
    /\ evidence' = AddEvidence(attaching, target)
    /\ status' = [i \in Item |-> IF i \in opened THEN "pending" ELSE status[i]]
    /\ about' = [i \in Item |-> IF i \in opened THEN asks[i] ELSE about[i]]
    /\ candidate' = [i \in Item |-> IF i \in opened THEN target[asks[i]] ELSE candidate[i]]
    /\ stored' = stored

\* The same of the signals a pass should score.
PassEffect(batch, scored, attaching, opened, asks, target) ==
    /\ batch \subseteq Unprocessed /\ scored \subseteq batch
    /\ \A s \in batch : s \in scored <=> ~Attached(s) /\ ~UnderReview(s)
    /\ PassWrites(batch, scored, attaching, opened, asks, target)

\* A pass writes what PassWrites says, however links, questions and seeds are mixed.
LEMMA WritePassWrites ==
  ASSUME events \subseteq Event, NEW batch, NEW scored, WritePass(batch, scored)
  PROVE  \E attaching, opened, asks, target :
            PassWrites(batch, scored, attaching, opened, asks, target)
  <1>1. PICK opened \in SUBSET Item, linked \in SUBSET scored :
        \E asks \in [opened -> scored \ linked], target \in [scored -> Event] :
        LET attaching == scored \ {asks[i] : i \in opened}
        IN  /\ Outcome(scored, linked, opened, asks, target)
            /\ processed' = FlagProcessed(batch)
            /\ events' = events \cup {target[s] : s \in attaching}
            /\ evidence' = AddEvidence(attaching, target)
            /\ status' = [i \in Item |-> IF i \in opened THEN "pending" ELSE status[i]]
            /\ about' = [i \in Item |-> IF i \in opened THEN asks[i] ELSE about[i]]
            /\ candidate' = [i \in Item |->
                                IF i \in opened THEN target[asks[i]] ELSE candidate[i]]
            /\ UNCHANGED stored
      BY DEF WritePass
  <1>2. PICK asks \in [opened -> scored \ linked], target \in [scored -> Event] :
            /\ Outcome(scored, linked, opened, asks, target)
            /\ processed' = FlagProcessed(batch)
            /\ events' = events \cup {target[s] : s \in scored \ {asks[i] : i \in opened}}
            /\ evidence' = AddEvidence(scored \ {asks[i] : i \in opened}, target)
            /\ status' = [i \in Item |-> IF i \in opened THEN "pending" ELSE status[i]]
            /\ about' = [i \in Item |-> IF i \in opened THEN asks[i] ELSE about[i]]
            /\ candidate' = [i \in Item |->
                                IF i \in opened THEN target[asks[i]] ELSE candidate[i]]
            /\ UNCHANGED stored
      BY <1>1
  <1> DEFINE queued == {asks[i] : i \in opened}
             attaching == scored \ queued
  <1>4. /\ opened \in SUBSET (Item \ Created)
        /\ \A i \in opened, j \in Created : j < i
        /\ \A i, j \in opened : i < j => asks[i] < asks[j]
      BY <1>2 DEF Outcome, NextIds
  <1>5. asks \in [opened -> scored \ attaching]
      BY <1>2
  <1>6. attaching \in SUBSET scored /\ \A s \in scored \ attaching : \E i \in opened : asks[i] = s
      OBVIOUS
  <1>7. \A s \in scored : target[s] \in events'
    <2> SUFFICES ASSUME NEW s \in scored PROVE target[s] \in events'
        OBVIOUS
    <2>1. CASE s \in attaching
        BY <1>2, <2>1
    <2>2. CASE s \in queued
      <3>1. \/ target[s] \in events
            \/ \E t \in scored \ (linked \cup queued) : target[t] = target[s]
          BY <1>2, <2>2 DEF Outcome
      <3> QED
          BY <1>2, <3>1
    <2> QED
        BY <2>1, <2>2
  <1>8. events \subseteq events' /\ events' \subseteq Event
      BY <1>2
  <1>9. processed' = [s \in Signal |-> processed[s] \/ s \in batch]
      BY <1>2 DEF FlagProcessed
  <1>10. evidence' = AddEvidence(attaching, target)
      BY <1>2
  <1> HIDE DEF attaching
  <1>11. PassWrites(batch, scored, attaching, opened, asks, target)
      BY <1>2, <1>4, <1>5, <1>6, <1>7, <1>8, <1>9, <1>10 DEF PassWrites
  <1> QED
      BY <1>11

\* A pass does what PassEffect says.
LEMMA PassHasEffect ==
  ASSUME RowsInv, NEW batch \in SUBSET Unprocessed, PassOver(batch)
  PROVE  \E scored, attaching, opened, asks, target :
            PassEffect(batch, scored, attaching, opened, asks, target)
  <1> DEFINE scored == Scored(batch)
  <1>1. PICK attaching, opened, asks, target :
            PassWrites(batch, scored, attaching, opened, asks, target)
      BY WritePassWrites DEF PassOver, RowsInv, TablesTypeOK
  <1>2. /\ scored \in SUBSET batch
        /\ \A s \in batch : s \in scored <=> ~Attached(s) /\ ~UnderReview(s)
      BY DEF Scored
  <1> HIDE DEF scored
  <1> QED
      BY <1>1, <1>2 DEF PassEffect

\* A pass keeps the invariant.
LEMMA PassInv ==
  ASSUME RowsInv, NEW batch \in SUBSET Unprocessed, PassOver(batch)
  PROVE  RowsInv'
  <1>1. PICK scored, attaching, opened, asks, target :
            PassEffect(batch, scored, attaching, opened, asks, target)
      BY PassHasEffect
  <1> USE DEF PassEffect, PassWrites
  <1>4. /\ scored \subseteq stored /\ stored \subseteq Signal
        /\ \A s \in scored : ~Attached(s) /\ ~UnderReview(s) /\ s \in batch
        /\ \A i \in opened : status[i] = "unused" /\ asks[i] \in scored \ attaching
      BY <1>1 DEF Unprocessed, Created, RowsInv, TablesTypeOK
  <1>5. /\ evidence' \in [Event -> [Signal -> Nat]]
        /\ \A e \in Event, s \in Signal :
              evidence'[e][s] = IF s \in attaching /\ target[s] = e
                                THEN 1 ELSE evidence[e][s]
        /\ OneEvidencePerSignal'
        /\ \A s \in Signal : Attached(s) => Attached(s)'
        /\ \A s \in attaching : Attached(s)'
        /\ \A s \in Signal \ attaching, e \in Event : evidence'[e][s] = evidence[e][s]
        /\ \A i \in Item : status[i] = "approved" /\ candidate[i] # None =>
              evidence'[candidate[i]][about[i]] = 1
    <2>1. attaching \in SUBSET Signal /\ \A s \in attaching : ~Attached(s) /\ target[s] \in Event
        BY <1>1, <1>4
    <2> QED
        BY <1>1, <2>1, AttachUnattached DEF RowsInv
  <1>6. TablesTypeOK'
    <2>1. \A i \in opened : asks[i] \in Signal /\ target[asks[i]] \in Event
        BY <1>1, <1>4
    <2> QED
        BY <1>1, <1>5, <2>1 DEF RowsInv, TablesTypeOK
  <1>7. References'
    <2>1. \A e \in Event, s \in Signal : evidence'[e][s] > 0 => e \in events'
        BY <1>1, <1>5 DEF RowsInv, References
    <2>2. \A i \in Item : candidate'[i] \in events' \cup {None}
        BY <1>1, <1>4 DEF RowsInv, References
    <2> QED
        BY <2>1, <2>2 DEF References
  <1>8. ApprovalHolds'
      BY <1>1, <1>4, <1>5 DEF ApprovalHolds
  <1>9. RowsAreAboutSignals'
      BY <1>1, <1>4 DEF RowsInv, RowsAreAboutSignals
  <1>10. OpenIsNewest'
    <2> SUFFICES ASSUME NEW i \in Item, NEW j \in Item,
                        status'[i] = "pending", status'[j] # "unused", about'[j] = about'[i]
                 PROVE  j <= i
        BY DEF OpenIsNewest
    <2>1. CASE i \in opened /\ j \in opened
      <3>1. asks[i] = asks[j]
          BY <1>1, <2>1
      <3>2. asks[i] \in Nat /\ i \in Nat /\ j \in Nat
          BY <1>4, <2>1, TablesAssumption
      <3>3. i < j => asks[i] < asks[j]
          BY <1>1, <2>1
      <3> QED
          BY <3>1, <3>2, <3>3
    <2>2. CASE i \in opened /\ j \notin opened
        BY <1>1, <2>2, TablesAssumption DEF Created
    <2>3. CASE i \notin opened /\ j \in opened
        BY <1>1, <1>4, <2>3 DEF UnderReview
    <2>4. CASE i \notin opened /\ j \notin opened
        BY <1>1, <2>4 DEF RowsInv, OpenIsNewest
    <2> QED
        BY <2>1, <2>2, <2>3, <2>4
  <1>11. OpenQuestionUnattached'
    <2> SUFFICES ASSUME NEW i \in Item, status'[i] = "pending"
                 PROVE  about'[i] \in stored' /\ \A e \in Event : evidence'[e][about'[i]] = 0
        BY DEF OpenQuestionUnattached
    <2>1. about'[i] \in stored /\ about'[i] \notin attaching
                /\ \A e \in Event : evidence[e][about'[i]] = 0
      <3>1. CASE i \in opened
          BY <1>1, <1>4, <3>1 DEF Attached, RowsInv, TablesTypeOK
      <3>2. CASE i \notin opened
          BY <1>1, <1>4, <3>2 DEF UnderReview, RowsInv, OpenQuestionUnattached
      <3> QED
          BY <3>1, <3>2
    <2> QED
        BY <1>1, <1>4, <1>5, <2>1
  <1>12. AttachedIsProcessed'
      BY <1>1, <1>4, <1>5 DEF RowsInv, AttachedIsProcessed
  <1>13. NothingLost'
    <2> SUFFICES ASSUME NEW s \in stored, processed'[s]
                 PROVE  Attached(s)' \/ UnderReview(s)' \/ LastDiscarded(s)'
        BY <1>1 DEF NothingLost
    <2>1. s \in Signal
        BY <1>4
    <2>2. UnderReview(s) => UnderReview(s)'
        BY <1>1, <1>4 DEF UnderReview
    <2>3. CASE s \in scored
      <3>1. CASE s \in attaching
          BY <1>5, <3>1
      <3>2. CASE s \notin attaching
          BY <1>1, <2>3, <3>2 DEF UnderReview
      <3> QED
          BY <3>1, <3>2
    <2>4. CASE s \in batch \ scored
        BY <1>1, <1>5, <2>1, <2>2, <2>4
    <2>5. CASE s \notin batch
      <3>1. Attached(s) \/ UnderReview(s) \/ LastDiscarded(s)
          BY <1>1, <2>1, <2>5 DEF RowsInv, NothingLost
      <3>2. LastDiscarded(s) => LastDiscarded(s)'
          BY <1>1, <1>4, <2>5 DEF LastDiscarded
      <3> QED
          BY <1>5, <2>1, <2>2, <3>1, <3>2
    <2> QED
        BY <2>3, <2>4, <2>5
  <1> QED
      BY <1>5, <1>6, <1>7, <1>8, <1>9, <1>10, <1>11, <1>12, <1>13 DEF RowsInv

Stage == [s \in Signal |-> StageOf(s)]
Home == [s \in Signal |-> HomeOf(s)]

-----------------------------------------------------------------------------
(* Reading the rows.                                                         *)

\* What the rows say of a signal when the invariant holds.
Legible(s) ==
    /\ StageOf(s) = IF s \notin stored THEN "absent"
                    ELSE IF Attached(s) THEN "attached"
                    ELSE IF UnderReview(s) THEN "asked"
                    ELSE IF processed[s] THEN "discarded" ELSE "waiting"
    /\ s \notin stored => ~Attached(s) /\ ~UnderReview(s)
    /\ Attached(s) => ~UnderReview(s) /\ processed[s]
    /\ ~Attached(s) => HomeOf(s) = None
    /\ \A e \in Event : evidence[e][s] > 0 => HomeOf(s) = e

\* The rows tell each signal's stage and home: "doubled" and "contested" are
\* ruled out, and the event of an attached signal is unique.
LEMMA RowsAreLegible == RowsInv => \A s \in Signal : Legible(s)
  <1> SUFFICES ASSUME RowsInv, NEW s \in Signal PROVE Legible(s)
      OBVIOUS
  <1>1. UnderReview(s) => s \in stored /\ ~Attached(s)
      BY DEF RowsInv, OpenQuestionUnattached, UnderReview, Attached
  <1>2. Attached(s) => s \in stored /\ processed[s]
      BY DEF RowsInv, AttachedIsProcessed, Attached
  <1>3. AttachedOnce(s)
      BY DEF RowsInv, OneEvidencePerSignal, AttachedOnce
  <1>4. StageOf(s) = IF s \notin stored THEN "absent"
                     ELSE IF Attached(s) THEN "attached"
                     ELSE IF UnderReview(s) THEN "asked"
                     ELSE IF processed[s] THEN "discarded" ELSE "waiting"
      BY <1>1, <1>3 DEF StageOf
  <1>5. ~Attached(s) => HomeOf(s) = None
      BY DEF HomeOf
  <1>6. ASSUME NEW e \in Event, evidence[e][s] > 0
        PROVE  HomeOf(s) = e
    <2>1. Attached(s)
        BY <1>6 DEF Attached
    <2>2. HomeOf(s) = CHOOSE f \in Event : evidence[f][s] > 0
        BY <2>1 DEF HomeOf
    <2>3. HomeOf(s) \in Event /\ evidence[HomeOf(s)][s] > 0
        BY <1>6, <2>2
    <2> QED
        BY <1>3, <1>6, <2>3 DEF AttachedOnce
  <1> QED
      BY <1>1, <1>2, <1>4, <1>5, <1>6 DEF Legible

\* The same after a step that keeps the invariant.
LEMMA RowsStayLegible == RowsInv' => \A s \in Signal : Legible(s)'
  <1>1. RowsInv' => (\A s \in Signal : Legible(s))'
      BY RowsAreLegible, PTL
  <1> QED
      BY <1>1

\* A signal whose evidence, questions and, when it has neither, flag are as they
\* were is where it was.
LEMMA Unmoved ==
    ASSUME RowsInv, RowsInv', NEW s \in Signal, s \in stored <=> s \in stored',
           \A e \in Event : evidence'[e][s] = evidence[e][s],
           UnderReview(s)' <=> UnderReview(s),
           Attached(s) \/ UnderReview(s) \/ (processed'[s] <=> processed[s])
    PROVE  StageOf(s)' = StageOf(s) /\ HomeOf(s)' = HomeOf(s)
  <1>1. Legible(s) /\ Legible(s)'
      BY RowsAreLegible, RowsStayLegible
  <1>2. Attached(s)' <=> Attached(s)
      BY DEF Attached
  <1>3. StageOf(s)' = StageOf(s)
      BY <1>1, <1>2 DEF Legible
  <1>4. CASE ~Attached(s)
      BY <1>1, <1>2, <1>4 DEF Legible
  <1>5. CASE Attached(s)
    <2>1. PICK e \in Event : evidence[e][s] > 0
        BY <1>5 DEF Attached
    <2> QED
        BY <1>1, <1>3, <2>1 DEF Legible
  <1> QED
      BY <1>3, <1>4, <1>5

-----------------------------------------------------------------------------
(* Each transaction is a step of SignalFate.                                 *)

\* Where no signal moves SignalFate stutters.
LEMMA NoneMoves ==
    ASSUME \A t \in Signal : StageOf(t)' = StageOf(t) /\ HomeOf(t)' = HomeOf(t)
    PROVE  UNCHANGED Fate!fate
  BY DEF Fate!fate

\* An empty database is a world without signals.
LEMMA EmptyFate == EmptyTables => Fate!Init
  <1> SUFFICES ASSUME EmptyTables PROVE Fate!Init
      OBVIOUS
  <1>1. \A s \in Signal : s \notin stored /\ ~Attached(s)
      BY DEF EmptyTables, Attached
  <1>2. \A s \in Signal : StageOf(s) = "absent" /\ HomeOf(s) = None
      BY <1>1 DEF StageOf, HomeOf
  <1> QED
      BY <1>2 DEF Fate!Init

\* A stored item arrives.
LEMMA StoreSignalFate ==
    ASSUME RowsInv, RowsInv', NEW s \in Signal, StoreSignal(s)
    PROVE  Fate!Next
  <1>1. /\ s \notin stored /\ stored' = stored \cup {s}
        /\ processed' = [processed EXCEPT ![s] = FALSE]
        /\ UNCHANGED <<events, evidence, status, about, candidate>>
      BY DEF StoreSignal, NextIds, reviewRows
  <1>2. Legible(s) /\ Legible(s)'
      BY RowsAreLegible, RowsStayLegible
  <1>3. ~Attached(s)' /\ ~UnderReview(s)'
      BY <1>1, <1>2 DEF Legible, Attached, UnderReview
  <1>4. StageOf(s) = "absent" /\ StageOf(s)' = "waiting" /\ HomeOf(s)' = HomeOf(s)
      BY <1>1, <1>2, <1>3 DEF Legible, RowsInv, TablesTypeOK
  <1>5. ASSUME NEW t \in Signal \ {s}
        PROVE  StageOf(t)' = StageOf(t) /\ HomeOf(t)' = HomeOf(t)
    <2>1. processed'[t] = processed[t] /\ (t \in stored <=> t \in stored')
        BY <1>1 DEF RowsInv, TablesTypeOK
    <2>2. UnderReview(t)' <=> UnderReview(t)
        BY <1>1 DEF UnderReview
    <2> QED
        BY <1>1, <2>1, <2>2, Unmoved
  <1>6. /\ Stage' = [Stage EXCEPT ![s] = "waiting"] /\ Home' = Home
      BY <1>4, <1>5 DEF Stage, Home
  <1>7. Fate!Arrive(s)
      BY <1>4, <1>6 DEF Fate!Arrive, Stage, Home
  <1> QED
      BY <1>7 DEF Fate!Next

\* New text brings back a discarded signal and leaves any other where it is.
LEMMA ReviseSignalFate ==
    ASSUME RowsInv, RowsInv', NEW s \in Signal, ReviseSignal(s)
    PROVE  Fate!Next \/ UNCHANGED Fate!fate
  <1>1. /\ s \in stored
        /\ processed' = [processed EXCEPT ![s] = @ /\ Attached(s)]
        /\ UNCHANGED <<stored, events, evidence, status, about, candidate>>
      BY DEF ReviseSignal, reviewRows
  <1>2. Legible(s) /\ Legible(s)'
      BY RowsAreLegible, RowsStayLegible
  <1>3. /\ \A t \in Signal : UnderReview(t)' <=> UnderReview(t)
        /\ \A t \in Signal : Attached(t)' <=> Attached(t)
      BY <1>1 DEF UnderReview, Attached
  <1>4. ASSUME NEW t \in Signal \ {s}
        PROVE  StageOf(t)' = StageOf(t) /\ HomeOf(t)' = HomeOf(t)
    <2>1. processed'[t] = processed[t]
        BY <1>1 DEF RowsInv, TablesTypeOK
    <2> QED
        BY <1>1, <1>3, <2>1, Unmoved
  <1>5. CASE Attached(s) \/ UnderReview(s) \/ ~processed[s]
    <2>1. Attached(s) \/ UnderReview(s) \/ (processed'[s] <=> processed[s])
        BY <1>1, <1>5 DEF RowsInv, TablesTypeOK
    <2>2. StageOf(s)' = StageOf(s) /\ HomeOf(s)' = HomeOf(s)
        BY <1>1, <1>3, <2>1, Unmoved
    <2> QED
        BY <1>4, <2>2, NoneMoves
  <1>6. CASE ~Attached(s) /\ ~UnderReview(s) /\ processed[s]
    <2>1. ~processed'[s]
        BY <1>1, <1>6 DEF RowsInv, TablesTypeOK
    <2>2. /\ StageOf(s) = "discarded" /\ StageOf(s)' = "waiting"
          /\ HomeOf(s)' = HomeOf(s)
        BY <1>1, <1>2, <1>3, <1>6, <2>1 DEF Legible
    <2>3. Stage' = [Stage EXCEPT ![s] = "waiting"] /\ Home' = Home
        BY <1>4, <2>2 DEF Stage, Home
    <2>4. Fate!Return(s)
        BY <2>2, <2>3 DEF Fate!Return, Stage, Home
    <2> QED
        BY <2>4 DEF Fate!Next
  <1> QED
      BY <1>5, <1>6

\* An answer closes the one open question about its signal and no other.
LEMMA AnswerCloses ==
    ASSUME RowsInv, NEW i \in Item, NEW s \in Signal, status[i] = "pending", s = about[i],
           NEW answer, answer # "pending",
           status' = [status EXCEPT ![i] = answer], about' = about
    PROVE  /\ UnderReview(s) /\ ~UnderReview(s)'
           /\ \A t \in Signal \ {s} : UnderReview(t)' <=> UnderReview(t)
  <1>1. /\ status[i] = "pending"
        /\ \A j \in Item \ {i} : status[j] = "pending" => about[j] # about[i]
      BY OpenQuestionFacts
  <1>2. \A j \in Item : status'[j] = IF j = i THEN answer ELSE status[j]
      BY DEF RowsInv, TablesTypeOK
  <1> QED
      BY <1>1, <1>2 DEF UnderReview

\* Approving and rejecting both attach the signal of the question.
LEMMA AttachFate ==
    ASSUME RowsInv, RowsInv', NEW i \in Item, NEW e \in Event, NEW s \in Signal,
           status[i] = "pending", s = about[i],
           evidence' = AddEvidence({s}, [t \in {s} |-> e]),
           processed' = [processed EXCEPT ![s] = TRUE],
           NEW answer, answer # "pending",
           status' = [status EXCEPT ![i] = answer],
           UNCHANGED <<stored, about>>
    PROVE  Fate!Next
  <1>1. s \in stored /\ s \in Signal /\ ~Attached(s)
      BY OpenQuestionFacts
  <1>2. /\ \A f \in Event, t \in Signal :
              evidence'[f][t] = IF t = s /\ f = e THEN 1 ELSE evidence[f][t]
        /\ Attached(s)'
        /\ \A t \in Signal \ {s}, f \in Event : evidence'[f][t] = evidence[f][t]
      BY <1>1, AttachOne
  <1>3. /\ UnderReview(s) /\ ~UnderReview(s)'
        /\ \A t \in Signal \ {s} : UnderReview(t)' <=> UnderReview(t)
      BY AnswerCloses
  <1>4. Legible(s) /\ Legible(s)'
      BY <1>1, RowsAreLegible, RowsStayLegible
  <1>5. \A t \in Signal \ {s} : processed'[t] = processed[t]
      BY DEF RowsInv, TablesTypeOK
  <1>6. StageOf(s) = "asked" /\ StageOf(s)' = "attached" /\ HomeOf(s)' = e
    <2>1. evidence'[e][s] > 0
      <3>1. evidence'[e][s] = 1
          BY <1>2
      <3> QED
          BY <3>1
    <2>2. HomeOf(s)' = e
        BY <1>4, <2>1 DEF Legible
    <2>3. StageOf(s) = "asked" /\ StageOf(s)' = "attached"
        BY <1>1, <1>2, <1>3, <1>4 DEF Legible
    <2> QED
        BY <2>2, <2>3
  <1>7. ASSUME NEW t \in Signal \ {s}
        PROVE  StageOf(t)' = StageOf(t) /\ HomeOf(t)' = HomeOf(t)
      BY <1>2, <1>3, <1>5, Unmoved
  <1>8. Stage' = [Stage EXCEPT ![s] = "attached"] /\ Home' = [Home EXCEPT ![s] = e]
      BY <1>1, <1>6, <1>7 DEF Stage, Home
  <1>9. Fate!Attach(s, e)
      BY <1>1, <1>6, <1>8 DEF Fate!Attach, Stage, Home
  <1> QED
      BY <1>1, <1>9 DEF Fate!Next

\* Discarding and reclustering take the signal of the question away from the
\* reviewer, to one stage or the other.
LEMMA DetachedAnswerFate ==
    ASSUME RowsInv, RowsInv', NEW i \in Item, NEW s \in Signal, NEW flag \in BOOLEAN,
           status[i] = "pending", s = about[i],
           processed' = [processed EXCEPT ![s] = flag],
           NEW answer, answer # "pending",
           status' = [status EXCEPT ![i] = answer],
           UNCHANGED <<stored, evidence, about>>
    PROVE  Fate!Next
  <1> DEFINE stage == IF flag THEN "discarded" ELSE "waiting"
  <1>1. s \in stored /\ s \in Signal /\ ~Attached(s)
      BY OpenQuestionFacts
  <1>2. ~Attached(s)'
      BY <1>1 DEF Attached
  <1>3. /\ UnderReview(s) /\ ~UnderReview(s)'
        /\ \A t \in Signal \ {s} : UnderReview(t)' <=> UnderReview(t)
      BY AnswerCloses
  <1>4. Legible(s) /\ Legible(s)'
      BY <1>1, RowsAreLegible, RowsStayLegible
  <1>5. /\ \A t \in Signal \ {s} : processed'[t] = processed[t]
        /\ processed'[s] = flag
      BY <1>1 DEF RowsInv, TablesTypeOK
  <1>6. StageOf(s) = "asked" /\ StageOf(s)' = stage /\ HomeOf(s)' = HomeOf(s)
      BY <1>1, <1>2, <1>3, <1>4, <1>5 DEF Legible
  <1>7. ASSUME NEW t \in Signal \ {s}
        PROVE  StageOf(t)' = StageOf(t) /\ HomeOf(t)' = HomeOf(t)
      BY <1>3, <1>5, Unmoved
  <1>8. Stage' = [Stage EXCEPT ![s] = stage] /\ Home' = Home
      BY <1>1, <1>6, <1>7 DEF Stage, Home
  <1>9. Fate!Dismiss(s) \/ Fate!Return(s)
      BY <1>1, <1>6, <1>8 DEF Fate!Dismiss, Fate!Return, Stage, Home
  <1> QED
      BY <1>1, <1>9 DEF Fate!Next

\* Deleting an event releases exactly its signals.
LEMMA DropEventFate ==
    ASSUME RowsInv, RowsInv', NEW e \in Event, NEW items \in SUBSET Item, DropEvent(e, items)
    PROVE  Fate!Next
  <1>1. /\ processed' = [s \in Signal |-> processed[s] /\ evidence[e][s] = 0]
        /\ evidence' = [evidence EXCEPT ![e] = [s \in Signal |-> 0]]
        /\ UNCHANGED <<stored, status, about>>
      BY DEF DropEvent
  <1>2. \A t \in Signal : UnderReview(t)' <=> UnderReview(t)
      BY <1>1 DEF UnderReview
  <1>3. \A f \in Event, t \in Signal :
            evidence'[f][t] = IF f = e THEN 0 ELSE evidence[f][t]
      BY <1>1 DEF RowsInv, TablesTypeOK
  <1>4. ASSUME NEW t \in Signal
        PROVE  /\ HomeOf(t) = e => StageOf(t)' = "waiting" /\ HomeOf(t)' = None
               /\ HomeOf(t) # e => StageOf(t)' = StageOf(t) /\ HomeOf(t)' = HomeOf(t)
    <2>1. Legible(t) /\ Legible(t)'
        BY RowsAreLegible, RowsStayLegible
    <2>2. evidence[e][t] \in Nat /\ e # None
        BY TablesAssumption DEF RowsInv, TablesTypeOK
    <2>3. CASE evidence[e][t] > 0
      <3>1. Attached(t) /\ HomeOf(t) = e
          BY <2>1, <2>3 DEF Attached, Legible
      <3>2. \A f \in Event : f # e => ~(evidence[f][t] > 0)
          BY <2>1, <3>1 DEF Legible
      <3>3. ~Attached(t)'
          BY <1>3, <3>2 DEF Attached
      <3>4. ~processed'[t]
        <4>1. ~(evidence[e][t] = 0)
            BY <2>2, <2>3
        <4> QED
            BY <1>1, <4>1
      <3>5. t \in stored' /\ ~UnderReview(t)'
          BY <1>1, <1>2, <2>1, <3>1 DEF Legible
      <3> QED
          BY <2>1, <3>1, <3>3, <3>4, <3>5 DEF Legible
    <2>4. CASE ~(evidence[e][t] > 0)
      <3>1. evidence[e][t] = 0
          BY <2>2, <2>4
      <3>2. HomeOf(t) # e
        <4>1. CASE Attached(t)
          <5>1. PICK f \in Event : evidence[f][t] > 0
              BY <4>1 DEF Attached
          <5> QED
              BY <2>1, <2>4, <5>1 DEF Legible
        <4>2. CASE ~Attached(t)
            BY <2>1, <2>2, <4>2 DEF Legible
        <4> QED
            BY <4>1, <4>2
      <3>3. \A f \in Event : evidence'[f][t] = evidence[f][t]
          BY <1>3, <3>1
      <3>4. processed'[t] <=> processed[t]
          BY <1>1, <3>1
      <3> QED
          BY <1>1, <1>2, <3>2, <3>3, <3>4, Unmoved
    <2> QED
        BY <2>3, <2>4
  <1>5. Fate!Release(e)
      BY <1>4 DEF Fate!Release
  <1> QED
      BY <1>5 DEF Fate!Next

\* A pass takes waiting signals: each is attached or asked about, and what it
\* only flags stays where it is.
LEMMA PassFate ==
    ASSUME RowsInv, RowsInv', NEW batch \in SUBSET Unprocessed, PassOver(batch)
    PROVE  Fate!Next
  <1>1. PICK scored, attaching, opened, asks, target :
            PassEffect(batch, scored, attaching, opened, asks, target)
      BY PassHasEffect
  <1>2. /\ scored \subseteq stored /\ stored \subseteq Signal /\ stored' = stored
        /\ attaching \subseteq scored
        /\ \A s \in scored : ~Attached(s) /\ ~UnderReview(s) /\ ~processed[s]
        /\ \A i \in opened : status[i] = "unused" /\ asks[i] \in scored \ attaching
        /\ opened \subseteq Item /\ target \in [scored -> Event]
      BY <1>1 DEF PassEffect, PassWrites, Unprocessed, Created, RowsInv, TablesTypeOK
  <1>3. \A e \in Event, s \in Signal :
            evidence'[e][s] = IF s \in attaching /\ target[s] = e
                              THEN 1 ELSE evidence[e][s]
    <2>1. /\ attaching \in SUBSET Signal
          /\ \A s \in attaching : ~Attached(s) /\ target[s] \in Event
        BY <1>2
    <2>2. evidence' = AddEvidence(attaching, target)
        BY <1>1 DEF PassEffect, PassWrites
    <2>3. evidence \in [Event -> [Signal -> Nat]]
        BY DEF RowsInv, TablesTypeOK
    <2>4. \A e \in Event, s \in attaching : evidence[e][s] = 0
        BY <2>1, <2>3 DEF Attached
    <2>5. \A e \in Event, s \in Signal :
              evidence'[e][s] = IF s \in attaching /\ target[s] = e
                                THEN evidence[e][s] + 1 ELSE evidence[e][s]
        BY <2>1, <2>2, <2>3, AddEvidenceEffect
    <2> QED
        BY <2>4, <2>5
  <1>4. \A i \in Item : /\ status'[i] = IF i \in opened THEN "pending" ELSE status[i]
                        /\ about'[i] = IF i \in opened THEN asks[i] ELSE about[i]
      BY <1>1 DEF PassEffect, PassWrites
  <1>5. ASSUME NEW s \in attaching
        PROVE  StageOf(s) = "waiting" /\ StageOf(s)' = "attached" /\ HomeOf(s)' = target[s]
    <2>1. s \in Signal /\ target[s] \in Event /\ Legible(s) /\ Legible(s)'
        BY <1>2, RowsAreLegible, RowsStayLegible
    <2>2. evidence'[target[s]][s] > 0
        BY <1>3, <2>1
    <2>3. Attached(s)' /\ HomeOf(s)' = target[s]
        BY <2>1, <2>2 DEF Attached, Legible
    <2> QED
        BY <1>2, <2>1, <2>3 DEF Legible
  <1>6. ASSUME NEW s \in scored \ attaching
        PROVE  /\ StageOf(s) = "waiting" /\ StageOf(s)' = "asked"
               /\ HomeOf(s)' = HomeOf(s)
    <2>1. s \in Signal /\ Legible(s) /\ Legible(s)'
        BY <1>2, RowsAreLegible, RowsStayLegible
    <2>2. PICK i \in opened : asks[i] = s
        BY <1>1 DEF PassEffect, PassWrites
    <2>3. UnderReview(s)'
        BY <1>2, <1>4, <2>2 DEF UnderReview
    <2>4. ~Attached(s)'
        BY <2>1, <2>3 DEF Legible
    <2> QED
        BY <1>2, <2>1, <2>3, <2>4 DEF Legible
  <1>7. ASSUME NEW s \in Signal \ scored
        PROVE  StageOf(s)' = StageOf(s) /\ HomeOf(s)' = HomeOf(s)
    <2>1. \A e \in Event : evidence'[e][s] = evidence[e][s]
        BY <1>2, <1>3
    <2>2. UnderReview(s)' <=> UnderReview(s)
        BY <1>2, <1>4 DEF UnderReview
    <2>3. Attached(s) \/ UnderReview(s) \/ (processed'[s] <=> processed[s])
        BY <1>1 DEF PassEffect, PassWrites
    <2> QED
        BY <1>2, <2>1, <2>2, <2>3, Unmoved
  <1> DEFINE asked == scored \ attaching
             where == [s \in attaching |-> target[s]]
  <1>8. /\ attaching \in SUBSET {s \in Signal : Stage[s] = "waiting"}
        /\ asked \in SUBSET {s \in Signal : Stage[s] = "waiting"}
        /\ where \in [attaching -> Event] /\ attaching \cap asked = {}
      BY <1>2, <1>5, <1>6 DEF Stage
  <1>9. /\ Stage' = [s \in Signal |-> IF s \in attaching THEN "attached"
                                      ELSE IF s \in asked THEN "asked" ELSE Stage[s]]
        /\ Home' = [s \in Signal |-> IF s \in attaching THEN where[s] ELSE Home[s]]
      BY <1>5, <1>6, <1>7 DEF Stage, Home
  <1> HIDE DEF asked, where
  <1>10. Fate!Take
    <2> SUFFICES \E a, b \in SUBSET {s \in Signal : Stage[s] = "waiting"} :
                 \E t \in [a -> Event] :
                    /\ a \cap b = {}
                    /\ Stage' = [s \in Signal |-> IF s \in a THEN "attached"
                                                  ELSE IF s \in b THEN "asked" ELSE Stage[s]]
                    /\ Home' = [s \in Signal |-> IF s \in a THEN t[s] ELSE Home[s]]
        BY DEF Fate!Take, Stage, Home
    <2> USE <1>8
    <2> WITNESS attaching \in SUBSET {s \in Signal : Stage[s] = "waiting"},
                asked \in SUBSET {s \in Signal : Stage[s] = "waiting"}
    <2> WITNESS where \in [attaching -> Event]
    <2> QED
        BY <1>9
  <1> QED
      BY <1>10 DEF Fate!Next

\* Rows that are as they were tell the same fate.
LEMMA SameRowsFate ==
    ASSUME UNCHANGED <<stored, processed, evidence, status, about>>
    PROVE  UNCHANGED Fate!fate
  <1>1. \A s \in Signal : /\ Attached(s)' <=> Attached(s)
                          /\ UnderReview(s)' <=> UnderReview(s)
                          /\ AttachedOnce(s)' <=> AttachedOnce(s)
      BY DEF Attached, UnderReview, AttachedOnce
  <1>2. \A s \in Signal : StageOf(s)' = StageOf(s) /\ HomeOf(s)' = HomeOf(s)
      BY <1>1 DEF StageOf, HomeOf
  <1> QED
      BY <1>2, NoneMoves

\* A pass opens new rows only; it attaches only signals that were unattached.
LEMMA PassKeeps ==
  ASSUME RowsInv, NEW batch \in SUBSET Unprocessed, PassOver(batch)
  PROVE  /\ \A i \in Item : status[i] # "unused" =>
               status'[i] = status[i] /\ about'[i] = about[i]
         /\ \A e \in Event, s \in Signal :
               evidence[e][s] > 0 => evidence'[e][s] = evidence[e][s]
  <1>1. PICK scored, attaching, opened, asks, target :
            PassEffect(batch, scored, attaching, opened, asks, target)
      BY PassHasEffect
  <1>2. \A i \in Item : status[i] # "unused" => status'[i] = status[i] /\ about'[i] = about[i]
      BY <1>1 DEF PassEffect, PassWrites, Created
  <1>3. \A s \in attaching : ~Attached(s)
      BY <1>1 DEF PassEffect, PassWrites
  <1>4. \A e \in Event, s \in Signal :
            evidence'[e][s] = IF s \in attaching /\ target[s] = e
                              THEN evidence[e][s] + 1 ELSE evidence[e][s]
      BY <1>1, AddEvidenceEffect DEF PassEffect, PassWrites, RowsInv, TablesTypeOK
  <1>5. \A e \in Event, s \in Signal :
            evidence[e][s] > 0 => evidence'[e][s] = evidence[e][s]
      BY <1>3, <1>4 DEF Attached
  <1> QED
      BY <1>2, <1>5

-----------------------------------------------------------------------------
(* Every transaction.                                                       *)

\* The invariant is about the rows only.
LEMMA SameRowsInv == ASSUME RowsInv, UNCHANGED rows PROVE RowsInv'
  <1> USE DEF rows, reviewRows
  <1>1. TablesTypeOK'
      BY DEF RowsInv, TablesTypeOK
  <1>2. OneEvidencePerSignal' /\ References' /\ ApprovalHolds' /\ OpenIsNewest'
      BY DEF RowsInv, OneEvidencePerSignal, References, ApprovalHolds, OpenIsNewest
  <1>3. OpenQuestionUnattached' /\ RowsAreAboutSignals' /\ AttachedIsProcessed'
      BY DEF RowsInv, OpenQuestionUnattached, RowsAreAboutSignals, AttachedIsProcessed
  <1>4. NothingLost'
      BY DEF RowsInv, NothingLost, Attached, UnderReview, LastDiscarded
  <1> QED
      BY <1>1, <1>2, <1>3, <1>4 DEF RowsInv

\* Every transaction keeps the invariant of the rows.
LEMMA RowStepInv == ASSUME RowsInv, RowStep \/ UNCHANGED rows PROVE RowsInv'
  <1>1. CASE \E s \in Signal : StoreSignal(s) \/ ReviseSignal(s)
      BY <1>1, StoreSignalInv, ReviseSignalInv
  <1>2. CASE \E batch \in SUBSET Unprocessed : PassOver(batch)
      BY <1>2, PassInv
  <1>3. CASE \E i \in Item, e \in Event, answer \in {"approved", "rejected"} :
                AnswerWithEvent(i, e, answer)
      BY <1>3, AnswerWithEventInv
  <1>4. CASE \E i \in Item, answer \in {"discarded", "reclustered"} :
                AnswerWithoutEvent(i, answer)
      BY <1>4, DiscardInv, ReclusterInv
  <1>5. CASE \E e \in Event : AddEvent(e)
      BY <1>5, AddEventInv
  <1>6. CASE \E e \in Event, items \in SUBSET Item : DropEvent(e, items)
      BY <1>6, DropEventInv
  <1>7. CASE UNCHANGED rows
      BY <1>7, SameRowsInv
  <1> QED
      BY <1>1, <1>2, <1>3, <1>4, <1>5, <1>6, <1>7 DEF RowStep

\* Every transaction is a step of SignalFate or moves no signal.
LEMMA RowStepFate ==
    ASSUME RowsInv, RowsInv', RowStep \/ UNCHANGED rows
    PROVE  Fate!Next \/ UNCHANGED Fate!fate
  <1>1. CASE \E s \in Signal : StoreSignal(s) \/ ReviseSignal(s)
      BY <1>1, StoreSignalFate, ReviseSignalFate
  <1>2. CASE \E batch \in SUBSET Unprocessed : PassOver(batch)
      BY <1>2, PassFate
  <1>3. ASSUME NEW i \in Item, NEW e \in Event, NEW answer \in {"approved", "rejected"},
               AnswerWithEvent(i, e, answer)
        PROVE  Fate!Next
    <2>1. PICK s \in Signal : s = about[i]
        BY <1>3, OpenQuestionFacts DEF AnswerWithEvent
    <2> QED
        BY <1>3, <2>1, AttachFate DEF AnswerWithEvent
  <1>4. ASSUME NEW i \in Item, NEW answer \in {"discarded", "reclustered"},
               AnswerWithoutEvent(i, answer)
        PROVE  Fate!Next
    <2>1. PICK s \in Signal : s = about[i]
        BY <1>4, OpenQuestionFacts DEF AnswerWithoutEvent
    <2>2. PICK flag \in BOOLEAN : flag = (answer = "discarded")
        OBVIOUS
    <2> QED
        BY <1>4, <2>1, <2>2, DetachedAnswerFate DEF AnswerWithoutEvent
  <1>5. ASSUME NEW e \in Event, AddEvent(e) PROVE UNCHANGED Fate!fate
      BY <1>5, SameRowsFate DEF AddEvent, reviewRows
  <1>6. CASE \E e \in Event, items \in SUBSET Item : DropEvent(e, items)
      BY <1>6, DropEventFate
  <1>7. CASE UNCHANGED rows
      BY <1>7, SameRowsFate DEF rows, reviewRows
  <1> QED
      BY <1>1, <1>2, <1>3, <1>4, <1>5, <1>6, <1>7 DEF RowStep

\* No transaction changes an answer, and only dropping its event takes evidence away.
LEMMA RowStepKeeps ==
    ASSUME RowsInv, RowStep \/ UNCHANGED rows
    PROVE  /\ \A i \in Item : status[i] \notin {"unused", "pending"} =>
                 status'[i] = status[i] /\ about'[i] = about[i]
           /\ \A e \in events \cap events', s \in Signal :
                 evidence[e][s] > 0 => evidence'[e][s] = evidence[e][s]
  <1> DEFINE Answers == \A i \in Item : status[i] \notin {"unused", "pending"} =>
                            status'[i] = status[i] /\ about'[i] = about[i]
             Evidence == \A e \in events \cap events', s \in Signal :
                             evidence[e][s] > 0 => evidence'[e][s] = evidence[e][s]
  <1>0. /\ events \subseteq Event /\ evidence \in [Event -> [Signal -> Nat]]
        /\ status \in [Item -> Status]
      BY DEF RowsInv, TablesTypeOK
  <1>1. CASE \E s \in Signal : StoreSignal(s) \/ ReviseSignal(s)
      BY <1>1 DEF StoreSignal, ReviseSignal, reviewRows
  <1>2. CASE \E batch \in SUBSET Unprocessed : PassOver(batch)
      BY <1>0, <1>2, PassKeeps
  <1>3. ASSUME NEW i \in Item, NEW e \in Event, NEW answer \in {"approved", "rejected"},
               AnswerWithEvent(i, e, answer)
        PROVE  Answers /\ Evidence
    <2>1. status[i] = "pending" /\ about[i] \in Signal /\ ~Attached(about[i])
        BY <1>3, OpenQuestionFacts DEF AnswerWithEvent
    <2>2. \A f \in Event, s \in Signal : s # about[i] => evidence'[f][s] = evidence[f][s]
      <3>1. evidence' = AddEvidence({about[i]}, [s \in {about[i]} |-> e])
          BY <1>3 DEF AnswerWithEvent
      <3> QED
          BY <3>1, <1>0, AddEvidenceEffect
    <2>3. Evidence
        BY <1>0, <2>1, <2>2 DEF Attached
    <2>4. Answers
        BY <1>0, <1>3, <2>1 DEF AnswerWithEvent
    <2> QED
        BY <2>3, <2>4
  <1>4. ASSUME NEW i \in Item, NEW answer \in {"discarded", "reclustered"},
               AnswerWithoutEvent(i, answer)
        PROVE  Answers /\ Evidence
      BY <1>0, <1>4 DEF AnswerWithoutEvent
  <1>5. CASE \E e \in Event : AddEvent(e)
      BY <1>5 DEF AddEvent, reviewRows
  <1>6. CASE \E e \in Event, items \in SUBSET Item : DropEvent(e, items)
      BY <1>0, <1>6 DEF DropEvent
  <1>7. CASE UNCHANGED rows
      BY <1>7 DEF rows, reviewRows
  <1> QED
      BY <1>1, <1>2, <1>3, <1>4, <1>5, <1>6, <1>7 DEF RowStep
=============================================================================
