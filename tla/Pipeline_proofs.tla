--------------------------- MODULE Pipeline_proofs --------------------------
(* The safety of the pipeline for every number of signals, events, review   *)
(* items and batch sizes, and that it implements SignalFate: each of its    *)
(* transactions is one of those of Tables_proofs.                           *)
EXTENDS Pipeline, Tables_proofs

-----------------------------------------------------------------------------
(* The inductive invariant.                                                 *)

IInv == RowsInv /\ reclustering \subseteq Item

\* The invariant holds of the empty database.
LEMMA InitIInv == Init => IInv
  BY EmptyInv DEF Init, IInv

\* A pass over its batch is a pass over unprocessed signals.
LEMMA PassIsRowStep == ASSUME NEW limit \in Limit, Pass(limit) PROVE RowStep
  <1>1. Batch(limit) \in SUBSET Unprocessed
      BY DEF Batch
  <1>2. PassOver(Batch(limit))
      BY DEF Pass, PassOver
  <1> QED
      BY <1>1, <1>2 DEF RowStep

\* Every step of the pipeline is a transaction on the rows or leaves them alone.
LEMMA NextIsRowStep == ASSUME IInv, [Next]_vars PROVE RowStep \/ UNCHANGED rows
  <1>1. events \subseteq Event
      BY DEF IInv, RowsInv, TablesTypeOK
  <1>2. ASSUME NEW s \in Signal, CreateSignal(s) \/ UpdateSignal(s) PROVE RowStep
      BY <1>2 DEF CreateSignal, UpdateSignal, RowStep, StoreSignal, ReviseSignal
  <1>3. ASSUME NEW limit \in Limit, Cluster(limit) PROVE RowStep
      BY <1>3, PassIsRowStep DEF Cluster
  <1>4. ASSUME NEW i \in Item, NEW e \in Event, ApproveLink(i, e) \/ Reject(i, e)
        PROVE  RowStep
    <2>1. ApproveLink(i, e) => AnswerWithEvent(i, e, "approved")
        BY DEF ApproveLink, Resolvable, AnswerWithEvent
    <2>2. Reject(i, e) => AnswerWithEvent(i, e, "rejected")
        BY DEF Reject, Resolvable, AnswerWithEvent
    <2> QED
        BY <1>4, <2>1, <2>2 DEF RowStep
  <1>5. ASSUME NEW i \in Item, Discard(i) \/ Recluster(i) PROVE RowStep
    <2>1. Discard(i) => AnswerWithoutEvent(i, "discarded")
        BY DEF Discard, Resolvable, AnswerWithoutEvent
    <2>2. Recluster(i) => AnswerWithoutEvent(i, "reclustered")
        BY DEF Recluster, Resolvable, AnswerWithoutEvent
    <2> QED
        BY <1>5, <2>1, <2>2 DEF RowStep
  <1>6. ASSUME NEW i \in Item, ReclusterPass(i) PROVE RowStep \/ UNCHANGED rows
      BY <1>6, PassIsRowStep, TablesAssumption DEF ReclusterPass
  <1>7. ASSUME NEW e \in Event, CreateEvent(e) PROVE RowStep
      BY <1>7 DEF CreateEvent, AddEvent, RowStep
  <1>8. ASSUME NEW e \in Event, DeleteEvent(e) PROVE RowStep
    <2>1. DropEvent(e, {i \in Item : candidate[i] = e})
        BY <1>8 DEF DeleteEvent, DropEvent
    <2> QED
        BY <2>1 DEF RowStep
  <1>9. CASE Restart \/ UNCHANGED vars
      BY <1>9 DEF Restart, vars
  <1> QED
      BY <1>2, <1>3, <1>4, <1>5, <1>6, <1>7, <1>8, <1>9 DEF Next

\* The handlers in flight are those of items.
LEMMA NextKeepsHandlers ==
    ASSUME IInv, [Next]_vars PROVE reclustering' \subseteq Item
  BY DEF IInv, Next, vars, CreateSignal, UpdateSignal, Cluster, ApproveLink, Reject,
         Discard, Recluster, ReclusterPass, CreateEvent, DeleteEvent, Restart

\* Every transaction keeps the invariant.
LEMMA NextIInv == IInv /\ [Next]_vars => IInv'
  BY NextIsRowStep, RowStepInv, NextKeepsHandlers DEF IInv

\* The invariant always holds.
LEMMA SpecIInv == Spec => []IInv
  BY InitIInv, NextIInv, PTL DEF Spec

-----------------------------------------------------------------------------
(* What always holds of the rows.                                           *)

\* Every row keeps its type.
THEOREM PipelineTypes == Spec => []TypeOK
  <1>1. IInv => TypeOK
      BY DEF IInv, RowsInv, TypeOK
  <1> QED
      BY <1>1, SpecIInv, PTL

\* No mix of passes, text updates, reviews and deletes attaches a signal twice.
THEOREM SignalsAttachOnce == Spec => []OneEvidencePerSignal
  <1>1. IInv => OneEvidencePerSignal
      BY DEF IInv, RowsInv
  <1> QED
      BY <1>1, SpecIInv, PTL

\* A signal has at most one open question, and none while it is evidence.
THEOREM QuestionsAreSingle == Spec => [](OneQuestionPerSignal /\ OpenQuestionUnattached)
  <1>1. IInv => OneQuestionPerSignal /\ OpenQuestionUnattached
      BY OneQuestionFollows DEF IInv, RowsInv
  <1> QED
      BY <1>1, SpecIInv, PTL

\* No signal is lost, wherever the process stops between two transactions.
THEOREM NoSignalIsLost == Spec => []NothingLost
  <1>1. IInv => NothingLost
      BY DEF IInv, RowsInv
  <1> QED
      BY <1>1, SpecIInv, PTL

\* The evidence of an event is never in the pool.
THEOREM AttachedStaysProcessed == Spec => []AttachedIsProcessed
  <1>1. IInv => AttachedIsProcessed
      BY DEF IInv, RowsInv
  <1> QED
      BY <1>1, SpecIInv, PTL

\* Evidence and review items refer to live events.
THEOREM EvidenceIsConsistent == Spec => []References
  <1>1. IInv => References
      BY DEF IInv, RowsInv
  <1> QED
      BY <1>1, SpecIInv, PTL

\* The event a reviewer approved keeps the signal until it is deleted.
THEOREM ApprovalsStand == Spec => []ApprovalHolds
  <1>1. IInv => ApprovalHolds
      BY DEF IInv, RowsInv
  <1> QED
      BY <1>1, SpecIInv, PTL

-----------------------------------------------------------------------------
(* What a step may never do, and what it may.                               *)

\* An answered question keeps its answer and its signal.
THEOREM AnswersStand == Spec => AnswersAreFinal
  <1> DEFINE Final == \A i \in Item : status[i] \notin {"unused", "pending"} =>
                          status'[i] = status[i] /\ about'[i] = about[i]
  <1>1. IInv /\ [Next]_vars => [Final]_vars
      BY NextIsRowStep, RowStepKeeps DEF IInv
  <1> QED
      BY <1>1, SpecIInv, PTL DEF Spec, AnswersAreFinal

\* A signal leaves its event only when the event is deleted.
THEOREM EvidenceStands == Spec => EvidenceIsAuthoritative
  <1> DEFINE Kept == \A e \in events \cap events', s \in Signal :
                         evidence[e][s] > 0 => evidence'[e][s] = evidence[e][s]
  <1>1. IInv /\ [Next]_vars => [Kept]_vars
      BY NextIsRowStep, RowStepKeeps DEF IInv
  <1> QED
      BY <1>1, SpecIInv, PTL DEF Spec, EvidenceIsAuthoritative

\* The pipeline implements SignalFate: no mix of ingestion, passes, reviews,
\* deletes and restarts drops a signal, attaches it twice, moves it from event to
\* event, or asks about it while it is attached.
THEOREM PipelineKeepsPromise == Spec => KeepsPromise
  <1>1. IInv /\ IInv' /\ [Next]_vars => [Fate!Next]_(Fate!fate)
      BY NextIsRowStep, RowStepFate DEF IInv
  <1>2. Init => Fate!Init
      BY EmptyFate DEF Init
  <1> QED
      BY <1>1, <1>2, SpecIInv, PTL DEF Spec, KeepsPromise, Fate!Spec
=============================================================================
