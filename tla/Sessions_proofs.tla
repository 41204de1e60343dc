--------------------------- MODULE Sessions_proofs --------------------------
(* Sessions for every number of processes, sessions and rows: passes exclude *)
(* each other and foreign keys hold however requests overlap; kept apart as  *)
(* Apart says, the sessions lose no signal and implement SignalFate.         *)
EXTENDS Apart, Tables_proofs

USE DEF Status

-----------------------------------------------------------------------------
(* Cluster passes exclude each other.                                       *)

\* A session between reading its batch and its commit holds the advisory lock.
\* The lock alone is enough: a session gives it back only as it leaves the pass.
PassHoldsLock ==
    /\ pc \in [Session -> PC]
    /\ \A w \in Session : pc[w] \in InPass => advisory = w

\* No session is in a pass at first.
LEMMA InitHoldsLock == Init => PassHoldsLock
  BY DEF Init, PassHoldsLock, PC, InPass

\* A step of a session that is in no pass before and after, and leaves the
\* advisory lock alone, keeps the invariant.
LEMMA OutsideHoldsLock ==
  ASSUME PassHoldsLock, NEW w \in Session, NEW label \in PC \ InPass,
         Goto(w, label), UNCHANGED advisory
  PROVE  PassHoldsLock'
  BY DEF PassHoldsLock, Goto

\* A step within a pass keeps it.
LEMMA InsideHoldsLock ==
  ASSUME PassHoldsLock, NEW w \in Session, NEW label \in PC,
         pc[w] \in InPass, Goto(w, label), UNCHANGED advisory
  PROVE  PassHoldsLock'
  BY DEF PassHoldsLock, Goto

\* So does a step that gives the lock back as its session leaves the pass, or
\* has left it.
LEMMA ReleasingHoldsLock ==
  ASSUME PassHoldsLock, NEW w \in Session, NEW label \in PC \ InPass,
         Goto(w, label), advisory = w, advisory' = None
  PROVE  PassHoldsLock'
  BY DEF PassHoldsLock, Goto

\* Every step keeps the invariant.
LEMMA NextHoldsLock == PassHoldsLock /\ [Next]_vars => PassHoldsLock'
  <1> SUFFICES ASSUME PassHoldsLock, [Next]_vars PROVE PassHoldsLock'
      OBVIOUS
  <1> USE DEF PC, InPass
  <1>1. ASSUME NEW w \in Session, Begin(w) PROVE PassHoldsLock'
      BY <1>1, OutsideHoldsLock
      DEF Begin, StartPass, ReadItem, ReadSignal, LoadSignal, ReadNoSignal, ReadEvent
  <1>2. ASSUME NEW w \in Session, TakeAdvisory(w) PROVE PassHoldsLock'
      BY <1>2, SessionsAssumption DEF TakeAdvisory, PassHoldsLock, Goto
  <1>3. ASSUME NEW w \in Session,
               ReadLinked(w) \/ ReadPending(w) \/ ReadBatch(w)
        PROVE  PassHoldsLock'
      BY <1>3, InsideHoldsLock DEF ReadLinked, ReadPending, ReadBatch
  <1>4. ASSUME NEW w \in Session, CommitPass(w) PROVE PassHoldsLock'
      BY <1>4, ReleasingHoldsLock DEF CommitPass, PassHoldsLock
  <1>5. ASSUME NEW w \in Session, Close(w) PROVE PassHoldsLock'
      <2>1. CASE advisory = w
          BY <1>5, <2>1, ReleasingHoldsLock DEF Close, Finish
      <2>2. CASE advisory # w
          BY <1>5, <2>2, OutsideHoldsLock DEF Close, Finish
      <2> QED
          BY <2>1, <2>2
  <1>6. ASSUME NEW w \in Session,
               TakeThreadLock(w) \/ Unlock(w) \/ CheckEvidence(w)
               \/ CommitUpdate(w) \/ CommitDelete(w)
        PROVE  PassHoldsLock'
      BY <1>6, OutsideHoldsLock
      DEF TakeThreadLock, Unlock, CheckEvidence, CommitUpdate, CommitDelete, Finish
  <1>7. ASSUME NEW w \in Session, NEW i \in Item,
               CommitDiscard(w, i) \/ CommitRecluster(w, i)
        PROVE  PassHoldsLock'
      BY <1>7, OutsideHoldsLock DEF CommitDiscard, CommitRecluster, Finish
  <1>8. ASSUME NEW w \in Session, NEW i \in Item, NEW e \in Event,
               CommitApprove(w, i, e) \/ CommitReject(w, i, e)
        PROVE  PassHoldsLock'
      BY <1>8, OutsideHoldsLock DEF CommitApprove, CommitReject, Finish
  <1>9. ASSUME NEW w \in Session, Abort(w) PROVE PassHoldsLock'
      BY <1>9, OutsideHoldsLock DEF Abort
  <1>10. ASSUME NEW p \in Process, Crash(p) PROVE PassHoldsLock'
      <2>1. \A w \in Session : pc'[w] = IF processOf[w] = p THEN "idle" ELSE pc[w]
          BY <1>10 DEF Crash
      <2>2. ASSUME NEW w \in Session, pc'[w] \in InPass PROVE advisory' = w
          <3>1. processOf[w] # p /\ pc[w] \in InPass
              BY <2>1, <2>2
          <3>2. advisory = w
              BY <3>1 DEF PassHoldsLock
          <3> QED
              BY <1>10, <3>1, <3>2 DEF Crash
      <2>3. pc' \in [Session -> PC]
          BY <1>10 DEF Crash, PassHoldsLock
      <2> QED
          BY <2>2, <2>3 DEF PassHoldsLock
  <1>11. ASSUME UNCHANGED <<pc, advisory>> PROVE PassHoldsLock'
      BY <1>11 DEF PassHoldsLock
  <1>12. ASSUME NEW w \in Session, NEW s \in Signal,
                InsertSignal(w, s) \/ LoseInsert(w, s)
         PROVE  PassHoldsLock'
      BY <1>12, OutsideHoldsLock DEF InsertSignal, LoseInsert, LoadSignal, Finish
  <1>13. CASE Next
      <2>1. ASSUME NEW e \in Event, CreateEvent(e) PROVE PassHoldsLock'
          BY <2>1, <1>11 DEF CreateEvent, sessionVars
      <2>2. ASSUME NEW w \in Session, Proceed(w) PROVE PassHoldsLock'
          BY <2>2, <1>2, <1>3, <1>4, <1>5, <1>6, <1>7, <1>8, <1>12 DEF Proceed
      <2> QED
          BY <1>13, <1>1, <1>9, <1>10, <2>1, <2>2 DEF Next
  <1>14. CASE UNCHANGED vars
      BY <1>14, <1>11 DEF vars, sessionVars
  <1> QED
      BY <1>13, <1>14

\* At most one pass, over all processes, is between its first read and its
\* commit.
THEOREM PassesExclude == Spec => []OnePassAtATime
  <1>1. PassHoldsLock => OnePassAtATime
      BY DEF PassHoldsLock, OnePassAtATime
  <1> QED
      BY <1>1, InitHoldsLock, NextHoldsLock, PTL DEF Spec
-----------------------------------------------------------------------------
(* Types and foreign keys, however requests overlap.                        *)

Loads ==
    [signals : SUBSET Signal, flagged : SUBSET Signal, skip : SUBSET Signal,
     items : SUBSET Item, event : Event \cup {None},
     joins : {<<>>} \cup [Signal -> Nat], others : SUBSET Signal]

\* The rows in themselves: the evidence and the questions a session may load are
\* about stored signals.
RowsFit ==
    /\ TablesTypeOK
    /\ References
    /\ \A e \in Event, s \in Signal : evidence[e][s] > 0 => s \in stored
    /\ \A i \in Item : status[i] = "pending" => about[i] \in stored

Typed == TypeOK /\ RowsFit /\ loaded \in [Session -> Loads]

\* What a session may hold.
Fits(l) ==
    /\ l \in Loads
    /\ l.signals \cup l.others \subseteq stored
    /\ l.flagged \cup l.skip \subseteq l.signals

LEMMA NothingFits == Fits(Nothing)
  BY DEF Fits, Loads, Nothing

LEMMA InitTyped == Init => Typed
  <1> SUFFICES ASSUME Init PROVE Typed
      OBVIOUS
  <1>1. RowsFit
      BY EmptyInv DEF Init, RowsInv, RowsFit, EmptyTables, AttachedIsProcessed
  <1>2. TypeOK
      BY <1>1, NothingFits, SessionsAssumption DEF Init, RowsFit, TypeOK, PC, Nothing
  <1> QED
      BY <1>1, <1>2, NothingFits DEF Init, Typed, Fits

\* A step of one session: its rows fit, and so does what it holds afterwards.
LEMMA SessionKeepsTypes ==
  ASSUME Typed, NEW w \in Session, NEW label \in PC, Goto(w, label), RowsFit',
         stored \subseteq stored',
         \/ UNCHANGED loaded
         \/ \E l : Fits(l) /\ Load(w, l),
         threadLock' \in [Process -> Session \cup {None}],
         advisory' \in Session \cup {None}
  PROVE  Typed'
  <1> DEFINE Held(v) == /\ loaded[v] \in Loads
                        /\ loaded[v].signals \cup loaded[v].others \subseteq stored
                        /\ loaded[v].flagged \cup loaded[v].skip \subseteq loaded[v].signals
  <1>1. \A v \in Session : Held(v) /\ loaded[v].items \subseteq Item
                           /\ loaded[v].event \in Event \cup {None}
      BY DEF Typed, TypeOK, Loads
  <1>2. loaded' \in [Session -> Loads] /\ \A v \in Session : Held(v)'
    <2>1. CASE UNCHANGED loaded
        BY <1>1, <2>1 DEF Typed
    <2>2. CASE \E l : Fits(l) /\ Load(w, l)
      <3>1. PICK l : Fits(l) /\ Load(w, l)
          BY <2>2
      <3>2. \A v \in Session : loaded'[v] = IF v = w THEN l ELSE loaded[v]
          BY <3>1 DEF Load, Typed
      <3>3. loaded' \in [Session -> Loads]
          BY <3>1 DEF Load, Typed, Fits
      <3> QED
          BY <1>1, <3>1, <3>2, <3>3 DEF Fits
    <2> QED
        BY <2>1, <2>2
  <1>3. pc' \in [Session -> PC]
      BY DEF Goto, Typed, TypeOK
  <1>4. \A v \in Session : loaded'[v].items \subseteq Item /\ loaded'[v].event \in Event \cup {None}
      BY <1>2 DEF Loads
  <1> QED
      BY <1>2, <1>3, <1>4 DEF Typed, TypeOK, RowsFit

\* Reads leave the rows alone.
LEMMA SameRowsFit == RowsFit /\ UNCHANGED rows => RowsFit'
  BY DEF RowsFit, rows, reviewRows, TablesTypeOK, References

\* Evidence goes to events that exist.
LEMMA EvidenceFits ==
  ASSUME RowsFit, NEW linked \in SUBSET stored, NEW target,
         \A s \in linked : target[s] \in events',
         evidence' = AddEvidence(linked, target), events \subseteq events'
  PROVE  /\ evidence' \in [Event -> [Signal -> Nat]]
         /\ \A e \in Event, s \in Signal :
               evidence'[e][s] > 0 => e \in events' /\ s \in stored
  BY AddEvidenceEffect DEF RowsFit, TablesTypeOK, References

\* So does what a pass writes, whatever it has read.
LEMMA PassFits ==
  ASSUME RowsFit, NEW batch \in SUBSET stored, NEW scored \in SUBSET batch,
         WritePass(batch, scored)
  PROVE  RowsFit' /\ UNCHANGED stored
  <1>1. PICK attaching, opened, asks, target :
            PassWrites(batch, scored, attaching, opened, asks, target)
      BY WritePassWrites DEF RowsFit, TablesTypeOK
  <1> USE DEF PassWrites
  <1>2. /\ evidence' \in [Event -> [Signal -> Nat]]
        /\ \A e \in Event, s \in Signal :
              evidence'[e][s] > 0 => e \in events' /\ s \in stored
      BY <1>1, EvidenceFits
  <1>3. \A i \in opened : asks[i] \in stored /\ asks[i] \in Signal
                          /\ target[asks[i]] \in events' /\ target[asks[i]] \in Event
      BY <1>1 DEF RowsFit, TablesTypeOK
  <1>4. TablesTypeOK'
      BY <1>1, <1>2, <1>3 DEF RowsFit, TablesTypeOK
  <1>5. \A i \in Item : /\ candidate'[i] \in events' \cup {None}
                        /\ status'[i] = "pending" => about'[i] \in stored'
      BY <1>1, <1>3 DEF RowsFit, References
  <1> QED
      BY <1>1, <1>2, <1>4, <1>5 DEF RowsFit, References

LEMMA FlushedFits ==
  ASSUME processed \in [Signal -> BOOLEAN], NEW w, NEW assigned, NEW value \in BOOLEAN
  PROVE  Flushed(w, assigned, value) \in [Signal -> BOOLEAN]
  BY DEF Flushed

\* The reads, and the steps that only move a session on.
LEMMA ReadKeepsTypes ==
  ASSUME Typed, NEW w \in Session, NEW label \in PC, Goto(w, label), UNCHANGED rows,
         \/ UNCHANGED loaded
         \/ \E l : Fits(l) /\ Load(w, l),
         threadLock' \in [Process -> Session \cup {None}],
         advisory' \in Session \cup {None}
  PROVE  Typed'
  BY SameRowsFit, SessionKeepsTypes DEF Typed, rows

LEMMA BeginKeepsTypes ==
  ASSUME Typed, NEW w \in Session, Begin(w) PROVE Typed'
  <1> USE DEF PC, InPass, Typed, TypeOK, RowsFit, TablesTypeOK
  <1>1. CASE StartPass(w)
      BY <1>1, ReadKeepsTypes DEF StartPass
  <1>2. ASSUME NEW i \in Item, ReadItem(w, i) PROVE Typed'
    <2> DEFINE l == [Nothing EXCEPT !.items = {i}, !.signals = {about[i]},
                                    !.flagged = {s \in {about[i]} : processed[s]},
                                    !.event = candidate[i]]
    <2>1. about[i] \in stored /\ about[i] \in Signal /\ candidate[i] \in Event \cup {None}
        BY <1>2 DEF ReadItem
    <2>2. Fits(l)
        BY <2>1 DEF Fits, Loads, Nothing
    <2> QED
        BY <1>2, <2>2, ReadKeepsTypes DEF ReadItem
  <1>3. CASE ReadNoSignal(w)
    <2>1. Fits([Nothing EXCEPT !.others = stored])
        BY DEF Fits, Loads, Nothing
    <2> QED
        BY <1>3, <2>1, ReadKeepsTypes DEF ReadNoSignal
  <1>4. ASSUME NEW s \in Signal, ReadSignal(w, s) PROVE Typed'
    <2>1. Fits([Nothing EXCEPT !.signals = {s}, !.flagged = {t \in {s} : processed[t]}])
        BY <1>4 DEF ReadSignal, Fits, Loads, Nothing
    <2> QED
        BY <1>4, <2>1, ReadKeepsTypes DEF ReadSignal, LoadSignal
  <1>5. ASSUME NEW e \in Event, ReadEvent(w, e) PROVE Typed'
    <2> DEFINE attached == {s \in Signal : evidence[e][s] > 0}
               copies == {s \in attached : processed[s]}
               named == {i \in Item : candidate[i] = e}
               joins == evidence[e]
               l == [Nothing EXCEPT !.event = e, !.joins = joins, !.signals = attached,
                                    !.flagged = copies, !.items = named]
    <2>1. /\ attached \subseteq Signal /\ joins \in [Signal -> Nat]
          /\ copies \subseteq attached /\ named \subseteq Item
        OBVIOUS
    <2>2. attached \subseteq stored
        OBVIOUS
    <2>3. Load(w, l)
        BY <1>5 DEF ReadEvent
    <2> HIDE DEF attached, copies, named, joins
    <2>4. Fits(l)
        BY <2>1, <2>2 DEF Fits, Loads, Nothing
    <2> HIDE DEF l
    <2> QED
        BY <1>5, <2>3, <2>4, ReadKeepsTypes DEF ReadEvent
  <1> QED
      BY <1>1, <1>2, <1>3, <1>4, <1>5 DEF Begin

LEMMA PassKeepsTypes ==
  ASSUME Typed, NEW w \in Session,
         \/ TakeThreadLock(w) \/ TakeAdvisory(w) \/ ReadBatch(w) \/ ReadLinked(w)
         \/ ReadPending(w) \/ CommitPass(w) \/ Unlock(w) \/ Close(w)
  PROVE  Typed'
  <1> USE DEF PC, InPass
  <1>0. /\ threadLock \in [Process -> Session \cup {None}]
        /\ advisory \in Session \cup {None}
        /\ loaded[w] \in Loads /\ Fits(loaded[w]) /\ stored \subseteq Signal
      BY DEF Typed, TypeOK, Fits, TablesTypeOK
  <1>1. CASE TakeThreadLock(w) \/ TakeAdvisory(w)
      BY <1>0, <1>1, ReadKeepsTypes DEF TakeThreadLock, TakeAdvisory
  <1>2. CASE ReadBatch(w)
    <2>1. Fits([Nothing EXCEPT !.signals = Batch(DefaultLimit)])
        BY <1>0 DEF Fits, Loads, Nothing, Batch, Unprocessed
    <2>2. ReleaseThreadLock(w) => threadLock' \in [Process -> Session \cup {None}]
        BY <1>0 DEF ReleaseThreadLock
    <2> QED
        BY <1>0, <1>2, <2>1, <2>2, ReadKeepsTypes DEF ReadBatch
  <1>3. CASE ReadLinked(w)
    <2>1. Fits([loaded[w] EXCEPT !.skip = {s \in loaded[w].signals : Attached(s)}])
        BY <1>0 DEF Fits, Loads
    <2> QED
        BY <1>0, <1>3, <2>1, ReadKeepsTypes DEF ReadLinked
  <1>4. CASE ReadPending(w)
    <2>1. Fits([loaded[w] EXCEPT !.skip = @ \cup {s \in loaded[w].signals : UnderReview(s)}])
        BY <1>0 DEF Fits, Loads
    <2> QED
        BY <1>0, <1>4, <2>1, ReadKeepsTypes DEF ReadPending
  <1>5. CASE CommitPass(w)
    <2>1. loaded[w].signals \subseteq stored
        BY <1>0 DEF Fits
    <2>2. RowsFit' /\ UNCHANGED stored
      <3>1. loaded[w].signals \ loaded[w].skip \in SUBSET loaded[w].signals
          OBVIOUS
      <3> QED
          BY <1>5, <2>1, <3>1, PassFits DEF CommitPass, Typed
    <2>3. Fits(Nothing)
        BY NothingFits
    <2> QED
        BY <1>0, <1>5, <2>2, <2>3, SessionKeepsTypes DEF CommitPass
  <1>6. CASE Unlock(w)
      BY <1>0, <1>6, ReadKeepsTypes DEF Unlock, ReleaseThreadLock
  <1>7. CASE Close(w)
      BY <1>0, <1>7, NothingFits, ReadKeepsTypes DEF Close, Finish
  <1> QED
      BY <1>1, <1>2, <1>3, <1>4, <1>5, <1>6, <1>7

LEMMA IngestKeepsTypes ==
  ASSUME Typed, NEW w \in Session,
         \/ \E s \in Signal : InsertSignal(w, s) \/ LoseInsert(w, s)
         \/ CheckEvidence(w) \/ CommitUpdate(w)
  PROVE  Typed'
  <1> USE DEF PC, InPass
  <1>0. /\ threadLock \in [Process -> Session \cup {None}]
        /\ advisory \in Session \cup {None}
        /\ loaded[w] \in Loads /\ Fits(loaded[w]) /\ stored \subseteq Signal
        /\ processed \in [Signal -> BOOLEAN]
      BY DEF Typed, TypeOK, Fits, TablesTypeOK
  <1>1. ASSUME NEW s \in Signal, InsertSignal(w, s) PROVE Typed'
    <2>1. RowsFit'
        BY <1>1 DEF InsertSignal, Typed, RowsFit, TablesTypeOK, References, reviewRows
    <2> QED
        BY <1>0, <1>1, <2>1, NothingFits, SessionKeepsTypes DEF InsertSignal, Finish
  <1>2. ASSUME NEW s \in Signal, LoseInsert(w, s) PROVE Typed'
    <2>1. Fits([Nothing EXCEPT !.signals = {s}, !.flagged = {t \in {s} : processed[t]}])
        BY <1>2 DEF LoseInsert, Fits, Loads, Nothing
    <2> QED
        BY <1>0, <1>2, <2>1, ReadKeepsTypes DEF LoseInsert, LoadSignal
  <1>3. CASE CheckEvidence(w)
    <2>1. Fits([loaded[w] EXCEPT !.skip = {s \in loaded[w].signals : Attached(s)}])
        BY <1>0 DEF Fits, Loads
    <2> QED
        BY <1>0, <1>3, <2>1, ReadKeepsTypes DEF CheckEvidence
  <1>4. CASE CommitUpdate(w)
    <2>1. processed' \in [Signal -> BOOLEAN]
        BY <1>0, <1>4, FlushedFits DEF CommitUpdate
    <2>2. RowsFit'
        BY <1>4, <2>1 DEF CommitUpdate, Typed, RowsFit, TablesTypeOK, References, reviewRows
    <2> QED
        BY <1>0, <1>4, <2>2, NothingFits, SessionKeepsTypes DEF CommitUpdate, Finish
  <1> QED
      BY <1>1, <1>2, <1>3, <1>4

LEMMA AnswerKeepsTypes ==
  ASSUME Typed, NEW w \in Session, NEW i \in Item,
         \/ CommitDiscard(w, i) \/ CommitRecluster(w, i)
         \/ \E e \in Event : CommitApprove(w, i, e) \/ CommitReject(w, i, e)
  PROVE  Typed'
  <1> USE DEF PC, InPass
  <1>0. /\ threadLock \in [Process -> Session \cup {None}]
        /\ advisory \in Session \cup {None}
        /\ processed \in [Signal -> BOOLEAN]
      BY DEF Typed, TypeOK, TablesTypeOK
  <1>1. CASE CommitDiscard(w, i) \/ CommitRecluster(w, i)
    <2>1. processed' \in [Signal -> BOOLEAN]
      <3>1. CASE CommitDiscard(w, i)
          BY <1>0, <3>1, FlushedFits DEF CommitDiscard
      <3>2. CASE CommitRecluster(w, i)
          BY <1>0, <3>2, FlushedFits DEF CommitRecluster
      <3> QED
          BY <1>1, <3>1, <3>2
    <2>2. RowsFit'
        BY <1>1, <2>1
        DEF CommitDiscard, CommitRecluster, Answer, Typed, RowsFit, TablesTypeOK, References
    <2> QED
        BY <1>0, <1>1, <2>2, NothingFits, SessionKeepsTypes
        DEF CommitDiscard, CommitRecluster, Finish
  <1>2. ASSUME NEW e \in Event, CommitApprove(w, i, e) \/ CommitReject(w, i, e)
        PROVE  Typed'
    <2> DEFINE linked == loaded[w].signals
               target == [s \in linked |-> e]
    <2>1. processed' \in [Signal -> BOOLEAN]
      <3>1. CASE CommitApprove(w, i, e)
          BY <1>0, <3>1, FlushedFits DEF CommitApprove
      <3>2. CASE CommitReject(w, i, e)
          BY <1>0, <3>2, FlushedFits DEF CommitReject
      <3> QED
          BY <1>2, <3>1, <3>2
    <2>2. /\ e \in events' /\ events \subseteq events' /\ events' \subseteq Event
          /\ evidence' = AddEvidence(linked, target)
          /\ status' = [status EXCEPT ![i] = IF CommitApprove(w, i, e) THEN "approved" ELSE "rejected"]
          /\ candidate' \in {candidate, [candidate EXCEPT ![i] = e]}
          /\ UNCHANGED <<stored, about>>
        BY <1>2 DEF CommitApprove, CommitReject, Answer, Typed, RowsFit, TablesTypeOK
    <2>3. \A s \in linked : target[s] \in events'
        BY <2>2
    <2>0. linked \in SUBSET stored
        BY DEF Typed, TypeOK
    <2> HIDE DEF linked, target
    <2>4. /\ evidence' \in [Event -> [Signal -> Nat]]
          /\ \A f \in Event, s \in Signal :
                evidence'[f][s] > 0 => f \in events' /\ s \in stored
        BY <2>0, <2>2, <2>3, EvidenceFits DEF Typed
    <2>5. RowsFit'
        BY <2>1, <2>2, <2>4 DEF Typed, RowsFit, TablesTypeOK, References
    <2> QED
        BY <1>0, <1>2, <2>2, <2>5, NothingFits, SessionKeepsTypes
        DEF CommitApprove, CommitReject, Finish
  <1> QED
      BY <1>1, <1>2

LEMMA DeleteKeepsTypes ==
  ASSUME Typed, NEW w \in Session, CommitDelete(w) PROVE Typed'
  <1> DEFINE e == loaded[w].event
  <1>1. processed' \in [Signal -> BOOLEAN]
      BY FlushedFits DEF CommitDelete, Typed, TypeOK, TablesTypeOK
  <1>2. /\ events' = events \ {e} /\ UNCHANGED <<stored, status, about>>
        /\ evidence' = [evidence EXCEPT ![e] = [s \in Signal |-> 0]]
        /\ \A i \in Item : candidate[i] = e => i \in loaded[w].items
        /\ candidate' = [i \in Item |-> IF i \in loaded[w].items THEN None ELSE candidate[i]]
      BY DEF CommitDelete
  <1> HIDE DEF e
  <1>3. /\ evidence' \in [Event -> [Signal -> Nat]]
        /\ \A f \in Event, s \in Signal : evidence'[f][s] = IF f = e THEN 0 ELSE evidence[f][s]
      BY <1>2 DEF Typed, RowsFit, TablesTypeOK
  <1>4. TablesTypeOK'
      BY <1>1, <1>2, <1>3 DEF Typed, RowsFit, TablesTypeOK
  <1>5. References'
      BY <1>2, <1>3 DEF Typed, RowsFit, TablesTypeOK, References
  <1>6. RowsFit'
      BY <1>2, <1>4, <1>5 DEF Typed, RowsFit
  <1> QED
      BY <1>6, NothingFits, SessionKeepsTypes DEF CommitDelete, Finish, Typed, TypeOK, PC

LEMMA NextTyped == Typed /\ [Next]_vars => Typed'
  <1> SUFFICES ASSUME Typed, [Next]_vars PROVE Typed'
      OBVIOUS
  <1>1. ASSUME NEW w \in Session, Abort(w) PROVE Typed'
      BY <1>1, NothingFits, ReadKeepsTypes
      DEF Abort, ReleaseThreadLock, Typed, TypeOK, PC, InPass
  <1>2. ASSUME NEW p \in Process, Crash(p) PROVE Typed'
    <2>1. \A w \in Session : loaded'[w] = IF processOf[w] = p THEN Nothing ELSE loaded[w]
        BY <1>2 DEF Crash
    <2>2. loaded' \in [Session -> Loads]
        BY <1>2, NothingFits DEF Crash, Typed, Fits
    <2>3. RowsFit'
        BY <1>2, SameRowsFit DEF Crash, Typed
    <2>4. \A w \in Session :
             /\ loaded'[w].signals \cup loaded'[w].others \subseteq stored
             /\ loaded'[w].flagged \cup loaded'[w].skip \subseteq loaded'[w].signals
        BY <2>1, NothingFits DEF Fits, Typed, TypeOK
    <2>5. \A w \in Session : loaded'[w].items \subseteq Item /\ loaded'[w].event \in Event \cup {None}
        BY <2>2 DEF Loads
    <2>6. /\ pc' \in [Session -> PC]
          /\ threadLock' \in [Process -> Session \cup {None}]
          /\ advisory' \in Session \cup {None}
          /\ stored' = stored
        BY <1>2 DEF Crash, Typed, TypeOK, PC, rows
    <2> QED
        BY <2>2, <2>3, <2>4, <2>5, <2>6 DEF Typed, TypeOK, RowsFit
  <1>3. ASSUME NEW e \in Event, CreateEvent(e) PROVE Typed'
      BY <1>3 DEF CreateEvent, sessionVars, reviewRows, Typed, TypeOK, RowsFit, TablesTypeOK, References
  <1>4. ASSUME NEW w \in Session, Proceed(w) PROVE Typed'
      BY <1>4, PassKeepsTypes, IngestKeepsTypes, AnswerKeepsTypes, DeleteKeepsTypes DEF Proceed
  <1>5. CASE UNCHANGED vars
      BY <1>5 DEF vars, rows, sessionVars, reviewRows, Typed, TypeOK, RowsFit, TablesTypeOK, References
  <1> QED
      BY <1>1, <1>2, <1>3, <1>4, <1>5, BeginKeepsTypes DEF Next

LEMMA SpecTyped == Spec => []Typed
  BY InitTyped, NextTyped, PTL DEF Spec

\* Rows, locks and what sessions hold keep their types, and a session remembers
\* only rows that exist, however requests overlap, fail and crash.
THEOREM SessionsTypes == Spec => []TypeOK
  <1>1. Typed => TypeOK
      BY DEF Typed
  <1> QED
      BY <1>1, SpecTyped, PTL

\* No overlap of requests leaves evidence or a question of an event that is gone.
THEOREM ForeignKeysHold == Spec => []References
  <1>1. Typed => References
      BY DEF Typed, RowsFit
  <1> QED
      BY <1>1, SpecTyped, PTL

-----------------------------------------------------------------------------
(* Sessions kept apart: what holds between their statements.                 *)

\* Without edits the signal of an open question is never in the pool; with edits
\* nobody answers.
Answered ==
    /\ ~ edited => \A i \in Item : status[i] = "pending" => processed[about[i]]
    /\ edited => \A i \in Item : status[i] \in {"unused", "pending"}

NewIsUnprocessed == \A s \in Signal \ stored : ~processed[s]

\* The batch of a pass is still in the pool, and it knows which of it are asked about.
PassRemembers(w) ==
    pc[w] \in {"linked", "pending", "write"} =>
        /\ loaded[w].signals \subseteq Unprocessed
        /\ pc[w] = "pending" => loaded[w].skip = {}
        /\ pc[w] = "write" => loaded[w].skip = {s \in loaded[w].signals : UnderReview(s)}

\* The item is still open, its signal still processed, its candidate as loaded
\* unless the event is gone.
ReviewRemembers(w) ==
    pc[w] = "resolving" =>
        \A i \in loaded[w].items :
            /\ status[i] = "pending" /\ loaded[w].items = {i}
            /\ loaded[w].signals = {about[i]} /\ loaded[w].flagged = {about[i]}
            /\ loaded[w].event \in events => candidate[i] = loaded[w].event

\* The event is there with at least the evidence loaded; an item that named it and
\* is still open names it or nothing.
DeleteRemembers(w) ==
    pc[w] = "deleting" =>
        /\ loaded[w].event \in events
        /\ \A s \in Signal : loaded[w].joins[s] <= evidence[loaded[w].event][s]
        /\ loaded[w].joins \in [Signal -> Nat]
        /\ loaded[w].signals = {s \in Signal : loaded[w].joins[s] > 0}
        /\ loaded[w].flagged = loaded[w].signals
        /\ \A i \in loaded[w].items :
              /\ status[i] # "unused"
              /\ status[i] = "pending" => candidate[i] \in {loaded[w].event, None}

\* A signal loaded as processed is evidence or under review; once it was found to
\* be no evidence, it is under review.
UpdateRemembers(w) ==
    /\ pc[w] \in {"checking", "updating"} =>
          /\ edited
          /\ \E s \in Signal : loaded[w].signals = {s}
          /\ \A s \in loaded[w].flagged : Attached(s) \/ UnderReview(s)
    /\ pc[w] = "updating" => \A s \in loaded[w].flagged \ loaded[w].skip : UnderReview(s)

Remembers(w) ==
    PassRemembers(w) /\ ReviewRemembers(w) /\ DeleteRemembers(w) /\ UpdateRemembers(w)

AInv ==
    /\ Typed
    /\ RowsInv
    /\ PassHoldsLock
    /\ KeptApart
    /\ edited \in BOOLEAN
    /\ Answered
    /\ NewIsUnprocessed
    /\ \A w \in Session : Remembers(w)

LEMMA IdleRemembers ==
  ASSUME NEW w, pc[w] \notin {"linked", "pending", "write", "resolving", "deleting", "checking", "updating"}
  PROVE  Remembers(w)
  BY DEF Remembers, PassRemembers, ReviewRemembers, DeleteRemembers, UpdateRemembers

\* The same after a step.
LEMMA IdleWillRemember ==
  ASSUME NEW w,
         pc'[w] \notin {"linked", "pending", "write", "resolving", "deleting", "checking", "updating"}
  PROVE  Remembers(w)'
  BY DEF Remembers, PassRemembers, ReviewRemembers, DeleteRemembers, UpdateRemembers

LEMMA InitAInv == ApartInit => AInv
  <1> SUFFICES ASSUME ApartInit PROVE AInv
      OBVIOUS
  <1>1. Typed /\ RowsInv /\ PassHoldsLock
      BY InitTyped, EmptyInv, InitHoldsLock DEF ApartInit, Init
  <1>2. \A w \in Session : Remembers(w)
      BY IdleRemembers DEF ApartInit, Init
  <1>3. Answered /\ NewIsUnprocessed /\ KeptApart
      BY DEF ApartInit, Init, EmptyTables, Answered, NewIsUnprocessed, KeptApart, Ingesting
  <1> QED
      BY <1>1, <1>2, <1>3 DEF AInv, ApartInit

-----------------------------------------------------------------------------
(* What the commit of one session leaves to the others.                      *)

Spares(v) ==
    /\ pc[v] \in InPass =>
          \A s \in Unprocessed : s \in Unprocessed' /\ (UnderReview(s)' <=> UnderReview(s))
    /\ \A i \in Item : status[i] # "unused" =>
          /\ status'[i] # "unused" /\ about'[i] = about[i]
          /\ status'[i] = "pending" =>
                /\ status[i] = "pending"
                /\ \/ candidate'[i] = candidate[i]
                   \/ candidate'[i] = None /\ candidate[i] \notin events'
    /\ pc[v] = "resolving" => \A i \in loaded[v].items : status'[i] = status[i]
    /\ loaded[v].event \notin events' \ events
    /\ pc[v] = "deleting" => loaded[v].event \in events'
    /\ \A e \in events', s \in Signal : evidence[e][s] <= evidence'[e][s]
    /\ pc[v] \in {"checking", "updating"} =>
          \A s \in Signal : /\ Attached(s) => Attached(s)'
                            /\ UnderReview(s) => UnderReview(s)'

LEMMA SameRowsSpare ==
  ASSUME AInv, UNCHANGED rows, NEW v \in Session PROVE Spares(v)
  <1>1. \A e \in Event, s \in Signal : evidence[e][s] \in Nat
      BY DEF AInv, Typed, TypeOK, TablesTypeOK
  <1>2. events \subseteq Event
      BY DEF AInv, Typed, TypeOK, TablesTypeOK
  <1>3. \A e \in events', s \in Signal : evidence[e][s] <= evidence'[e][s]
      BY <1>1, <1>2 DEF rows
  <1> QED
      BY <1>3 DEF Spares, rows, reviewRows, Unprocessed, UnderReview, Attached, AInv, Remembers,
                  DeleteRemembers

LEMMA SparedRemember ==
  ASSUME AInv, NEW v \in Session, Spares(v), edited' = edited,
         pc'[v] = pc[v], loaded'[v] = loaded[v], events' \subseteq Event,
         evidence' \in [Event -> [Signal -> Nat]]
  PROVE  Remembers(v)'
  <1> USE DEF Spares
  <1>0. /\ Remembers(v) /\ loaded[v] \in Loads
        /\ loaded[v].flagged \subseteq Signal /\ loaded[v].items \subseteq Item
        /\ evidence \in [Event -> [Signal -> Nat]]
      BY DEF AInv, Typed, Loads, TypeOK, TablesTypeOK
  <1>1. PassRemembers(v)'
    <2>1. CASE pc[v] \in InPass
      <3>1. \A s \in Unprocessed : s \in Unprocessed' /\ (UnderReview(s)' <=> UnderReview(s))
          BY <2>1
      <3>2. PassRemembers(v)
          BY <1>0 DEF Remembers
      <3> HIDE DEF Spares
      <3> QED
          BY <3>1, <3>2, Zenon DEF PassRemembers
    <2>2. CASE pc[v] \notin InPass
        BY <2>2 DEF PassRemembers, InPass
    <2> QED
        BY <2>1, <2>2
  <1>2. ReviewRemembers(v)'
    <2> SUFFICES ASSUME pc[v] = "resolving", NEW i \in loaded[v].items
                 PROVE  /\ status'[i] = "pending" /\ loaded[v].items = {i}
                        /\ loaded[v].signals = {about'[i]} /\ loaded[v].flagged = {about'[i]}
                        /\ loaded[v].event \in events' => candidate'[i] = loaded[v].event
        BY DEF ReviewRemembers
    <2>1. /\ status[i] = "pending" /\ loaded[v].items = {i}
          /\ loaded[v].signals = {about[i]} /\ loaded[v].flagged = {about[i]}
          /\ loaded[v].event \in events => candidate[i] = loaded[v].event
        BY <1>0 DEF Remembers, ReviewRemembers
    <2>2. status[i] # "unused" /\ i \in Item
        BY <1>0, <2>1
    <2>3. status'[i] = status[i] /\ about'[i] = about[i]
        BY <2>2
    <2>4. \/ candidate'[i] = candidate[i]
          \/ candidate'[i] = None /\ candidate[i] \notin events'
        BY <2>1, <2>2, <2>3
    <2> HIDE DEF Spares
    <2>5. loaded[v].event \in events' => loaded[v].event \in events
        BY DEF Spares
    <2> QED
        BY <2>1, <2>3, <2>4, <2>5
  <1>3. DeleteRemembers(v)'
    <2> SUFFICES ASSUME pc[v] = "deleting" PROVE DeleteRemembers(v)'
        BY DEF DeleteRemembers
    <2> DEFINE e == loaded[v].event
    <2>1. e \in events' /\ e \in Event
        BY <1>0
    <2>2. \A s \in Signal : loaded[v].joins[s] <= evidence'[e][s]
      <3> SUFFICES ASSUME NEW s \in Signal PROVE loaded[v].joins[s] <= evidence'[e][s]
          OBVIOUS
      <3>1. /\ loaded[v].joins[s] <= evidence[e][s] /\ evidence[e][s] <= evidence'[e][s]
            /\ loaded[v].joins[s] \in Nat
          BY <1>0, <2>1 DEF Remembers, DeleteRemembers
      <3>2. evidence[e][s] \in Nat /\ evidence'[e][s] \in Nat
          BY <1>0, <2>1
      <3> QED
          BY <3>1, <3>2
    <2>3. \A i \in loaded[v].items :
              /\ status'[i] # "unused"
              /\ status'[i] = "pending" => candidate'[i] \in {e, None}
        BY <1>0 DEF Remembers, DeleteRemembers
    <2> QED
        BY <1>0, <2>1, <2>2, <2>3 DEF Remembers, DeleteRemembers
  <1>4. UpdateRemembers(v)'
      BY <1>0 DEF Remembers, UpdateRemembers
  <1> QED
      BY <1>1, <1>2, <1>3, <1>4 DEF Remembers

-----------------------------------------------------------------------------
(* Every step of the sessions kept apart is a transaction on the rows or     *)
(* leaves them alone.                                                        *)

Keeps ==
    /\ RowStep \/ UNCHANGED rows
    /\ Answered' /\ NewIsUnprocessed'
    /\ \A w \in Session : Remembers(w)'

\* A step of one session that spares the others.
LEMMA OthersRemember ==
  ASSUME AInv, Typed', edited' = edited, NEW w \in Session, NEW label, Goto(w, label),
         UNCHANGED loaded \/ \E l : Load(w, l),
         Remembers(w)', \A v \in Session \ {w} : Spares(v)
  PROVE  \A v \in Session : Remembers(v)'
  <1> SUFFICES ASSUME NEW v \in Session \ {w} PROVE Remembers(v)'
      OBVIOUS
  <1>1. pc'[v] = pc[v] /\ loaded'[v] = loaded[v]
      BY DEF Goto, Load, AInv, Typed, TypeOK
  <1>2. events' \subseteq Event /\ evidence' \in [Event -> [Signal -> Nat]]
      BY DEF Typed, TypeOK, TablesTypeOK
  <1> QED
      BY <1>1, <1>2, SparedRemember

\* A step of one session that writes nothing.
LEMMA ReadKeeps ==
  ASSUME AInv, Typed', UNCHANGED <<rows, edited>>, NEW w \in Session, NEW label, Goto(w, label),
         UNCHANGED loaded \/ \E l : Load(w, l),
         Remembers(w)'
  PROVE  Keeps
  <1>1. \A v \in Session : Remembers(v)'
      BY SameRowsSpare, OthersRemember
  <1>2. Answered' /\ NewIsUnprocessed'
      BY DEF AInv, Answered, NewIsUnprocessed, rows, reviewRows
  <1> QED
      BY <1>1, <1>2 DEF Keeps

\* A step of one session that writes, and then remembers nothing.
LEMMA CommitKeeps ==
  ASSUME AInv, Typed', edited' = edited, RowStep \/ UNCHANGED rows,
         NEW w \in Session, NEW label \in {"idle", "unlock", "lock"}, Goto(w, label),
         Load(w, Nothing), Answered', NewIsUnprocessed',
         \A v \in Session \ {w} : Spares(v)
  PROVE  Keeps
  <1>1. pc'[w] = label
      BY DEF Goto, AInv, Typed, TypeOK
  <1>2. Remembers(w)'
      BY <1>1, IdleWillRemember
  <1>3. \A v \in Session : Remembers(v)'
      BY <1>2, OthersRemember
  <1> QED
      BY <1>3 DEF Keeps

\* Types that the steps below need.
LEMMA AInvTypes ==
  ASSUME AInv
  PROVE  /\ pc \in [Session -> PC] /\ loaded \in [Session -> Loads]
         /\ stored \subseteq Signal /\ processed \in [Signal -> BOOLEAN]
         /\ events \subseteq Event /\ evidence \in [Event -> [Signal -> Nat]]
         /\ status \in [Item -> Status] /\ about \in [Item -> Signal \cup {None}]
         /\ candidate \in [Item -> Event \cup {None}] /\ edited \in BOOLEAN
         /\ \A w \in Session : Fits(loaded[w]) /\ Remembers(w)
  BY DEF AInv, Typed, TypeOK, TablesTypeOK, Fits

\* A signal that comes with another text: were it processed and no evidence and
\* not asked about, a reviewer would have discarded it.
LEMMA LoadSignalKeeps ==
  ASSUME AInv, Typed', KeptApart', edited' = edited, NEW w \in Session,
         NEW s \in Signal, s \in stored, LoadSignal(w, s)
  PROVE  Keeps
  <1> DEFINE l == [Nothing EXCEPT !.signals = {s}, !.flagged = {t \in {s} : processed[t]}]
  <1>0. pc \in [Session -> PC] /\ loaded \in [Session -> Loads] /\ edited \in BOOLEAN
      BY AInvTypes
  <1>1. pc'[w] = "checking" /\ loaded'[w] = l /\ UNCHANGED rows
      BY <1>0 DEF LoadSignal, Goto, Load
  <1>2. edited
      BY <1>1, <1>0 DEF KeptApart
  <1>3. processed[s] => Attached(s) \/ UnderReview(s)
      BY <1>2 DEF AInv, RowsInv, NothingLost, Answered, LastDiscarded
  <1>4. l.signals = {s} /\ \A t \in l.flagged : t = s /\ processed[s]
      BY DEF Nothing
  <1> HIDE DEF l
  <1>5. UpdateRemembers(w)'
      BY <1>1, <1>2, <1>3, <1>4
      DEF UpdateRemembers, rows, reviewRows, Attached, UnderReview
  <1>6. Remembers(w)'
      BY <1>1, <1>5 DEF Remembers, PassRemembers, DeleteRemembers, ReviewRemembers
  <1> QED
      BY <1>6, ReadKeeps DEF LoadSignal

LEMMA BeginKeeps ==
  ASSUME AInv, Typed', KeptApart', edited' = edited, NEW w \in Session, Begin(w)
  PROVE  Keeps
  <1>0. /\ pc \in [Session -> PC] /\ loaded \in [Session -> Loads]
        /\ processed \in [Signal -> BOOLEAN] /\ evidence \in [Event -> [Signal -> Nat]]
        /\ stored \subseteq Signal /\ edited \in BOOLEAN
      BY AInvTypes
  <1>1. CASE StartPass(w)
    <2>1. pc'[w] = "lock"
        BY <1>0, <1>1 DEF StartPass, Goto
    <2> QED
        BY <1>1, <2>1, IdleWillRemember, ReadKeeps DEF StartPass
  <1>2. ASSUME NEW i \in Item, ReadItem(w, i) PROVE Keeps
    <2> DEFINE s == about[i]
               l == [Nothing EXCEPT !.items = {i}, !.signals = {s},
                                    !.flagged = {t \in {s} : processed[t]},
                                    !.event = candidate[i]]
    <2>1. pc'[w] = "resolving" /\ loaded'[w] = l /\ status[i] = "pending" /\ UNCHANGED rows
        BY <1>0, <1>2 DEF ReadItem, Goto, Load
    <2>2. ~ edited
        BY <2>1 DEF KeptApart
    <2>3. processed[s]
        BY <2>1, <2>2 DEF AInv, Answered
    <2>4. l.items = {i} /\ l.signals = {s} /\ l.event = candidate[i] /\ l.flagged = {s}
        BY <2>3 DEF Nothing
    <2> HIDE DEF l
    <2>5. ReviewRemembers(w)'
        BY <2>1, <2>4 DEF ReviewRemembers, rows, reviewRows
    <2>6. Remembers(w)'
        BY <2>1, <2>5
        DEF Remembers, PassRemembers, DeleteRemembers, UpdateRemembers
    <2> QED
        BY <1>2, <2>6, ReadKeeps DEF ReadItem
  <1>3. CASE ReadNoSignal(w)
    <2>1. pc'[w] = "inserting"
        BY <1>0, <1>3 DEF ReadNoSignal, Goto
    <2> QED
        BY <1>3, <2>1, IdleWillRemember, ReadKeeps DEF ReadNoSignal
  <1>4. ASSUME NEW s \in Signal, ReadSignal(w, s) PROVE Keeps
      BY <1>4, LoadSignalKeeps DEF ReadSignal
  <1>5. ASSUME NEW e \in Event, ReadEvent(w, e) PROVE Keeps
    <2> DEFINE attached == {s \in Signal : evidence[e][s] > 0}
               copies == {s \in attached : processed[s]}
               named == {i \in Item : candidate[i] = e}
               joins == evidence[e]
               l == [Nothing EXCEPT !.event = e, !.joins = joins, !.signals = attached,
                                    !.flagged = copies, !.items = named]
    <2>1. pc'[w] = "deleting" /\ loaded'[w] = l /\ e \in events /\ UNCHANGED rows
        BY <1>0, <1>5 DEF ReadEvent, Goto, Load
    <2>2. copies = attached
        BY DEF AInv, RowsInv, AttachedIsProcessed
    <2>3. \A i \in named : status[i] # "unused" /\ candidate[i] = e
        BY TablesAssumption DEF AInv, RowsInv, RowsAreAboutSignals
    <2>4. joins \in [Signal -> Nat] /\ \A s \in Signal : joins[s] <= evidence[e][s]
        BY <1>0
    <2>5. attached = {s \in Signal : joins[s] > 0}
        OBVIOUS
    <2> HIDE DEF attached, copies, named
    <2>6. /\ l.event = e /\ l.joins = joins /\ l.signals = attached
          /\ l.flagged = copies /\ l.items = named
        BY DEF Nothing
    <2> HIDE DEF l, joins
    <2>7. DeleteRemembers(w)'
        BY <2>1, <2>2, <2>3, <2>4, <2>5, <2>6 DEF DeleteRemembers, rows, reviewRows
    <2>8. Remembers(w)'
        BY <2>1, <2>7 DEF Remembers, PassRemembers, UpdateRemembers, ReviewRemembers
    <2> QED
        BY <1>5, <2>8, ReadKeeps DEF ReadEvent
  <1> QED
      BY <1>1, <1>2, <1>3, <1>4, <1>5 DEF Begin

\* The reads of a pass: what is in the pool is no evidence.
LEMMA PassReadsKeep ==
  ASSUME AInv, Typed', edited' = edited, NEW w \in Session,
         \/ TakeThreadLock(w) \/ TakeAdvisory(w) \/ ReadBatch(w) \/ ReadLinked(w)
         \/ ReadPending(w) \/ Unlock(w) \/ Close(w)
  PROVE  Keeps
  <1>0. /\ pc \in [Session -> PC] /\ loaded \in [Session -> Loads]
        /\ Remembers(w) /\ loaded[w] \in Loads /\ stored \subseteq Signal
      BY AInvTypes
  <1>1. \A s \in Unprocessed : ~Attached(s)
      BY <1>0 DEF AInv, RowsInv, AttachedIsProcessed, Attached, Unprocessed
  <1>2. CASE TakeThreadLock(w) \/ TakeAdvisory(w) \/ Unlock(w) \/ Close(w)
    <2>1. pc'[w] \in {"advisory", "batch", "idle"}
        BY <1>0, <1>2 DEF TakeThreadLock, TakeAdvisory, Unlock, Close, Finish, Goto
    <2> QED
        BY <1>2, <2>1, IdleWillRemember, ReadKeeps
        DEF TakeThreadLock, TakeAdvisory, Unlock, Close, Finish
  <1>3. CASE ReadBatch(w)
    <2>1. CASE pc'[w] = "linked"
      <3>1. loaded'[w] = [Nothing EXCEPT !.signals = Batch(DefaultLimit)] /\ UNCHANGED rows
          BY <1>0, <1>3, <2>1 DEF ReadBatch, Goto, Load
      <3>2. loaded'[w].signals = Batch(DefaultLimit)
          BY <3>1 DEF Nothing
      <3>3. PassRemembers(w)'
          BY <2>1, <3>1, <3>2 DEF PassRemembers, Batch, Unprocessed, rows
      <3>4. Remembers(w)'
          BY <2>1, <3>3 DEF Remembers, DeleteRemembers, UpdateRemembers, ReviewRemembers
      <3> QED
          BY <1>3, <3>4, ReadKeeps DEF ReadBatch
    <2>2. CASE pc'[w] # "linked"
      <3>1. pc'[w] = "closing"
          BY <1>0, <1>3, <2>2 DEF ReadBatch, Goto
      <3> QED
          BY <1>3, <3>1, IdleWillRemember, ReadKeeps DEF ReadBatch
    <2> QED
        BY <2>1, <2>2
  <1>4. CASE ReadLinked(w)
    <2>1. /\ pc[w] = "linked" /\ pc'[w] = "pending" /\ UNCHANGED rows
          /\ loaded'[w] = [loaded[w] EXCEPT !.skip = {s \in loaded[w].signals : Attached(s)}]
        BY <1>0, <1>4 DEF ReadLinked, Goto, Load
    <2>2. loaded[w].signals \subseteq Unprocessed
        BY <1>0, <2>1 DEF Remembers, PassRemembers
    <2>3. loaded'[w].signals = loaded[w].signals /\ loaded'[w].skip = {}
        BY <1>0, <1>1, <2>1, <2>2 DEF Loads
    <2>4. PassRemembers(w)'
        BY <2>1, <2>2, <2>3 DEF PassRemembers, Unprocessed, rows
    <2>5. Remembers(w)'
        BY <2>1, <2>4 DEF Remembers, DeleteRemembers, UpdateRemembers, ReviewRemembers
    <2> QED
        BY <1>4, <2>5, ReadKeeps DEF ReadLinked
  <1>5. CASE ReadPending(w)
    <2> DEFINE asked == {s \in loaded[w].signals : UnderReview(s)}
    <2>1. /\ pc[w] = "pending" /\ pc'[w] = "write" /\ UNCHANGED rows
          /\ loaded'[w] = [loaded[w] EXCEPT !.skip = @ \cup asked]
        BY <1>0, <1>5 DEF ReadPending, Goto, Load
    <2>2. loaded[w].signals \subseteq Unprocessed /\ loaded[w].skip = {}
        BY <1>0, <2>1 DEF Remembers, PassRemembers
    <2>3. loaded'[w].signals = loaded[w].signals /\ loaded'[w].skip = asked
        BY <1>0, <2>1, <2>2 DEF Loads
    <2>4. PassRemembers(w)'
        BY <2>1, <2>2, <2>3 DEF PassRemembers, Unprocessed, UnderReview, rows, reviewRows
    <2>5. Remembers(w)'
        BY <2>1, <2>4 DEF Remembers, DeleteRemembers, UpdateRemembers, ReviewRemembers
    <2> QED
        BY <1>5, <2>5, ReadKeeps DEF ReadPending
  <1> QED
      BY <1>2, <1>3, <1>4, <1>5

\* The pass scores what a pass alone would score, and no session it meets answers
\* about its batch or is in a pass.
LEMMA CommitPassKeeps ==
  ASSUME AInv, Typed', edited' = edited, NEW w \in Session, CommitPass(w)
  PROVE  Keeps
  <1> DEFINE batch == loaded[w].signals
  <1>0. /\ pc[w] = "write" /\ Remembers(w)
        /\ stored \subseteq Signal /\ processed \in [Signal -> BOOLEAN]
        /\ events \subseteq Event /\ evidence \in [Event -> [Signal -> Nat]]
        /\ candidate \in [Item -> Event \cup {None}]
      BY AInvTypes DEF CommitPass
  <1>1. batch \in SUBSET Unprocessed /\ loaded[w].skip = {s \in batch : UnderReview(s)}
      BY <1>0 DEF Remembers, PassRemembers
  <1>2. \A s \in Unprocessed : ~Attached(s) /\ s \in Signal
      BY <1>0 DEF AInv, RowsInv, AttachedIsProcessed, Attached, Unprocessed
  <1>3. batch \ loaded[w].skip = Scored(batch)
      BY <1>1, <1>2 DEF Scored
  <1>4. PassOver(batch)
      BY <1>3 DEF CommitPass, PassOver
  <1> HIDE DEF batch
  <1>5. RowStep
      BY <1>1, <1>4 DEF RowStep
  <1>6. PICK scored, attaching, opened, asks, target :
            PassEffect(batch, scored, attaching, opened, asks, target)
      BY <1>1, <1>4, PassHasEffect DEF AInv
  <1> USE DEF PassEffect, PassWrites
  <1>7. /\ \A s \in Signal : processed'[s] = (processed[s] \/ s \in batch)
        /\ \A i \in Item : status[i] # "unused" =>
              status'[i] = status[i] /\ about'[i] = about[i] /\ candidate'[i] = candidate[i]
        /\ stored' = stored
      BY <1>6 DEF Created
  <1>8. Answered'
    <2>1. ASSUME ~ edited, NEW i \in Item, status'[i] = "pending" PROVE processed'[about'[i]]
      <3>1. CASE i \in opened
        <4>1. about'[i] = asks[i] /\ asks[i] \in batch
            BY <1>6, <3>1
        <4> QED
            BY <1>1, <1>2, <1>7, <4>1
      <3>2. CASE i \notin opened
        <4>1. status[i] = "pending" /\ about'[i] = about[i]
            BY <1>6, <2>1, <3>2
        <4>2. processed[about[i]] /\ about[i] \in Signal
            BY <1>0, <2>1, <4>1 DEF AInv, Answered, RowsInv, OpenQuestionUnattached
        <4> QED
            BY <1>7, <4>1, <4>2
      <3> QED
          BY <3>1, <3>2
    <2>2. edited => \A i \in Item : status'[i] \in {"unused", "pending"}
        BY <1>6 DEF AInv, Answered
    <2> QED
        BY <2>1, <2>2 DEF Answered
  <1>9. NewIsUnprocessed'
      BY <1>1, <1>7 DEF AInv, NewIsUnprocessed, Unprocessed
  <1>10. \A e \in Event, s \in Signal :
            evidence'[e][s] = IF s \in attaching /\ target[s] = e
                              THEN evidence[e][s] + 1 ELSE evidence[e][s]
      BY <1>0, <1>6, AddEvidenceEffect
  <1>11. ASSUME NEW v \in Session \ {w} PROVE Spares(v)
    <2>1. pc[v] \notin InPass
        BY <1>0 DEF AInv, PassHoldsLock, InPass
    <2>2. loaded[v].event \notin events' \ events
        BY DEF CommitPass, Fresh
    <2>3. \A i \in Item : status[i] # "unused" =>
              /\ status'[i] # "unused" /\ about'[i] = about[i] /\ candidate'[i] = candidate[i]
              /\ status'[i] = "pending" => status[i] = "pending"
        BY <1>7
    <2>4. pc[v] = "resolving" => \A i \in loaded[v].items : status'[i] = status[i]
      <3>1. Remembers(v) /\ loaded[v].items \subseteq Item
          BY AInvTypes DEF Fits, Loads
      <3> QED
          BY <1>7, <3>1 DEF Remembers, ReviewRemembers
    <2>5. pc[v] = "deleting" => loaded[v].event \in events'
        BY <1>6, AInvTypes DEF Remembers, DeleteRemembers
    <2>6. \A e \in events', s \in Signal : evidence[e][s] <= evidence'[e][s]
      <3> SUFFICES ASSUME NEW e \in Event, NEW s \in Signal
                   PROVE  evidence[e][s] <= evidence'[e][s]
          BY <1>6
      <3>1. evidence[e][s] \in Nat
          BY <1>0
      <3> QED
          BY <1>10, <3>1
    <2>7. \A s \in Signal : /\ Attached(s) => Attached(s)'
                            /\ UnderReview(s) => UnderReview(s)'
      <3> SUFFICES ASSUME NEW s \in Signal
                   PROVE  (Attached(s) => Attached(s)') /\ (UnderReview(s) => UnderReview(s)')
          OBVIOUS
      <3>1. UnderReview(s) => UnderReview(s)'
          BY <1>7 DEF UnderReview
      <3>2. ASSUME NEW e \in Event, evidence[e][s] > 0 PROVE evidence'[e][s] > 0
        <4>1. evidence[e][s] \in Nat
            BY <1>0
        <4> QED
            BY <1>10, <3>2, <4>1
      <3> QED
          BY <3>1, <3>2 DEF Attached
    <2> QED
        BY <2>1, <2>2, <2>3, <2>4, <2>5, <2>6, <2>7 DEF Spares
  <1> QED
      BY <1>5, <1>8, <1>9, <1>11, CommitKeeps DEF CommitPass

-----------------------------------------------------------------------------
(* Answers.                                                                 *)

\* The reviewer's session writes what it would write had it just read the item.
LEMMA ReviewFacts ==
  ASSUME AInv, NEW w \in Session, NEW i \in Item,
         pc[w] = "resolving", i \in loaded[w].items
  PROVE  /\ ~ edited /\ status[i] = "pending" /\ loaded[w].items = {i}
         /\ loaded[w].signals = {about[i]} /\ loaded[w].flagged = {about[i]}
         /\ loaded[w].event \in events => candidate[i] = loaded[w].event
         /\ about[i] \in Signal /\ about[i] \in stored /\ processed[about[i]]
         /\ \A j \in Item \ {i} : status[j] = "pending" => about[j] # about[i]
  <1>1. ReviewRemembers(w) /\ ~ edited
      BY DEF AInv, Remembers, KeptApart
  <1>2. status[i] = "pending"
      BY <1>1 DEF ReviewRemembers
  <1> QED
      BY <1>1, <1>2, OpenQuestionFacts DEF ReviewRemembers, AInv, Answered

\* So its flush writes what the assignment says.
LEMMA ReviewFlush ==
  ASSUME processed \in [Signal -> BOOLEAN], NEW w, NEW s \in Signal,
         loaded[w].signals = {s}, loaded[w].flagged = {s}, processed[s]
  PROVE  /\ Flushed(w, loaded[w].signals, TRUE) = [processed EXCEPT ![s] = TRUE]
         /\ Flushed(w, loaded[w].signals, FALSE) = [processed EXCEPT ![s] = FALSE]
  <1>1. ASSUME NEW t \in Signal
        PROVE  /\ Flushed(w, {s}, TRUE)[t] = processed[t]
               /\ Flushed(w, {s}, FALSE)[t] = IF t = s THEN FALSE ELSE processed[t]
    <2>1. CASE t = s
        BY <2>1 DEF Flushed
    <2>2. CASE t # s
        BY <2>2 DEF Flushed
    <2> QED
        BY <2>1, <2>2
  <1>2. /\ Flushed(w, {s}, TRUE) = [t \in Signal |-> Flushed(w, {s}, TRUE)[t]]
        /\ Flushed(w, {s}, FALSE) = [t \in Signal |-> Flushed(w, {s}, FALSE)[t]]
      BY DEF Flushed
  <1>3. Flushed(w, {s}, TRUE) = [t \in Signal |-> processed[t]]
      BY <1>1, <1>2
  <1>4. Flushed(w, {s}, FALSE) = [t \in Signal |-> IF t = s THEN FALSE ELSE processed[t]]
      BY <1>1, <1>2
  <1> QED
      BY <1>3, <1>4

\* What every answer does and leaves alone.
LEMMA AnswerKeeps ==
  ASSUME AInv, Typed', edited' = edited, RowStep,
         NEW w \in Session, NEW i \in Item, NEW answer \in Status \ {"unused", "pending"},
         Answer(w, i, answer),
         NEW label \in {"idle", "lock"}, Goto(w, label), Load(w, Nothing),
         NEW flag \in BOOLEAN, processed' = [processed EXCEPT ![about[i]] = flag],
         UNCHANGED <<stored, about>>,
         \A j \in Item \ {i} : candidate'[j] = candidate[j],
         \A e \in Event, s \in Signal : evidence[e][s] <= evidence'[e][s],
         events \subseteq events', events' \subseteq Event,
         \A v \in Session : loaded[v].event \notin events' \ events
  PROVE  Keeps
  <1>1. /\ ~ edited /\ loaded[w].items = {i} /\ status[i] = "pending"
        /\ about[i] \in Signal /\ about[i] \in stored /\ processed[about[i]]
        /\ \A j \in Item \ {i} : status[j] = "pending" => about[j] # about[i]
      BY ReviewFacts DEF Answer
  <1>2. /\ status \in [Item -> Status] /\ processed \in [Signal -> BOOLEAN]
        /\ stored \subseteq Signal
      BY AInvTypes
  <1>3. \A j \in Item : status'[j] = IF j = i THEN answer ELSE status[j]
      BY <1>2 DEF Answer
  <1>4. \A s \in Signal : processed'[s] = IF s = about[i] THEN flag ELSE processed[s]
      BY <1>2
  <1>5. Answered'
    <2> SUFFICES ASSUME NEW j \in Item, status'[j] = "pending" PROVE processed'[about[j]]
        BY <1>1 DEF Answered
    <2>1. j # i /\ status[j] = "pending"
        BY <1>3
    <2>2. processed[about[j]] /\ about[j] # about[i]
        BY <1>1, <2>1 DEF AInv, Answered
    <2>3. about[j] \in Signal
        BY <2>1, OpenQuestionFacts DEF AInv
    <2> QED
        BY <1>4, <2>2, <2>3
  <1>6. NewIsUnprocessed'
      BY <1>1, <1>4 DEF AInv, NewIsUnprocessed
  <1>7. ASSUME NEW v \in Session \ {w} PROVE Spares(v)
    <2>1. \A s \in Unprocessed : s \in Unprocessed' /\ (UnderReview(s)' <=> UnderReview(s))
      <3> SUFFICES ASSUME NEW s \in Unprocessed
                   PROVE  s \in Unprocessed' /\ (UnderReview(s)' <=> UnderReview(s))
          OBVIOUS
      <3>1. s \in Signal /\ s \in stored /\ s # about[i] /\ ~processed[s]
          BY <1>1, <1>2 DEF Unprocessed
      <3> QED
          BY <1>3, <1>4, <3>1 DEF Unprocessed, UnderReview
    <2>2. pc[v] = "resolving" => \A j \in loaded[v].items : status'[j] = status[j]
      <3> SUFFICES ASSUME pc[v] = "resolving", NEW j \in loaded[v].items
                   PROVE  status'[j] = status[j]
          OBVIOUS
      <3>1. j \in Item
          BY AInvTypes DEF Fits, Loads
      <3>2. loaded[v].items = {j}
          BY <3>1, ReviewFacts
      <3>3. loaded[v].items # loaded[w].items
          BY DEF AInv, KeptApart, Answer
      <3>4. j # i
          BY <1>1, <3>2, <3>3
      <3> QED
          BY <1>3, <3>1, <3>4
    <2>3. pc[v] = "deleting" => loaded[v].event \in events'
        BY DEF AInv, Remembers, DeleteRemembers
    <2>4. pc[v] \notin {"checking", "updating"}
        BY <1>1 DEF AInv, Remembers, UpdateRemembers
    <2>5. \A j \in Item : status[j] # "unused" =>
              /\ status'[j] # "unused" /\ about'[j] = about[j]
              /\ status'[j] = "pending" =>
                    status[j] = "pending" /\ candidate'[j] = candidate[j]
        BY <1>3
    <2> QED
        BY <2>1, <2>2, <2>3, <2>4, <2>5 DEF Spares
  <1> QED
      BY <1>5, <1>6, <1>7, CommitKeeps

\* Approving and rejecting add one row of evidence, discarding and sending back none.
LEMMA AnswersKeep ==
  ASSUME AInv, Typed', edited' = edited, NEW w \in Session, NEW i \in Item,
         \/ CommitDiscard(w, i) \/ CommitRecluster(w, i)
         \/ \E e \in Event : CommitApprove(w, i, e) \/ CommitReject(w, i, e)
  PROVE  Keeps
  <1> DEFINE s == about[i]
  <1>1. /\ status[i] = "pending" /\ loaded[w].signals = {s} /\ loaded[w].flagged = {s}
        /\ loaded[w].event \in events => candidate[i] = loaded[w].event
        /\ s \in Signal /\ processed[s]
      BY ReviewFacts DEF CommitDiscard, CommitRecluster, CommitApprove, CommitReject, Answer
  <1>2. /\ processed \in [Signal -> BOOLEAN] /\ events \subseteq Event
        /\ evidence \in [Event -> [Signal -> Nat]] /\ events' \subseteq Event
        /\ candidate \in [Item -> Event \cup {None}]
      BY AInvTypes DEF Typed, TypeOK, TablesTypeOK
  <1>3. /\ Flushed(w, loaded[w].signals, TRUE) = [processed EXCEPT ![s] = TRUE]
        /\ Flushed(w, loaded[w].signals, FALSE) = [processed EXCEPT ![s] = FALSE]
      BY <1>1, <1>2, ReviewFlush
  <1> HIDE DEF s
  <1>4. \A e \in Event, t \in Signal : evidence[e][t] <= evidence[e][t]
      BY <1>2
  <1>5. CASE CommitDiscard(w, i)
    <2>1. AnswerWithoutEvent(i, "discarded")
        BY <1>1, <1>3, <1>5 DEF CommitDiscard, Answer, AnswerWithoutEvent, s
    <2>2. RowStep
        BY <2>1 DEF RowStep
    <2>3. processed' = [processed EXCEPT ![about[i]] = TRUE]
        BY <1>3, <1>5 DEF CommitDiscard, s
    <2> QED
        BY <1>2, <1>4, <1>5, <2>2, <2>3, AnswerKeeps DEF CommitDiscard, Finish
  <1>6. CASE CommitRecluster(w, i)
    <2>1. AnswerWithoutEvent(i, "reclustered")
        BY <1>1, <1>3, <1>6 DEF CommitRecluster, Answer, AnswerWithoutEvent, s
    <2>2. RowStep
        BY <2>1 DEF RowStep
    <2>3. processed' = [processed EXCEPT ![about[i]] = FALSE]
        BY <1>3, <1>6 DEF CommitRecluster, s
    <2> QED
        BY <1>2, <1>4, <1>6, <2>2, <2>3, AnswerKeeps DEF CommitRecluster
  <1>7. ASSUME NEW e \in Event,
               evidence' = AddEvidence(loaded[w].signals, [t \in loaded[w].signals |-> e])
        PROVE  /\ evidence' = AddEvidence({about[i]}, [t \in {about[i]} |-> e])
               /\ \A f \in Event, t \in Signal : evidence[f][t] <= evidence'[f][t]
    <2>1. evidence' = AddEvidence({about[i]}, [t \in {about[i]} |-> e])
        BY <1>1, <1>7 DEF s
    <2>2. ASSUME NEW f \in Event, NEW t \in Signal PROVE evidence[f][t] <= evidence'[f][t]
      <3>1. evidence[f][t] \in Nat
          BY <1>2
      <3>2. evidence'[f][t] = evidence[f][t] \/ evidence'[f][t] = evidence[f][t] + 1
          BY <1>2, <1>7, AddEvidenceEffect
      <3> QED
          BY <3>1, <3>2
    <2> QED
        BY <2>1, <2>2
  <1>8. ASSUME NEW e \in Event, CommitApprove(w, i, e) PROVE Keeps
    <2>1. /\ evidence' = AddEvidence({about[i]}, [t \in {about[i]} |-> e])
          /\ \A f \in Event, t \in Signal : evidence[f][t] <= evidence'[f][t]
        BY <1>7, <1>8 DEF CommitApprove
    <2>2. candidate' = [candidate EXCEPT ![i] = e]
        BY <1>1, <1>2, <1>8 DEF CommitApprove
    <2>3. events' = events \cup {e}
        BY <1>8 DEF CommitApprove
    <2>4. processed' = [processed EXCEPT ![about[i]] = TRUE]
        BY <1>3, <1>8 DEF CommitApprove, s
    <2>5. AnswerWithEvent(i, e, "approved")
        BY <1>1, <1>8, <2>1, <2>2, <2>3, <2>4 DEF CommitApprove, Answer, AnswerWithEvent
    <2>6. RowStep
        BY <2>5 DEF RowStep
    <2>7. \A j \in Item \ {i} : candidate'[j] = candidate[j]
        BY <1>2, <2>2
    <2>8. \A v \in Session : loaded[v].event \notin events' \ events
        BY <1>8 DEF CommitApprove
    <2> QED
        BY <1>2, <1>8, <2>1, <2>3, <2>4, <2>6, <2>7, <2>8, AnswerKeeps DEF CommitApprove, Finish
  <1>9. ASSUME NEW e \in Event, CommitReject(w, i, e) PROVE Keeps
    <2>1. /\ evidence' = AddEvidence({about[i]}, [t \in {about[i]} |-> e])
          /\ \A f \in Event, t \in Signal : evidence[f][t] <= evidence'[f][t]
        BY <1>7, <1>9 DEF CommitReject
    <2>2. processed' = [processed EXCEPT ![about[i]] = TRUE]
        BY <1>3, <1>9 DEF CommitReject, s
    <2>3. AnswerWithEvent(i, e, "rejected")
        BY <1>1, <1>9, <2>1, <2>2 DEF CommitReject, Answer, AnswerWithEvent
    <2>4. RowStep
        BY <2>3 DEF RowStep
    <2>5. events \subseteq events' /\ \A v \in Session : loaded[v].event \notin events' \ events
        BY <1>9 DEF CommitReject, Fresh
    <2> QED
        BY <1>2, <1>9, <2>1, <2>2, <2>4, <2>5, AnswerKeeps DEF CommitReject, Finish
  <1> QED
      BY <1>5, <1>6, <1>8, <1>9

-----------------------------------------------------------------------------
(* Deletions and items of sources.                                          *)

\* The event still has exactly the evidence that was loaded: more would have failed
\* the foreign key, and nothing else takes evidence away.
LEMMA CommitDeleteKeeps ==
  ASSUME AInv, Typed', edited' = edited, NEW w \in Session, CommitDelete(w) PROVE Keeps
  <1> DEFINE e == loaded[w].event
             items == loaded[w].items
  <1>0. /\ stored \subseteq Signal /\ processed \in [Signal -> BOOLEAN]
        /\ events \subseteq Event /\ evidence \in [Event -> [Signal -> Nat]]
        /\ candidate \in [Item -> Event \cup {None}] /\ items \subseteq Item
      BY AInvTypes DEF Fits, Loads
  <1>1. /\ e \in events /\ e \in Event
        /\ \A s \in Signal : evidence[e][s] = loaded[w].joins[s]
        /\ loaded[w].signals = {s \in Signal : evidence[e][s] > 0}
        /\ loaded[w].flagged = loaded[w].signals
        /\ \A i \in items : status[i] = "pending" => candidate[i] \in {e, None}
    <2>1. DeleteRemembers(w) /\ pc[w] = "deleting"
        BY DEF AInv, Remembers, CommitDelete
    <2>2. e \in events /\ e \in Event
        BY <1>0, <2>1 DEF DeleteRemembers
    <2>3. ASSUME NEW s \in Signal PROVE evidence[e][s] = loaded[w].joins[s]
      <3>1. /\ evidence[e][s] <= loaded[w].joins[s] /\ loaded[w].joins[s] <= evidence[e][s]
            /\ loaded[w].joins[s] \in Nat
          BY <2>1 DEF CommitDelete, DeleteRemembers
      <3>2. evidence[e][s] \in Nat
          BY <1>0, <2>2
      <3> QED
          BY <3>1, <3>2
    <2>4. loaded[w].signals = {s \in Signal : evidence[e][s] > 0}
        BY <2>1, <2>3 DEF DeleteRemembers
    <2> QED
        BY <2>1, <2>2, <2>3, <2>4 DEF DeleteRemembers
  <1>2. /\ events' = events \ {e} /\ UNCHANGED <<stored, status, about>>
        /\ evidence' = [evidence EXCEPT ![e] = [s \in Signal |-> 0]]
        /\ {i \in Item : candidate[i] = e} \subseteq items
        /\ candidate' = [i \in Item |-> IF i \in items THEN None ELSE candidate[i]]
      BY DEF CommitDelete
  <1>3. processed' = [s \in Signal |-> processed[s] /\ evidence[e][s] = 0]
    <2>1. processed' = [s \in Signal |-> Flushed(w, loaded[w].signals, FALSE)[s]]
        BY DEF CommitDelete, Flushed
    <2>2. ASSUME NEW s \in Signal
          PROVE  Flushed(w, loaded[w].signals, FALSE)[s] = (processed[s] /\ evidence[e][s] = 0)
      <3>1. evidence[e][s] \in Nat /\ processed[s] \in BOOLEAN
          BY <1>0, <1>1
      <3>2. CASE evidence[e][s] > 0
        <4>1. s \in loaded[w].signals /\ s \in loaded[w].flagged
            BY <1>1, <3>2
        <4>2. Flushed(w, loaded[w].signals, FALSE)[s] = FALSE
            BY <4>1 DEF Flushed
        <4>3. evidence[e][s] # 0
            BY <3>1, <3>2
        <4> QED
            BY <4>2, <4>3
      <3>3. CASE ~ (evidence[e][s] > 0)
        <4>1. s \notin loaded[w].signals
            BY <1>1, <3>3
        <4>2. Flushed(w, loaded[w].signals, FALSE)[s] = processed[s]
            BY <4>1 DEF Flushed
        <4>3. evidence[e][s] = 0
            BY <3>1, <3>3
        <4> QED
            BY <3>1, <4>2, <4>3
      <3> QED
          BY <3>2, <3>3
    <2> QED
        BY <2>1, <2>2
  <1>4. RowStep
    <2>1. DropEvent(e, items)
        BY <1>2, <1>3 DEF DropEvent
    <2> QED
        BY <1>0, <1>1, <2>1 DEF RowStep
  <1> HIDE DEF e, items
  <1>5. \A s \in Signal : processed'[s] => processed[s]
      BY <1>0, <1>3
  <1>6. Answered' /\ NewIsUnprocessed'
    <2>1. ASSUME ~ edited, NEW i \in Item, status[i] = "pending" PROVE processed'[about[i]]
      <3>1. about[i] \in Signal /\ evidence[e][about[i]] = 0
          BY <1>1, <2>1, OpenQuestionFacts DEF AInv, RowsInv, OpenQuestionUnattached
      <3>2. processed[about[i]]
          BY <2>1 DEF AInv, Answered
      <3> QED
          BY <1>3, <3>1, <3>2
    <2>2. Answered'
        BY <1>2, <2>1 DEF AInv, Answered
    <2>3. NewIsUnprocessed'
        BY <1>2, <1>5 DEF AInv, NewIsUnprocessed
    <2> QED
        BY <2>2, <2>3
  <1>7. ASSUME NEW v \in Session \ {w} PROVE Spares(v)
    <2>1. \A s \in Unprocessed : s \in Unprocessed' /\ (UnderReview(s)' <=> UnderReview(s))
        BY <1>0, <1>2, <1>5 DEF Unprocessed, UnderReview
    <2>2. \A i \in Item : status[i] = "pending" =>
              \/ candidate'[i] = candidate[i]
              \/ candidate'[i] = None /\ candidate[i] \notin events'
      <3> SUFFICES ASSUME NEW i \in Item, status[i] = "pending", i \in items
                   PROVE  \/ candidate'[i] = candidate[i]
                          \/ candidate'[i] = None /\ candidate[i] \notin events'
          BY <1>2
      <3>1. candidate'[i] = None
          BY <1>2
      <3>2. candidate[i] = e \/ candidate[i] = None
          BY <1>1
      <3> QED
          BY <1>2, <3>1, <3>2
    <2>3. pc[v] = "deleting" => loaded[v].event \in events'
      <3> SUFFICES ASSUME pc[v] = "deleting" PROVE loaded[v].event \in events'
          OBVIOUS
      <3>1. loaded[v].event \in events
          BY DEF AInv, Remembers, DeleteRemembers
      <3>2. loaded[v].event # e
          BY DEF AInv, KeptApart, CommitDelete, e
      <3> QED
          BY <1>2, <3>1, <3>2
    <2>4. \A f \in events', s \in Signal : evidence[f][s] <= evidence'[f][s]
      <3> SUFFICES ASSUME NEW f \in events', NEW s \in Signal
                   PROVE  evidence[f][s] <= evidence'[f][s]
          OBVIOUS
      <3>1. evidence'[f][s] = evidence[f][s] /\ evidence[f][s] \in Nat
          BY <1>0, <1>2
      <3> QED
          BY <3>1
    <2>5. pc[v] \notin {"checking", "updating"}
      <3>1. edited => pc[v] \notin {"checking", "updating"}
          BY DEF AInv, KeptApart, Ingesting, CommitDelete
      <3> QED
          BY <3>1 DEF AInv, Remembers, UpdateRemembers
    <2>6. loaded[v].event \notin events' \ events
        BY <1>2
    <2>7. \A i \in Item : status'[i] = status[i] /\ about'[i] = about[i]
        BY <1>2
    <2>8. pc[v] = "resolving" => \A i \in loaded[v].items : status'[i] = status[i]
        BY <1>2
    <2> QED
        BY <2>1, <2>2, <2>3, <2>4, <2>5, <2>6, <2>7, <2>8 DEF Spares
  <1> QED
      BY <1>4, <1>6, <1>7, CommitKeeps DEF CommitDelete, Finish

\* A step that changes neither evidence nor review rows and takes nothing from the
\* pool spares every session.
LEMMA PoolGrowsSpares ==
  ASSUME AInv, NEW v \in Session, UNCHANGED <<events, evidence, status, about, candidate>>,
         Unprocessed \subseteq Unprocessed'
  PROVE  Spares(v)
  <1>1. \A e \in Event, s \in Signal : evidence[e][s] <= evidence[e][s]
      BY AInvTypes
  <1>2. pc[v] = "deleting" => loaded[v].event \in events'
      BY DEF AInv, Remembers, DeleteRemembers
  <1> QED
      BY <1>1, <1>2, AInvTypes DEF Spares, UnderReview, Attached

\* A text update that was not attached when it was checked is under review still.
LEMMA CommitUpdateKeeps ==
  ASSUME AInv, Typed', edited' = edited, NEW w \in Session, CommitUpdate(w) PROVE Keeps
  <1> DEFINE assigned == loaded[w].signals \ loaded[w].skip
  <1>0. /\ processed \in [Signal -> BOOLEAN] /\ stored \subseteq Signal
        /\ loaded[w].signals \subseteq stored /\ UpdateRemembers(w) /\ pc[w] = "updating"
      BY AInvTypes DEF Fits, Remembers, CommitUpdate
  <1>1. PICK s \in Signal : loaded[w].signals = {s}
      BY <1>0 DEF UpdateRemembers
  <1>2. s \in stored /\ edited
      BY <1>0, <1>1 DEF UpdateRemembers
  <1>3. /\ processed' = Flushed(w, assigned, FALSE)
        /\ UNCHANGED <<stored, events, evidence, status, about, candidate>>
      BY DEF CommitUpdate, reviewRows
  <1>4. RowStep \/ UNCHANGED rows
    <2>1. CASE s \in loaded[w].flagged /\ s \notin loaded[w].skip
      <3>1. UnderReview(s)
          BY <1>0, <2>1 DEF UpdateRemembers
      <3>2. ~Attached(s)
          BY <3>1, OpenQuestionFacts DEF UnderReview, AInv
      <3>3. ASSUME NEW t \in Signal
            PROVE  Flushed(w, assigned, FALSE)[t] = IF t = s THEN FALSE ELSE processed[t]
          BY <1>1, <2>1 DEF Flushed
      <3>4. Flushed(w, assigned, FALSE) = [t \in Signal |-> Flushed(w, assigned, FALSE)[t]]
          BY DEF Flushed
      <3> HIDE DEF assigned
      <3>5. processed' = [t \in Signal |-> IF t = s THEN FALSE ELSE processed[t]]
          BY <1>3, <3>3, <3>4
      <3>6. processed' = [processed EXCEPT ![s] = FALSE]
          BY <1>0, <3>5
      <3>7. processed' = [processed EXCEPT ![s] = @ /\ Attached(s)]
          BY <3>2, <3>6
      <3>8. ReviseSignal(s)
          BY <1>2, <1>3, <3>7 DEF ReviseSignal, reviewRows
      <3> QED
          BY <3>8 DEF RowStep
    <2>2. CASE s \notin loaded[w].flagged
      <3>1. ASSUME NEW t \in Signal PROVE Flushed(w, assigned, FALSE)[t] = processed[t]
        <4>1. CASE t = s
          <5>1. (s \in loaded[w].flagged) = FALSE
              BY <2>2
          <5>2. (t \in assigned /\ (t \in loaded[w].flagged) # FALSE) = FALSE
              BY <4>1, <5>1
          <5> HIDE DEF assigned
          <5> QED
              BY <5>2 DEF Flushed
        <4>2. CASE t # s
            BY <1>1, <4>2 DEF Flushed
        <4> QED
            BY <4>1, <4>2
      <3>2. Flushed(w, assigned, FALSE) = [t \in Signal |-> Flushed(w, assigned, FALSE)[t]]
          BY DEF Flushed
      <3> HIDE DEF assigned
      <3>3. processed' = [t \in Signal |-> processed[t]]
          BY <1>3, <3>1, <3>2
      <3> QED
          BY <1>0, <1>3, <3>3 DEF rows, reviewRows
    <2>3. CASE s \in loaded[w].skip
      <3>1. assigned = {}
          BY <1>1, <2>3
      <3>2. Flushed(w, assigned, FALSE) = [t \in Signal |-> processed[t]]
          BY <3>1 DEF Flushed
      <3> QED
          BY <1>0, <1>3, <3>2 DEF rows, reviewRows
    <2> QED
        BY <2>1, <2>2, <2>3
  <1>5. \A t \in Signal : processed'[t] => processed[t]
      BY <1>3 DEF Flushed
  <1> HIDE DEF assigned
  <1>6. Answered' /\ NewIsUnprocessed'
      BY <1>2, <1>3, <1>5 DEF AInv, Answered, NewIsUnprocessed
  <1>7. \A v \in Session : Spares(v)
      BY <1>0, <1>3, <1>5, PoolGrowsSpares DEF Unprocessed
  <1> QED
      BY <1>4, <1>6, <1>7, CommitKeeps DEF CommitUpdate, Finish

LEMMA InsertSignalKeeps ==
  ASSUME AInv, Typed', edited' = edited, NEW w \in Session, NEW s \in Signal, InsertSignal(w, s)
  PROVE  Keeps
  <1>1. /\ s \notin stored /\ stored' = stored \cup {s} /\ NextIds({s}, stored, Signal)
        /\ UNCHANGED <<processed, events, evidence, status, about, candidate>>
      BY DEF InsertSignal, NextIds, reviewRows
  <1>2. processed \in [Signal -> BOOLEAN] /\ ~processed[s]
      BY <1>1, AInvTypes DEF AInv, NewIsUnprocessed
  <1>3. processed' = [processed EXCEPT ![s] = FALSE]
      BY <1>1, <1>2
  <1>4. StoreSignal(s)
      BY <1>1, <1>3 DEF StoreSignal, reviewRows
  <1>5. RowStep
      BY <1>4 DEF RowStep
  <1>6. Answered' /\ NewIsUnprocessed'
      BY <1>1 DEF AInv, Answered, NewIsUnprocessed
  <1>7. \A v \in Session : Spares(v)
      BY <1>1, PoolGrowsSpares DEF Unprocessed
  <1> QED
      BY <1>5, <1>6, <1>7, CommitKeeps DEF InsertSignal, Finish

LEMMA CheckEvidenceKeeps ==
  ASSUME AInv, Typed', edited' = edited, NEW w \in Session, CheckEvidence(w) PROVE Keeps
  <1> DEFINE attached == {s \in loaded[w].signals : Attached(s)}
  <1>0. /\ pc \in [Session -> PC] /\ loaded \in [Session -> Loads] /\ loaded[w] \in Loads
        /\ UpdateRemembers(w) /\ loaded[w].flagged \subseteq loaded[w].signals
      BY AInvTypes DEF Remembers, Fits
  <1>1. /\ pc[w] = "checking" /\ pc'[w] = "updating" /\ UNCHANGED rows
        /\ loaded'[w] = [loaded[w] EXCEPT !.skip = attached]
      BY <1>0 DEF CheckEvidence, Goto, Load
  <1>2. /\ loaded'[w].signals = loaded[w].signals /\ loaded'[w].flagged = loaded[w].flagged
        /\ loaded'[w].skip = attached
      BY <1>0, <1>1 DEF Loads
  <1>3. \A s \in loaded[w].flagged \ attached : UnderReview(s)
      BY <1>0, <1>1 DEF UpdateRemembers
  <1> HIDE DEF attached
  <1>4. UpdateRemembers(w)'
      BY <1>0, <1>1, <1>2, <1>3 DEF UpdateRemembers, rows, reviewRows, Attached, UnderReview
  <1>5. Remembers(w)'
      BY <1>1, <1>4 DEF Remembers, PassRemembers, DeleteRemembers, ReviewRemembers
  <1> QED
      BY <1>5, ReadKeeps DEF CheckEvidence

-----------------------------------------------------------------------------
(* All steps.                                                               *)

LEMMA CreateEventKeeps ==
  ASSUME AInv, Typed', edited' = edited, NEW e \in Event, CreateEvent(e) PROVE Keeps
  <1>1. /\ events' = events \cup {e} /\ \A w \in Session : loaded[w].event # e
        /\ UNCHANGED <<stored, processed, evidence, status, about, candidate, pc, loaded>>
      BY DEF CreateEvent, Fresh, reviewRows, sessionVars
  <1>2. RowStep
      BY DEF CreateEvent, AddEvent, RowStep
  <1>3. Answered' /\ NewIsUnprocessed'
      BY <1>1 DEF AInv, Answered, NewIsUnprocessed
  <1>4. \A f \in Event, s \in Signal : evidence[f][s] <= evidence[f][s]
      BY AInvTypes
  <1>5. events' \subseteq Event /\ evidence' \in [Event -> [Signal -> Nat]]
      BY DEF Typed, TypeOK, TablesTypeOK
  <1>6. ASSUME NEW v \in Session PROVE Remembers(v)'
    <2>1. pc[v] = "deleting" => loaded[v].event \in events'
        BY <1>1 DEF AInv, Remembers, DeleteRemembers
    <2>2. Spares(v)
        BY <1>1, <1>4, <1>5, <2>1 DEF Spares, Unprocessed, UnderReview, Attached
    <2> QED
        BY <1>1, <1>5, <2>2, SparedRemember
  <1> QED
      BY <1>2, <1>3, <1>6 DEF Keeps

\* A failed request forgets what it held; its locks are no matter here.
LEMMA AbortKeeps ==
  ASSUME AInv, Typed', edited' = edited, NEW w \in Session, Abort(w) PROVE Keeps
  <1>1. pc'[w] \in {"closing", "idle"}
      BY AInvTypes DEF Abort, Goto
  <1> QED
      BY <1>1, IdleWillRemember, ReadKeeps DEF Abort

LEMMA CrashKeeps ==
  ASSUME AInv, Typed', edited' = edited, NEW p \in Process, Crash(p) PROVE Keeps
  <1>0. UNCHANGED rows /\ \A w \in Session : pc'[w] = IF processOf[w] = p THEN "idle" ELSE pc[w]
      BY DEF Crash
  <1>1. UNCHANGED rows /\ \A w \in Session : processOf[w] # p => loaded'[w] = loaded[w]
      BY DEF Crash
  <1>2. events' \subseteq Event /\ evidence' \in [Event -> [Signal -> Nat]]
      BY DEF Typed, TypeOK, TablesTypeOK
  <1>3. ASSUME NEW v \in Session PROVE Remembers(v)'
    <2>1. CASE processOf[v] = p
      <3>1. pc'[v] = "idle"
          BY <1>0, <2>1
      <3> QED
          BY <3>1, IdleWillRemember
    <2>2. CASE processOf[v] # p
      <3>1. pc'[v] = pc[v] /\ loaded'[v] = loaded[v] /\ Spares(v)
          BY <1>0, <1>1, <2>2, SameRowsSpare
      <3> QED
          BY <1>2, <3>1, SparedRemember
    <2> QED
        BY <2>1, <2>2
  <1>4. Answered' /\ NewIsUnprocessed'
      BY <1>1 DEF AInv, Answered, NewIsUnprocessed, rows, reviewRows
  <1> QED
      BY <1>1, <1>3, <1>4 DEF Keeps

LEMMA StandingKeeps == ASSUME AInv, Typed', UNCHANGED apartVars PROVE Keeps
  <1>1. UNCHANGED rows /\ UNCHANGED <<pc, loaded, edited>>
      BY DEF apartVars, vars, sessionVars
  <1>2. events' \subseteq Event /\ evidence' \in [Event -> [Signal -> Nat]]
      BY DEF Typed, TypeOK, TablesTypeOK
  <1>3. ASSUME NEW v \in Session PROVE Remembers(v)'
      BY <1>1, <1>2, SameRowsSpare, SparedRemember
  <1>4. Answered' /\ NewIsUnprocessed'
      BY <1>1 DEF AInv, Answered, NewIsUnprocessed, rows, reviewRows
  <1> QED
      BY <1>1, <1>3, <1>4 DEF Keeps

LEMMA ApartStepKeeps == ASSUME AInv, [ApartNext]_apartVars PROVE Keeps /\ AInv'
  <1>1. [Next]_vars /\ edited' = edited
      BY DEF ApartNext, apartVars
  <1>2. Typed' /\ PassHoldsLock'
      BY <1>1, NextTyped, NextHoldsLock DEF AInv
  <1>3. KeptApart'
      BY DEF ApartNext, apartVars, vars, sessionVars, AInv, KeptApart
  <1>4. Keeps
    <2>1. ASSUME NEW w \in Session, Begin(w) PROVE Keeps
        BY <1>1, <1>2, <1>3, <2>1, BeginKeeps
    <2>2. ASSUME NEW w \in Session, Proceed(w) PROVE Keeps
      <3>1. ASSUME NEW s \in Signal, LoseInsert(w, s) PROVE Keeps
          BY <1>1, <1>2, <1>3, <3>1, LoadSignalKeeps DEF LoseInsert
      <3>2. ASSUME NEW s \in Signal, InsertSignal(w, s) PROVE Keeps
          BY <1>1, <1>2, <3>2, InsertSignalKeeps
      <3>3. CASE \/ TakeThreadLock(w) \/ TakeAdvisory(w) \/ ReadBatch(w) \/ ReadLinked(w)
                 \/ ReadPending(w) \/ Unlock(w) \/ Close(w)
          BY <1>1, <1>2, <3>3, PassReadsKeep
      <3>4. CASE CommitPass(w) \/ CheckEvidence(w) \/ CommitUpdate(w) \/ CommitDelete(w)
          BY <1>1, <1>2, <3>4, CommitPassKeeps, CheckEvidenceKeeps, CommitUpdateKeeps,
             CommitDeleteKeeps
      <3>5. ASSUME NEW i \in Item, CommitDiscard(w, i) \/ CommitRecluster(w, i) PROVE Keeps
          BY <1>1, <1>2, <3>5, AnswersKeep
      <3>6. ASSUME NEW i \in Item, NEW e \in Event, CommitApprove(w, i, e) \/ CommitReject(w, i, e)
            PROVE  Keeps
          BY <1>1, <1>2, <3>6, AnswersKeep
      <3> QED
          BY <2>2, <3>1, <3>2, <3>3, <3>4, <3>5, <3>6 DEF Proceed
    <2>3. ASSUME NEW w \in Session, Abort(w) PROVE Keeps
        BY <1>1, <1>2, <2>3, AbortKeeps
    <2>4. ASSUME NEW e \in Event, CreateEvent(e) PROVE Keeps
        BY <1>1, <1>2, <2>4, CreateEventKeeps
    <2>5. ASSUME NEW p \in Process, Crash(p) PROVE Keeps
        BY <1>1, <1>2, <2>5, CrashKeeps
    <2>6. CASE UNCHANGED apartVars
        BY <1>2, <2>6, StandingKeeps
    <2> QED
        BY <2>1, <2>2, <2>3, <2>4, <2>5, <2>6 DEF ApartNext, Next
  <1>5. RowsInv'
      BY <1>4, RowStepInv DEF AInv, Keeps
  <1> QED
      BY <1>1, <1>2, <1>3, <1>4, <1>5 DEF AInv, Keeps

LEMMA ApartInv == ApartSpec => []AInv
  <1>1. AInv /\ [ApartNext]_apartVars => AInv'
      BY ApartStepKeeps
  <1> QED
      BY <1>1, InitAInv, PTL DEF ApartSpec

\* Kept apart, no signal is lost or attached twice and no reviewer is asked twice,
\* for every number of sessions and rows, crashes and failed requests included.
THEOREM ApartLosesNothing ==
    ApartSpec => [](NothingLost /\ OneEvidencePerSignal /\ OneQuestionPerSignal)
  <1>1. AInv => NothingLost /\ OneEvidencePerSignal /\ OneQuestionPerSignal
      BY OneQuestionFollows DEF AInv, RowsInv
  <1> QED
      BY <1>1, ApartInv, PTL

\* The interleaved statements keep the promise Pipeline keeps with whole
\* transactions: every commit is a step of SignalFate.
THEOREM ApartKeepsPromise == ApartSpec => KeepsPromise
  <1>1. ApartInit => Fate!Init
      BY EmptyFate DEF ApartInit, Init
  <1>2. AInv /\ [ApartNext]_apartVars => [Fate!Next]_Fate!fate
      BY ApartStepKeeps, RowStepFate DEF Keeps, AInv
  <1> QED
      BY <1>1, <1>2, ApartInv, PTL DEF ApartSpec, KeepsPromise, Fate!Spec

=============================================================================
