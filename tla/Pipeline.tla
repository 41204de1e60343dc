------------------------------ MODULE Pipeline ------------------------------
(***************************************************************************)
(* The signal pipeline of event-intel, one action per committed database   *)
(* transaction: raw signals are stored, a cluster pass turns each into     *)
(* evidence of an event, a question for a reviewer, or a new event; a      *)
(* reviewer answers; an administrator creates and deletes events.          *)
(*                                                                         *)
(* Every transaction runs alone here.  This is what the code promises      *)
(* (clustering.py:143-147 serialises passes, review.py:18-19 asks every    *)
(* action to leave the signal consistent); Sessions.tla has the statements *)
(* of concurrent transactions interleave and says when the promise holds.  *)
(***************************************************************************)
EXTENDS Tables

VARIABLE reclustering  \* recluster handlers between their commit and their pass

vars == <<rows, reclustering>>

Init == EmptyTables /\ reclustering = {}

-----------------------------------------------------------------------------
(* Ingestion.                                                              *)

\* A source item seen for the first time becomes an unprocessed signal.
CreateSignal(s) ==
    /\ NextIds({s}, stored, Signal)
    /\ stored' = stored \cup {s}
    /\ processed' = [processed EXCEPT ![s] = FALSE]
    /\ UNCHANGED <<events, evidence, reviewRows, reclustering>>

UpdateSignalIgnoringEvidence(s) ==
    /\ s \in stored
    /\ processed' = [processed EXCEPT ![s] = FALSE]
    /\ UNCHANGED <<stored, events, evidence, reviewRows, reclustering>>

UpdateSignalDetaching(s) ==
    /\ s \in stored
    /\ processed' = [processed EXCEPT ![s] = FALSE]
    /\ evidence' = [e \in Event |-> [evidence[e] EXCEPT ![s] = 0]]
    /\ UNCHANGED <<stored, events, reviewRows, reclustering>>

\* The same item comes again with another text: queued for a new pass unless
\* it is evidence already.  (With the same text nothing modelled changes.)
UpdateSignal(s) ==
    /\ s \in stored
    /\ processed' = [processed EXCEPT ![s] = @ /\ Attached(s)]
    /\ UNCHANGED <<stored, events, evidence, reviewRows, reclustering>>

-----------------------------------------------------------------------------
(* Cluster passes.                                                         *)

Pass(limit) == WritePass(Batch(limit), Scored(Batch(limit)))

\* POST /signals/cluster, the end of every scan, the scheduler and run_once.
\* An empty batch changes nothing.
Cluster(limit) ==
    /\ Unprocessed # {}
    /\ Pass(limit)
    /\ UNCHANGED reclustering

-----------------------------------------------------------------------------
(* Review.  A resolved item is refused.                                    *)

ResolvableOnceCreated(i) == status[i] # "unused"
Resolvable(i) == status[i] = "pending"

\* The signal is about `e': the item's candidate or one the reviewer names.
ApproveKeepingCandidate(i, e) ==
    /\ Resolvable(i)
    /\ e \in events
    /\ evidence' = AddEvidence({about[i]}, [s \in {about[i]} |-> e])
    /\ processed' = [processed EXCEPT ![about[i]] = TRUE]
    /\ status' = [status EXCEPT ![i] = "approved"]
    /\ UNCHANGED <<stored, events, about, candidate, reclustering>>

ApproveLink(i, e) ==
    /\ Resolvable(i)
    /\ e \in events
    /\ evidence' = AddEvidence({about[i]}, [s \in {about[i]} |-> e])
    /\ processed' = [processed EXCEPT ![about[i]] = TRUE]
    /\ status' = [status EXCEPT ![i] = "approved"]
    /\ candidate' = [candidate EXCEPT ![i] = e]
    /\ UNCHANGED <<stored, events, about, reclustering>>

\* The signal is about something else: it seeds the new event `e'.
Reject(i, e) ==
    /\ Resolvable(i)
    /\ e \in Event \ events
    /\ events' = events \cup {e}
    /\ evidence' = AddEvidence({about[i]}, [s \in {about[i]} |-> e])
    /\ processed' = [processed EXCEPT ![about[i]] = TRUE]
    /\ status' = [status EXCEPT ![i] = "rejected"]
    /\ UNCHANGED <<stored, about, candidate, reclustering>>

\* The signal is noise.
Discard(i) ==
    /\ Resolvable(i)
    /\ processed' = [processed EXCEPT ![about[i]] = TRUE]
    /\ status' = [status EXCEPT ![i] = "discarded"]
    /\ UNCHANGED <<stored, events, evidence, about, candidate, reclustering>>

\* Back to the pool; the handler commits this and then runs a pass.
Recluster(i) ==
    /\ Resolvable(i)
    /\ processed' = [processed EXCEPT ![about[i]] = FALSE]
    /\ status' = [status EXCEPT ![i] = "reclustered"]
    /\ reclustering' = reclustering \cup {i}
    /\ UNCHANGED <<stored, events, evidence, about, candidate>>

\* The handler's own pass, of the default size.
ReclusterPass(i) ==
    /\ i \in reclustering
    /\ reclustering' = reclustering \ {i}
    /\ \/ Unprocessed # {} /\ Pass(DefaultLimit)
       \/ Unprocessed = {} /\ UNCHANGED rows

-----------------------------------------------------------------------------
(* Events.                                                                 *)

\* POST /events.
CreateEvent(e) ==
    /\ e \in Event \ events
    /\ events' = events \cup {e}
    /\ UNCHANGED <<stored, processed, evidence, reviewRows, reclustering>>

\* DELETE /events/{id}: the event's evidence goes with it, its signals return
\* to the pool, review rows that name it keep no candidate.
DeleteEventKeepingCandidates(e) ==
    /\ e \in events
    /\ events' = events \ {e}
    /\ processed' = [s \in Signal |-> processed[s] /\ evidence[e][s] = 0]
    /\ evidence' = [evidence EXCEPT ![e] = [s \in Signal |-> 0]]
    /\ UNCHANGED <<stored, reviewRows, reclustering>>

DeleteEventKeepingProcessed(e) ==
    /\ e \in events
    /\ events' = events \ {e}
    /\ evidence' = [evidence EXCEPT ![e] = [s \in Signal |-> 0]]
    /\ candidate' = [i \in Item |-> IF candidate[i] = e THEN None ELSE candidate[i]]
    /\ UNCHANGED <<stored, processed, status, about, reclustering>>

DeleteEventClearingStatus(e) ==
    /\ e \in events
    /\ events' = events \ {e}
    /\ processed' = [s \in Signal |-> processed[s] /\ evidence[e][s] = 0]
    /\ evidence' = [evidence EXCEPT ![e] = [s \in Signal |-> 0]]
    /\ status' = [i \in Item |-> IF candidate[i] = e THEN None ELSE status[i]]
    /\ UNCHANGED <<stored, about, candidate, reclustering>>

DeleteEvent(e) ==
    /\ e \in events
    /\ events' = events \ {e}
    /\ processed' = [s \in Signal |-> processed[s] /\ evidence[e][s] = 0]
    /\ evidence' = [evidence EXCEPT ![e] = [s \in Signal |-> 0]]
    /\ candidate' = [i \in Item |-> IF candidate[i] = e THEN None ELSE candidate[i]]
    /\ UNCHANGED <<stored, status, about, reclustering>>

\* The process stops: handlers between two transactions are gone, the rows stay.
Restart ==
    /\ reclustering # {}
    /\ reclustering' = {}
    /\ UNCHANGED rows

-----------------------------------------------------------------------------
Next ==
    \/ \E s \in Signal : CreateSignal(s) \/ UpdateSignal(s)
    \/ \E limit \in Limit : Cluster(limit)
    \/ \E i \in Item, e \in Event : ApproveLink(i, e) \/ Reject(i, e)
    \/ \E i \in Item : Discard(i) \/ Recluster(i) \/ ReclusterPass(i)
    \/ \E e \in Event : CreateEvent(e) \/ DeleteEvent(e)
    \/ Restart

Spec == Init /\ [][Next]_vars

-----------------------------------------------------------------------------
(* Properties.                                                             *)

\* The rows are well typed, and so are the handlers in flight.
TypeOK == TablesTypeOK /\ reclustering \subseteq Item

\* A question is about one signal for good and, once answered, keeps its answer
\* (review.py:65-66 refuses a resolved item).
AnswersAreFinal ==
    [][\A i \in Item : status[i] \notin {"unused", "pending"} =>
          status'[i] = status[i] /\ about'[i] = about[i]]_vars

\* A signal leaves the event it is evidence of only when that event is deleted:
\* no pass, update or review moves it.
EvidenceIsAuthoritative ==
    [][\A e \in events \cap events', s \in Signal :
          evidence[e][s] > 0 => evidence'[e][s] = evidence[e][s]]_vars

\* The transactions keep the promise of SignalFate: a signal is never dropped,
\* attached twice, moved, or asked about while it is attached.
KeepsPromise == Fate!Spec
=============================================================================
