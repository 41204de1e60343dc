------------------------------ MODULE Sessions ------------------------------
(***************************************************************************)
(* The requests of Pipeline.tla as database sessions that run side by side *)
(* on PostgreSQL: several threads of several processes, READ COMMITTED,    *)
(* one action per statement whose answer is used later.                    *)
(*                                                                         *)
(* A session loads rows, decides, and writes at its commit.  SQLAlchemy    *)
(* writes a column only when it differs from the loaded copy, so assigning *)
(* processed = FALSE to a signal loaded as unprocessed writes nothing,     *)
(* whatever the row holds by then.  Foreign keys fail a commit that would  *)
(* leave a row referring to a deleted event.                               *)
(*                                                                         *)
(* Cluster passes are serialised by _CLUSTER_LOCK, one per process, and a  *)
(* transaction-scoped advisory lock of the database; nothing serialises    *)
(* the other requests.  Kinds says which requests a session may make, and  *)
(* so which of them a configuration lets overlap.                          *)
(***************************************************************************)
EXTENDS Tables

CONSTANTS
    Process,    \* server processes on one database
    Session,    \* request threads and the scheduler thread
    processOf,  \* the process a session's thread belongs to
    Kinds       \* the requests each session makes

Kind == {"cluster", "resolve", "ingest", "delete"}

ASSUME SessionsAssumption ==
    /\ processOf \in [Session -> Process]
    /\ Kinds \in [Session -> SUBSET Kind]
    /\ None \notin Session

VARIABLES
    pc,          \* the next statement of each session
    loaded,      \* what the session has read and not yet used
    threadLock,  \* the holder of _CLUSTER_LOCK in each process
    advisory     \* the holder of pg_advisory_xact_lock

sessionVars == <<pc, loaded, threadLock, advisory>>
vars == <<rows, sessionVars>>

\* signals: raw_signals rows loaded; flagged: those whose copy is processed;
\* skip: those known to be attached or under review; items: review_queue rows;
\* event: an events row or the candidate of the item; joins: the event's rows of
\* event_evidence; others: the signals there were when an item was new.
Nothing == [signals |-> {}, flagged |-> {}, skip |-> {}, items |-> {},
            event |-> None, joins |-> <<>>, others |-> {}]

InPass == {"batch", "linked", "pending", "write"}
PC == {"idle", "lock", "advisory", "unlock", "closing",
       "resolving", "inserting", "checking", "updating", "deleting"} \cup InPass

Goto(w, label) == pc' = [pc EXCEPT ![w] = label]
Load(w, what) == loaded' = [loaded EXCEPT ![w] = what]
Finish(w) == Goto(w, "idle") /\ Load(w, Nothing)

\* The UPDATE a flush emits for signals assigned processed = value.
Flushed(w, assigned, value) ==
    [s \in Signal |-> IF s \in assigned /\ (s \in loaded[w].flagged) # value
                      THEN value ELSE processed[s]]

\* PostgreSQL never gives out an id again; the model may, once no session
\* remembers it.
Fresh(e) == e \in Event \ events /\ \A w \in Session : loaded[w].event # e

Init ==
    /\ EmptyTables
    /\ pc = [w \in Session |-> "idle"]
    /\ loaded = [w \in Session |-> Nothing]
    /\ threadLock = [p \in Process |-> None]
    /\ advisory = None

-----------------------------------------------------------------------------
(* POST /events: its one commit needs nothing read before.                 *)

CreateEvent(e) ==
    /\ Fresh(e)
    /\ events' = events \cup {e}
    /\ UNCHANGED <<stored, processed, evidence, reviewRows, sessionVars>>

-----------------------------------------------------------------------------
(* A cluster pass.                                                         *)

StartPass(w) ==
    /\ pc[w] = "idle" /\ "cluster" \in Kinds[w]
    /\ Goto(w, "lock")
    /\ UNCHANGED <<rows, loaded, threadLock, advisory>>

TakeThreadLock(w) ==
    /\ pc[w] = "lock" /\ threadLock[processOf[w]] = None
    /\ threadLock' = [threadLock EXCEPT ![processOf[w]] = w]
    /\ Goto(w, "advisory")
    /\ UNCHANGED <<rows, loaded, advisory>>

TakeAdvisoryUnchecked(w) ==
    /\ pc[w] = "advisory"
    /\ advisory' = w
    /\ Goto(w, "batch")
    /\ UNCHANGED <<rows, loaded, threadLock>>

TakeAdvisory(w) ==
    /\ pc[w] = "advisory" /\ advisory = None
    /\ advisory' = w
    /\ Goto(w, "batch")
    /\ UNCHANGED <<rows, loaded, threadLock>>

ReleaseThreadLock(w) ==
    threadLock' = [threadLock EXCEPT ![processOf[w]] = IF @ = w THEN None ELSE @]

\* With nothing to do the pass returns without a commit: the thread lock goes,
\* the advisory lock stays until the caller commits or closes the session.
ReadBatch(w) ==
    /\ pc[w] = "batch"
    /\ \/ /\ Unprocessed = {}
          /\ ReleaseThreadLock(w)
          /\ Goto(w, "closing")
          /\ UNCHANGED loaded
       \/ /\ Unprocessed # {}
          /\ Load(w, [Nothing EXCEPT !.signals = Batch(DefaultLimit)])
          /\ Goto(w, "linked")
          /\ UNCHANGED threadLock
    /\ UNCHANGED <<rows, advisory>>

ReadLinked(w) ==
    /\ pc[w] = "linked"
    /\ Load(w, [loaded[w] EXCEPT !.skip = {s \in loaded[w].signals : Attached(s)}])
    /\ Goto(w, "pending")
    /\ UNCHANGED <<rows, threadLock, advisory>>

ReadPendingOfAnyBatch(w) ==
    /\ pc[w] = "pending"
    /\ Load(w, [loaded[w] EXCEPT !.skip = @ \cup {s \in stored : UnderReview(s)}])
    /\ Goto(w, "write")
    /\ UNCHANGED <<rows, threadLock, advisory>>

ReadPending(w) ==
    /\ pc[w] = "pending"
    /\ Load(w, [loaded[w] EXCEPT
                  !.skip = @ \cup {s \in loaded[w].signals : UnderReview(s)}])
    /\ Goto(w, "write")
    /\ UNCHANGED <<rows, threadLock, advisory>>

\* Scores, writes and commits; the commit releases the advisory lock.
CommitPass(w) ==
    /\ pc[w] = "write"
    /\ WritePass(loaded[w].signals, loaded[w].signals \ loaded[w].skip)
    /\ \A e \in events' \ events : Fresh(e)
    /\ advisory' = None
    /\ Goto(w, "unlock") /\ Load(w, Nothing)
    /\ UNCHANGED threadLock

Unlock(w) ==
    /\ pc[w] = "unlock"
    /\ ReleaseThreadLock(w)
    /\ Goto(w, "idle")
    /\ UNCHANGED <<rows, loaded, advisory>>

\* The caller commits or get_db closes the session.
CloseKeepingTransaction(w) ==
    /\ pc[w] = "closing"
    /\ Finish(w)
    /\ UNCHANGED <<rows, threadLock, advisory>>

Close(w) ==
    /\ pc[w] = "closing"
    /\ advisory' = IF advisory = w THEN None ELSE advisory
    /\ Finish(w)
    /\ UNCHANGED <<rows, threadLock>>

-----------------------------------------------------------------------------
(* Resolving a review item.  The check that it is pending and the commit   *)
(* are two steps, and the item's row is not locked in between.             *)

ReadItem(w, i) ==
    /\ pc[w] = "idle" /\ "resolve" \in Kinds[w]
    /\ status[i] = "pending"
    /\ Load(w, [Nothing EXCEPT !.items = {i}, !.signals = {about[i]},
                               !.flagged = {s \in {about[i]} : processed[s]},
                               !.event = candidate[i]])
    /\ Goto(w, "resolving")
    /\ UNCHANGED <<rows, threadLock, advisory>>

Answer(w, i, answer) ==
    /\ pc[w] = "resolving" /\ i \in loaded[w].items
    /\ status' = [status EXCEPT ![i] = answer]

\* The event row exists when it is selected and when the evidence is inserted.
CommitApprove(w, i, e) ==
    /\ Answer(w, i, "approved")
    /\ e \in events
    /\ evidence' = AddEvidence(loaded[w].signals, [s \in loaded[w].signals |-> e])
    /\ processed' = Flushed(w, loaded[w].signals, TRUE)
    /\ candidate' = IF e = loaded[w].event THEN candidate
                    ELSE [candidate EXCEPT ![i] = e]
    /\ Finish(w)
    /\ UNCHANGED <<stored, events, about, threadLock, advisory>>

CommitReject(w, i, e) ==
    /\ Answer(w, i, "rejected")
    /\ Fresh(e)
    /\ events' = events \cup {e}
    /\ evidence' = AddEvidence(loaded[w].signals, [s \in loaded[w].signals |-> e])
    /\ processed' = Flushed(w, loaded[w].signals, TRUE)
    /\ Finish(w)
    /\ UNCHANGED <<stored, about, candidate, threadLock, advisory>>

CommitDiscard(w, i) ==
    /\ Answer(w, i, "discarded")
    /\ processed' = Flushed(w, loaded[w].signals, TRUE)
    /\ Finish(w)
    /\ UNCHANGED <<stored, events, evidence, about, candidate, threadLock, advisory>>

\* The handler goes on to a cluster pass of its own.
CommitRecluster(w, i) ==
    /\ Answer(w, i, "reclustered")
    /\ processed' = Flushed(w, loaded[w].signals, FALSE)
    /\ Goto(w, "lock") /\ Load(w, Nothing)
    /\ UNCHANGED <<stored, events, evidence, about, candidate, threadLock, advisory>>

-----------------------------------------------------------------------------
(* An item of a source is stored.  It is known and comes with another text,*)
(* or it is new, unless another session inserts it first.                  *)

LoadSignal(w, s) ==
    /\ Load(w, [Nothing EXCEPT !.signals = {s}, !.flagged = {t \in {s} : processed[t]}])
    /\ Goto(w, "checking")
    /\ UNCHANGED <<rows, threadLock, advisory>>

ReadSignal(w, s) ==
    /\ pc[w] = "idle" /\ "ingest" \in Kinds[w]
    /\ s \in stored
    /\ LoadSignal(w, s)

ReadNoSignal(w) ==
    /\ pc[w] = "idle" /\ "ingest" \in Kinds[w]
    /\ stored # Signal
    /\ Load(w, [Nothing EXCEPT !.others = stored])
    /\ Goto(w, "inserting")
    /\ UNCHANGED <<rows, threadLock, advisory>>

InsertSignal(w, s) ==
    /\ pc[w] = "inserting"
    /\ NextIds({s}, stored, Signal)
    /\ stored' = stored \cup {s}
    /\ Finish(w)
    /\ UNCHANGED <<processed, events, evidence, reviewRows, threadLock, advisory>>

\* The unique key is taken: the insert has waited for the transaction that took
\* it.  The session rolls back and finds the other's row.
LoseInsert(w, s) ==
    /\ pc[w] = "inserting"
    /\ s \in stored \ loaded[w].others
    /\ LoadSignal(w, s)

CheckEvidence(w) ==
    /\ pc[w] = "checking"
    /\ Load(w, [loaded[w] EXCEPT !.skip = {s \in loaded[w].signals : Attached(s)}])
    /\ Goto(w, "updating")
    /\ UNCHANGED <<rows, threadLock, advisory>>

CommitUpdate(w) ==
    /\ pc[w] = "updating"
    /\ processed' = Flushed(w, loaded[w].signals \ loaded[w].skip, FALSE)
    /\ Finish(w)
    /\ UNCHANGED <<stored, events, evidence, reviewRows, threadLock, advisory>>

-----------------------------------------------------------------------------
(* Deleting an event: it, its evidence with their signals, and the items   *)
(* that name it are loaded; the commit fails on a foreign key if a row     *)
(* referring to the event has come in since, but not if another session    *)
(* has deleted the event (the DELETE then matches no row).                 *)

ReadEvent(w, e) ==
    /\ pc[w] = "idle" /\ "delete" \in Kinds[w]
    /\ e \in events
    /\ LET attached == {s \in Signal : evidence[e][s] > 0}
       IN  Load(w, [Nothing EXCEPT !.event = e, !.joins = evidence[e],
                                   !.signals = attached,
                                   !.flagged = {s \in attached : processed[s]},
                                   !.items = {i \in Item : candidate[i] = e}])
    /\ Goto(w, "deleting")
    /\ UNCHANGED <<rows, threadLock, advisory>>

CommitDeleteWithoutForeignKeys(w) ==
    LET e == loaded[w].event
    IN  /\ pc[w] = "deleting" /\ e \in events
        /\ events' = events \ {e}
        /\ processed' = Flushed(w, loaded[w].signals, FALSE)
        /\ evidence' = [evidence EXCEPT ![e] = [s \in Signal |-> @[s] - loaded[w].joins[s]]]
        /\ candidate' = [i \in Item |-> IF i \in loaded[w].items THEN None ELSE candidate[i]]
        /\ Finish(w)
        /\ UNCHANGED <<stored, status, about, threadLock, advisory>>

CommitDelete(w) ==
    LET e == loaded[w].event
    IN  /\ pc[w] = "deleting"
        /\ \A s \in Signal : evidence[e][s] <= loaded[w].joins[s]
        /\ \A i \in Item : candidate[i] = e => i \in loaded[w].items
        /\ events' = events \ {e}
        /\ processed' = Flushed(w, loaded[w].signals, FALSE)
        /\ evidence' = [evidence EXCEPT ![e] = [s \in Signal |-> 0]]
        /\ candidate' = [i \in Item |-> IF i \in loaded[w].items THEN None ELSE candidate[i]]
        /\ Finish(w)
        /\ UNCHANGED <<stored, status, about, threadLock, advisory>>

-----------------------------------------------------------------------------
(* Failures.                                                               *)

\* A statement or commit raises: nothing was committed.  The exception leaves
\* `with _CLUSTER_LOCK' first and closes the session later.
Abort(w) ==
    /\ pc[w] \notin {"idle", "lock", "unlock", "closing"}
    /\ ReleaseThreadLock(w)
    /\ IF advisory = w THEN Goto(w, "closing") ELSE Goto(w, "idle")
    /\ Load(w, Nothing)
    /\ UNCHANGED <<rows, advisory>>

\* A process dies: PostgreSQL rolls its sessions back and drops their locks.
Crash(p) ==
    /\ \E w \in Session : processOf[w] = p /\ pc[w] # "idle"
    /\ pc' = [w \in Session |-> IF processOf[w] = p THEN "idle" ELSE pc[w]]
    /\ loaded' = [w \in Session |-> IF processOf[w] = p THEN Nothing ELSE loaded[w]]
    /\ threadLock' = [threadLock EXCEPT ![p] = None]
    /\ advisory' = IF advisory # None /\ processOf[advisory] = p THEN None ELSE advisory
    /\ UNCHANGED rows

-----------------------------------------------------------------------------
\* A session goes on with the request it has begun.
Proceed(w) ==
    \/ TakeThreadLock(w) \/ TakeAdvisory(w)
    \/ ReadBatch(w) \/ ReadLinked(w) \/ ReadPending(w) \/ CommitPass(w)
    \/ Unlock(w) \/ Close(w)
    \/ \E s \in Signal : InsertSignal(w, s) \/ LoseInsert(w, s)
    \/ CheckEvidence(w) \/ CommitUpdate(w) \/ CommitDelete(w)
    \/ \E i \in Item : CommitDiscard(w, i) \/ CommitRecluster(w, i)
    \/ \E i \in Item, e \in Event : CommitApprove(w, i, e) \/ CommitReject(w, i, e)

Begin(w) ==
    \/ StartPass(w)
    \/ \E i \in Item : ReadItem(w, i)
    \/ ReadNoSignal(w)
    \/ \E s \in Signal : ReadSignal(w, s)
    \/ \E e \in Event : ReadEvent(w, e)

Next ==
    \/ \E w \in Session : Begin(w) \/ Proceed(w) \/ Abort(w)
    \/ \E e \in Event : CreateEvent(e)
    \/ \E p \in Process : Crash(p)

Spec == Init /\ [][Next]_vars

-----------------------------------------------------------------------------
(* Properties.                                                             *)

TypeOK ==
    /\ TablesTypeOK
    /\ pc \in [Session -> PC]
    /\ \A w \in Session :
          /\ loaded[w].signals \cup loaded[w].others \subseteq stored /\ loaded[w].items \subseteq Item
          /\ loaded[w].flagged \cup loaded[w].skip \subseteq loaded[w].signals
          /\ loaded[w].event \in Event \cup {None}
    /\ threadLock \in [Process -> Session \cup {None}]
    /\ advisory \in Session \cup {None}

\* At most one pass, over all processes, is between reading its batch and its
\* commit, also when a pass returns early or fails and gives its two locks back
\* at different times (clustering.py:143-147).
OnePassAtATime ==
    \A v, w \in Session : pc[v] \in InPass /\ pc[w] \in InPass => v = w

\* The process-wide lock never stays taken: its holder may wait for a session of
\* another process, which in turn never waits for it (no cycle through the lock
\* of the interpreter and that of the database).
ThreadLockIsReleased ==
    \A p \in Process : threadLock[p] # None ~> threadLock[p] = None

\* The interleaved sessions still keep the promise of SignalFate.
KeepsPromise == Fate!Spec
=============================================================================
