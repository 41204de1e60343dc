----------------------------- MODULE Embeddings -----------------------------
(***************************************************************************)
(* Embeddings: the vector that is kept beside the text of a signal or of an*)
(* event.  Ingestion and PATCH write text and vector; cluster passes and   *)
(* the backfill worker fill in vectors that are missing.  All compute the  *)
(* vector from a copy they loaded, and write the columns that changed.     *)
(*                                                                         *)
(* A text is a title and a body (description), each in versions: 0 is none,*)
(* the last title is "Untitled event", which an event gets whose signal has*)
(* no title.  The vector of a text is named by the text.                   *)
(***************************************************************************)
EXTENDS Integers, FiniteSets

CONSTANTS
    SignalRow, EventRow,  \* rows of raw_signals and of events
    Writer,     \* sessions
    Process,    \* processes
    ProcessOf,  \* the process of each session
    Headings,   \* versions of a title, besides none
    Bodies,     \* versions of a body, besides none
    Enabled,    \* settings.embeddings_enabled
    MaxOpen     \* bound: rows that are being written at a time

ASSUME EmbeddingsAssumption ==
    /\ ProcessOf \in [Writer -> Process]
    /\ Headings \in Nat \ {0} /\ Bodies \in Nat /\ MaxOpen \in Nat /\ Enabled \in BOOLEAN
    /\ SignalRow \cap EventRow = {}

Row == SignalRow \cup EventRow
Text == [title : 0 .. Headings, body : 0 .. Bodies]
Untitled == Headings
Absent == [title |-> -1, body |-> -1]   \* no row; no vector

VARIABLES
    texts,     \* the text of each row
    vectors,   \* the vector of each row
    model,     \* of each process: "not loaded", "loaded" or "failed"
    writers,   \* the transaction of each session
    outdated   \* rows whose vector was kept, or computed, for another text

embeddingsVars == <<texts, vectors, model, writers, outdated>>

NoTask == [task |-> "none", todo |-> {}]

EmbeddingsInit ==
    /\ texts = [r \in Row |-> Absent]
    /\ vectors = [r \in Row |-> Absent]
    /\ model = [p \in Process |-> "not loaded"]
    /\ writers = [w \in Writer |-> NoTask]
    /\ outdated = {}

-----------------------------------------------------------------------------
(* encode.  The first use in a process, at start-up or by a request, loads *)
(* the model; two threads may load it at a time, and a failure is          *)
(* remembered unless another thread succeeds.                              *)

LoadModel(p, succeeds) ==
    /\ Enabled
    /\ model' = [model EXCEPT ![p] = IF succeeds \/ @ = "loaded" THEN "loaded" ELSE "failed"]
    /\ UNCHANGED <<texts, vectors, writers, outdated>>

Empty(text) == text.title = 0 /\ text.body = 0

\* What encode may return, once it has tried to load the model.
Encodings(p, text) ==
    {v \in {Absent} : ~Enabled \/ model[p] # "not loaded"}
    \cup {v \in {text} : model[p] = "loaded" /\ ~Empty(text)}

-----------------------------------------------------------------------------
(* New rows.                                                               *)

\* POST and PATCH refuse an event without a title.
Writable(r, text) == r \in EventRow => text.title # 0

CreateRow(w, r, text, vector) ==
    /\ writers[w] = NoTask /\ texts[r] = Absent /\ Writable(r, text)
    /\ vector \in Encodings(ProcessOf[w], text)
    /\ texts' = [texts EXCEPT ![r] = text]
    /\ vectors' = [vectors EXCEPT ![r] = vector]
    /\ UNCHANGED <<model, writers, outdated>>

\* create_event_from_signal: the event gets a title if the signal has none, and
\* the vector of the signal, if it has one, all the same.
Titled(text) == IF text.title = 0 THEN [text EXCEPT !.title = Untitled] ELSE text

SeedEvent(w, e, s, vector) ==
    /\ writers[w] = NoTask /\ texts[e] = Absent /\ texts[s] # Absent
    /\ IF vectors[s] # Absent THEN vector = vectors[s]
       ELSE vector \in Encodings(ProcessOf[w], Titled(texts[s]))
    /\ texts' = [texts EXCEPT ![e] = Titled(texts[s])]
    /\ vectors' = [vectors EXCEPT ![e] = vector]
    /\ outdated' = IF vectors[s] # Absent /\ s \in outdated THEN outdated \cup {e} ELSE outdated
    /\ UNCHANGED <<model, writers>>

-----------------------------------------------------------------------------
(* A session loads a copy of a row, and commits what it made of it.        *)

Copy(r) == [text |-> texts[r], vector |-> vectors[r]]

Open == {writers[w].row : w \in {v \in Writer : writers[v].task = "write"}}

Loads(w, r, text, todo) ==
    /\ Cardinality(Open \cup {r}) <= MaxOpen
    /\ writers' = [writers EXCEPT ![w] = [task |-> "write", row |-> r, copy |-> Copy(r), text |-> text, todo |-> todo]]

\* _update_signal, update_event
LoadForUpdate(w, r, text) ==
    /\ writers[w] = NoTask /\ texts[r] \notin {Absent, text} /\ Writable(r, text)
    /\ Loads(w, r, text, {})
    /\ UNCHANGED <<texts, vectors, model, outdated>>

\* A cluster pass meets a signal without a vector.
LoadForPass(w, r) ==
    /\ writers[w] = NoTask /\ texts[r] # Absent /\ vectors[r] = Absent
    /\ Loads(w, r, texts[r], {})
    /\ UNCHANGED <<texts, vectors, model, outdated>>

\* backfill_embeddings: the rows without a vector are chosen once.  A commit
\* expires the copies, so that a row of a later batch is loaded when it is its
\* turn, also if it has a vector by then.
StartBackfill(w, r) ==
    /\ writers[w] = NoTask /\ model[ProcessOf[w]] = "loaded"
    /\ texts[r] # Absent /\ vectors[r] = Absent
    /\ Loads(w, r, texts[r], {q \in Row \ {r} : texts[q] # Absent /\ vectors[q] = Absent})
    /\ UNCHANGED <<texts, vectors, model, outdated>>

BackfillNext(w, r) ==
    /\ writers[w].task = "none" /\ r \in writers[w].todo
    /\ Loads(w, r, texts[r], writers[w].todo \ {r})
    /\ UNCHANGED <<texts, vectors, model, outdated>>

\* The columns that differ from the copy are written.
Merged(current, copy, text) ==
    [k \in {"title", "body"} |-> IF text[k] = copy[k] THEN current[k] ELSE text[k]]

SaveKeepingVector(w, vector) ==
    LET c == writers[w] IN
    /\ c.task = "write" /\ vector \in Encodings(ProcessOf[w], c.text)
    /\ texts' = [texts EXCEPT ![c.row] = Merged(@, c.copy.text, c.text)]
    /\ vectors' = [vectors EXCEPT ![c.row] = IF @ = Absent THEN vector ELSE @]
    /\ writers' = [writers EXCEPT ![w] = [NoTask EXCEPT !.todo = c.todo]]
    /\ UNCHANGED <<model, outdated>>

\* embed_signal, embed_event, and the commit: without a new vector the old one
\* stays.
Save(w, vector) ==
    LET c == writers[w]
        kept == vector = Absent /\ c.text # c.copy.text /\ vectors[c.row] # Absent
        overtaken == vector # Absent /\ texts[c.row] # c.copy.text
    IN  /\ c.task = "write" /\ vector \in Encodings(ProcessOf[w], c.text)
        /\ texts' = [texts EXCEPT ![c.row] = Merged(@, c.copy.text, c.text)]
        /\ vectors' = [vectors EXCEPT ![c.row] = IF vector = Absent THEN @ ELSE vector]
        /\ outdated' = IF kept \/ overtaken THEN outdated \cup {c.row}
                       ELSE IF vector # Absent THEN outdated \ {c.row} ELSE outdated
        /\ writers' = [writers EXCEPT ![w] = [NoTask EXCEPT !.todo = c.todo]]
        /\ UNCHANGED model

\* The backfill ends early, or a transaction is rolled back.
GiveUp(w) ==
    /\ writers[w] # NoTask
    /\ writers' = [writers EXCEPT ![w] = NoTask]
    /\ UNCHANGED <<texts, vectors, model, outdated>>

Restart(p) ==
    /\ model' = [model EXCEPT ![p] = "not loaded"]
    /\ writers' = [w \in Writer |-> IF ProcessOf[w] = p THEN NoTask ELSE writers[w]]
    /\ UNCHANGED <<texts, vectors, outdated>>

EmbeddingsNext ==
    \/ \E p \in Process : Restart(p) \/ \E succeeds \in BOOLEAN : LoadModel(p, succeeds)
    \/ \E w \in Writer :
          \/ \E r \in Row : LoadForPass(w, r) \/ StartBackfill(w, r) \/ BackfillNext(w, r)
          \/ \E r \in Row, text \in Text : LoadForUpdate(w, r, text) \/ \E v \in {Absent, text} : CreateRow(w, r, text, v)
          \/ \E e \in EventRow, s \in SignalRow, v \in Text \cup {Absent} : SeedEvent(w, e, s, v)
          \/ \E v \in Text \cup {Absent} : Save(w, v)
          \/ GiveUp(w)

EmbeddingsSpec == EmbeddingsInit /\ [][EmbeddingsNext]_embeddingsVars

-----------------------------------------------------------------------------
(* Properties.                                                             *)

Task ==
    [task : {"none"}, todo : SUBSET Row]
    \cup [task : {"write"}, row : Row, copy : [text : Text, vector : Text \cup {Absent}], text : Text, todo : SUBSET Row]

EmbeddingsTypeOK ==
    /\ texts \in [Row -> Text \cup {Absent}] /\ vectors \in [Row -> Text \cup {Absent}]
    /\ model \in [Process -> {"not loaded", "loaded", "failed"}]
    /\ writers \in [Writer -> Task] /\ outdated \subseteq Row

\* The vector of an event without a title of its own may be that of the signal it
\* was seeded from.
OfItsText(r) ==
    \/ vectors[r] = texts[r]
    \/ r \in EventRow /\ texts[r] = Titled(vectors[r])

\* Two things leave a row with the vector of another text, and nothing else does:
\* a new text for which the encoder gave no vector while there was an old one, and
\* a vector computed from a text that another session replaced before the commit.
\* Passes, backfills, seeds and updates may otherwise overlap as they like, fill in
\* one vector twice or restart, and the next update that is not disturbed mends the
\* row (event_service.py:317-320, :416-417, clustering.py:202-203,
\* embeddings.py:131-152, backfill_embeddings.py:52-78).
VectorsFitTheirText ==
    \A r \in Row : vectors[r] # Absent /\ r \notin outdated => OfItsText(r)
=============================================================================
