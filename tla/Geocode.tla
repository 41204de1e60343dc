------------------------------ MODULE Geocode ------------------------------
(***************************************************************************)
(* Geocoding: text to place (forward) and point to place (reverse), with a *)
(* cache in the database and two providers behind circuit breakers.  The   *)
(* threads of one or more processes look places up inside the transactions *)
(* of their callers.                                                       *)
(*                                                                         *)
(* A query is a key of geocode_cache: a simplified address, or a spot, the *)
(* rounded point of a reverse lookup.  A row holds a place or a miss.      *)
(* Timers count down to zero instead of comparing with a clock.            *)
(***************************************************************************)
EXTENDS Integers, Sequences

CONSTANTS
    Process,      \* processes, each with its breakers and its throttle
    Thread,       \* threads that geocode
    processOf,    \* the process of a thread
    Address,      \* keys of forward lookups
    Spot,         \* keys of reverse lookups
    Candidates,   \* what forward_candidates makes of the texts looked up
    Google,       \* is settings.google_maps_api_key set?
    Nominatim,    \* settings.geocoding_enabled
    MinInterval,  \* settings.geocoder_min_interval_seconds, in ticks
    Backoff,      \* settings.geocoder_backoff_seconds, in ticks
    MaxLookups,   \* bound: lookups
    None

Query == Address \cup Spot

ASSUME GeocodeAssumption ==
    /\ processOf \in [Thread -> Process]
    /\ Address \cap Spot = {}
    /\ Candidates \subseteq Seq(Address) \ {<<>>}
    /\ {Google, Nominatim} \subseteq BOOLEAN
    /\ {MinInterval, MaxLookups} \subseteq Nat
    /\ Backoff \in Nat \ {0}
    /\ None \notin Thread

Answer == {"place", "miss"}
Row == Answer \cup {"absent"}

VARIABLES
    cache,          \* geocode_cache: committed rows
    written,        \* rows in the open transaction of each thread
    pc,             \* the next step of each thread
    lookups,        \* lookups begun so far
    local,          \* the local variables of its lookup
    wait,           \* how long its throttle still sleeps
    turn,           \* the holder of _rate_lock
    sinceCall,      \* ticks since _last_call, up to MinInterval
    googleDown, nominatimDown,  \* ticks until a breaker closes
    missed          \* queries some provider found nothing for

timers == <<wait, turn, sinceCall>>
breakers == <<googleDown, nominatimDown>>
vars == <<cache, written, pc, lookups, local, timers, breakers, missed>>

\* queries, at: the candidates and the current one; answer: what the providers
\* said; copy: the row as _cache_put loaded it; known: the rows that were
\* committed when the lookup began.
Nothing == [queries |-> <<>>, at |-> 1, answer |-> "miss", copy |-> "absent", known |-> {}]

Calling == {"google", "throttle", "sleeping", "nominatim"}
PC == {"idle", "look", "put", "write", "caller"} \cup Calling

Init ==
    /\ cache = [q \in Query |-> "absent"]
    /\ written = [w \in Thread |-> [q \in Query |-> "absent"]]
    /\ pc = [w \in Thread |-> "idle"]
    /\ lookups = 0
    /\ local = [w \in Thread |-> Nothing]
    /\ wait = [w \in Thread |-> 0]
    /\ turn = [p \in Process |-> None]
    /\ sinceCall = [p \in Process |-> MinInterval]
    /\ googleDown = [p \in Process |-> 0]
    /\ nominatimDown = [p \in Process |-> 0]
    /\ missed = {}

Goto(w, label) == pc' = [pc EXCEPT ![w] = label]
Current(w) == local[w].queries[local[w].at]
Return(w) == Goto(w, "caller") /\ local' = [local EXCEPT ![w] = Nothing]

\* What a statement of w sees: its own writes, else the committed row.
Visible(w, q) == IF written[w][q] = "absent" THEN cache[q] ELSE written[w][q]

GoogleAvailable(w) == Google /\ googleDown[processOf[w]] = 0
NominatimAvailable(w) == Nominatim /\ nominatimDown[processOf[w]] = 0

-----------------------------------------------------------------------------
(* forward and reverse.                                                    *)

Begin(w, candidates) ==
    /\ pc[w] \in {"idle", "caller"} /\ lookups < MaxLookups
    /\ lookups' = lookups + 1
    /\ local' = [local EXCEPT ![w] = [Nothing EXCEPT !.queries = candidates,
                                        !.known = {q \in Query : cache[q] # "absent"}]]
    /\ Goto(w, "look")
    /\ UNCHANGED <<cache, written, timers, breakers, missed>>

\* After a miss forward tries the next candidate, unless the first one missed
\* and no provider is usable; in the end the gazetteer answers.
AfterMiss(w) ==
    IF \/ local[w].at = Len(local[w].queries)
       \/ local[w].at = 1 /\ ~GoogleAvailable(w) /\ ~NominatimAvailable(w)
    THEN Return(w)
    ELSE Goto(w, "look") /\ local' = [local EXCEPT ![w].at = @ + 1]

AfterAnswer(w, a) == IF a = "place" THEN Return(w) ELSE AfterMiss(w)

MissIsNoRow(w) == Visible(w, Current(w)) # "place"

\* reverse takes a cached miss for no row at all.
MustAsk(w) ==
    \/ Visible(w, Current(w)) = "absent"
    \/ Visible(w, Current(w)) = "miss" /\ Current(w) \in Spot

UseCache(w) ==
    /\ pc[w] = "look" /\ ~MustAsk(w)
    /\ AfterAnswer(w, Visible(w, Current(w)))
    /\ UNCHANGED <<cache, written, lookups, timers, breakers, missed>>

-----------------------------------------------------------------------------
(* _chain.  Providers that fail are left alone for a while; when no        *)
(* provider answers nothing is cached and the gazetteer answers.           *)

AskNominatim(w) ==
    IF NominatimAvailable(w) THEN Goto(w, "throttle") /\ UNCHANGED local ELSE Return(w)

Ask(w) ==
    /\ pc[w] = "look" /\ MustAsk(w)
    /\ IF GoogleAvailable(w) THEN Goto(w, "google") /\ UNCHANGED local ELSE AskNominatim(w)
    /\ UNCHANGED <<cache, written, lookups, timers, breakers, missed>>

ProviderAnswers(w, a) ==
    /\ pc[w] \in {"google", "nominatim"}
    /\ local' = [local EXCEPT ![w].answer = a]
    /\ missed' = IF a = "miss" THEN missed \cup {Current(w)} ELSE missed
    /\ Goto(w, "put")
    /\ UNCHANGED <<cache, written, lookups, timers, breakers>>

GoogleFails(w) ==
    /\ pc[w] = "google"
    /\ googleDown' = [googleDown EXCEPT ![processOf[w]] = Backoff]
    /\ AskNominatim(w)
    /\ UNCHANGED <<cache, written, lookups, timers, nominatimDown, missed>>

FailsToAMiss(w) ==
    /\ pc[w] = "nominatim"
    /\ nominatimDown' = [nominatimDown EXCEPT ![processOf[w]] = Backoff]
    /\ Goto(w, "put")
    /\ UNCHANGED <<cache, written, lookups, local, timers, googleDown, missed>>

NominatimFails(w) ==
    /\ pc[w] = "nominatim"
    /\ nominatimDown' = [nominatimDown EXCEPT ![processOf[w]] = Backoff]
    /\ Return(w)
    /\ UNCHANGED <<cache, written, lookups, timers, googleDown, missed>>

-----------------------------------------------------------------------------
(* _throttle: the wait is computed and slept with _rate_lock held.         *)

TakeTurnUnlocked(w) ==
    LET p == processOf[w] IN
    /\ pc[w] = "throttle"
    /\ turn' = [turn EXCEPT ![p] = w]
    /\ wait' = [wait EXCEPT ![w] = MinInterval - sinceCall[p]]
    /\ Goto(w, "sleeping")
    /\ UNCHANGED <<cache, written, lookups, local, sinceCall, breakers, missed>>

TakeTurn(w) ==
    LET p == processOf[w] IN
    /\ pc[w] = "throttle" /\ turn[p] = None
    /\ turn' = [turn EXCEPT ![p] = w]
    /\ wait' = [wait EXCEPT ![w] = MinInterval - sinceCall[p]]
    /\ Goto(w, "sleeping")
    /\ UNCHANGED <<cache, written, lookups, local, sinceCall, breakers, missed>>

EndTurnKeepingLock(w) ==
    /\ pc[w] = "sleeping" /\ wait[w] = 0
    /\ sinceCall' = [sinceCall EXCEPT ![processOf[w]] = 0]
    /\ Goto(w, "nominatim")
    /\ UNCHANGED <<cache, written, lookups, local, wait, turn, breakers, missed>>

EndTurn(w) ==
    LET p == processOf[w] IN
    /\ pc[w] = "sleeping" /\ wait[w] = 0
    /\ turn' = [turn EXCEPT ![p] = None]
    /\ sinceCall' = [sinceCall EXCEPT ![p] = 0]
    /\ Goto(w, "nominatim")
    /\ UNCHANGED <<cache, written, lookups, local, wait, breakers, missed>>

-----------------------------------------------------------------------------
(* _cache_put, in a savepoint of the caller's transaction.                 *)

SelectRow(w) ==
    /\ pc[w] = "put"
    /\ local' = [local EXCEPT ![w].copy = Visible(w, Current(w))]
    /\ Goto(w, "write")
    /\ UNCHANGED <<cache, written, lookups, timers, breakers, missed>>

\* The row or the unique key is locked by the open transaction of v.
WaitsFor(w, v) == pc[w] = "write" /\ v # w /\ written[v][Current(w)] # "absent"

PutEnds(w) ==
    /\ AfterAnswer(w, local[w].answer)
    /\ UNCHANGED <<cache, lookups, timers, breakers, missed>>

\* The INSERT or UPDATE.  An insert that finds the key taken loses its race and
\* keeps the other copy; an update leaves out a result equal to the one loaded.
WriteRow(w) ==
    LET q == Current(w)
        a == local[w].answer
        lost == local[w].copy = "absent" /\ cache[q] # "absent"
    IN  /\ pc[w] = "write" /\ \A v \in Thread : ~WaitsFor(w, v)
        /\ written' = IF lost THEN written
                      ELSE [written EXCEPT ![w][q] =
                               IF local[w].copy = a THEN Visible(w, q) ELSE a]
        /\ PutEnds(w)

\* PostgreSQL fails one of several transactions that wait for each other: the
\* error ends the savepoint and the caller goes on.
BreakDeadlock(w) ==
    /\ \E cycle \in SUBSET Thread :
          w \in cycle /\ \A u \in cycle : \E v \in cycle : WaitsFor(u, v)
    /\ PutEnds(w)
    /\ UNCHANGED written

-----------------------------------------------------------------------------
(* The caller's transaction ends.                                          *)

Forget(w) == written' = [written EXCEPT ![w] = [q \in Query |-> "absent"]]

Commit(w) ==
    /\ pc[w] = "caller"
    /\ cache' = [q \in Query |-> Visible(w, q)]
    /\ Forget(w)
    /\ Goto(w, "idle")
    /\ UNCHANGED <<lookups, local, timers, breakers, missed>>

Rollback(w) ==
    /\ pc[w] = "caller"
    /\ Forget(w)
    /\ Goto(w, "idle")
    /\ UNCHANGED <<cache, lookups, local, timers, breakers, missed>>

Less(n) == IF n = 0 THEN 0 ELSE n - 1

Tick ==
    /\ wait' = [w \in Thread |-> Less(wait[w])]
    /\ sinceCall' = [p \in Process |-> IF sinceCall[p] < MinInterval
                                       THEN sinceCall[p] + 1 ELSE MinInterval]
    /\ googleDown' = [p \in Process |-> Less(googleDown[p])]
    /\ nominatimDown' = [p \in Process |-> Less(nominatimDown[p])]
    /\ UNCHANGED <<cache, written, pc, lookups, local, turn, missed>>

-----------------------------------------------------------------------------
Asked == {<<s>> : s \in Spot} \cup Candidates

\* The steps of a lookup and of the transaction around it, without its start.
Step(w) ==
    \/ UseCache(w) \/ Ask(w)
    \/ GoogleFails(w) \/ NominatimFails(w)
    \/ \E a \in Answer : ProviderAnswers(w, a)
    \/ TakeTurn(w) \/ EndTurn(w)
    \/ SelectRow(w) \/ WriteRow(w) \/ BreakDeadlock(w)
    \/ Commit(w) \/ Rollback(w)

Next ==
    \/ Tick
    \/ \E w \in Thread : Step(w) \/ \E candidates \in Asked : Begin(w, candidates)

Spec == Init /\ [][Next]_vars

\* Threads run, calls end (they have a timeout) and time passes.
FairSpec == Spec /\ WF_vars(Tick) /\ \A w \in Thread : WF_vars(Step(w))

-----------------------------------------------------------------------------
(* Properties.                                                             *)

\* Values are of their types, and _rate_lock is held by the thread that sleeps.
TypeOK ==
    /\ cache \in [Query -> Row] /\ written \in [Thread -> [Query -> Row]]
    /\ pc \in [Thread -> PC] /\ lookups \in 0 .. MaxLookups
    /\ local \in [Thread -> [queries : Asked \cup {<<>>}, at : Nat \ {0}, answer : Answer,
                              copy : Row, known : SUBSET Query]]
    /\ \A w \in Thread : IF pc[w] \in {"idle", "caller"} THEN local[w] = Nothing
                          ELSE local[w].at <= Len(local[w].queries)
    /\ wait \in [Thread -> 0 .. MinInterval]
    /\ turn \in [Process -> Thread \cup {None}]
    /\ sinceCall \in [Process -> 0 .. MinInterval]
    /\ googleDown \in [Process -> 0 .. Backoff] /\ nominatimDown \in [Process -> 0 .. Backoff]
    /\ missed \subseteq Query
    /\ \A w \in Thread : pc[w] = "sleeping" <=> turn[processOf[w]] = w

\* A cached miss is a provider's answer: an outage, whichever provider fails at
\* whichever moment and whoever trips the breaker, never leaves a miss behind
\* that would hide the place for good (geocoding.py:418-430, :494-496, :551-554).
OutagesAreNotCached ==
    \A q \in Query, w \in Thread : "miss" \in {cache[q], written[w][q]} => q \in missed

\* "a city or venue string is resolved at most once" (geocoding.py:18-19): a
\* lookup that begins after an answer was committed, a miss too, asks nobody for
\* it again, whatever else happens to the cache meanwhile.
StringsResolvedOnce ==
    \A w \in Thread : pc[w] \in Calling /\ Current(w) \in Address => Current(w) \notin local[w].known

\* The throttle keeps the provider's interval: two turns of one process are
\* MinInterval apart although each thread computes its sleep once, before it
\* sleeps (geocoding.py:222-228).
SpacedCalls ==
    [][\A w \in Thread : EndTurn(w) => sinceCall[processOf[w]] = MinInterval]_vars

\* Every lookup and the transaction around it end: threads that sleep in the
\* throttle, wait for a row another transaction wrote or wait for each other all
\* go on (geocoding.py:222-228, :460-479).
EveryLookupEnds == \A w \in Thread : pc[w] # "idle" ~> pc[w] = "idle"
=============================================================================
