--------------------------- MODULE Geocode_proofs ---------------------------
(* The cache holds answers only, strings are resolved once, and calls keep  *)
(* their interval, for every number of threads, processes and queries.      *)
EXTENDS Geocode, TLAPS

-----------------------------------------------------------------------------
(* The inductive invariant.                                                *)

Local == [queries : Asked \cup {<<>>}, at : Nat \ {0}, answer : Answer,
          copy : Row, known : SUBSET Query]

Outside == {"idle", "caller"}

\* A lookup is at one of its candidates; the miss it is about to cache is a
\* provider's answer; what it knows of is still there, since no committed row
\* is ever deleted; and it asks for no address it knows of.
Sound(w) ==
    /\ pc[w] \in PC /\ local[w] \in Local
    /\ IF pc[w] \in Outside THEN local[w] = Nothing ELSE local[w].at <= Len(local[w].queries)
    /\ pc[w] \in {"put", "write"} /\ local[w].answer = "miss" => Current(w) \in missed
    /\ \A q \in local[w].known : cache[q] # "absent"
    /\ pc[w] \in Calling /\ Current(w) \in Address => Current(w) \notin local[w].known

LookupsSound ==
    /\ pc \in [Thread -> PC] /\ local \in [Thread -> Local]
    /\ \A w \in Thread : Sound(w)

RowsSound ==
    /\ cache \in [Query -> Row] /\ written \in [Thread -> [Query -> Row]]
    /\ missed \subseteq Query
    /\ \A q \in Query : cache[q] = "miss" => q \in missed
    /\ \A w \in Thread, q \in Query : written[w][q] = "miss" => q \in missed

\* The holder of the lock sleeps what is left of the interval.
TurnsSound ==
    /\ wait \in [Thread -> 0 .. MinInterval]
    /\ turn \in [Process -> Thread \cup {None}]
    /\ sinceCall \in [Process -> 0 .. MinInterval]
    /\ \A w \in Thread :
          /\ pc[w] = "sleeping" <=> turn[processOf[w]] = w
          /\ pc[w] = "sleeping" => wait[w] + sinceCall[processOf[w]] = MinInterval

BreakersSound ==
    /\ googleDown \in [Process -> 0 .. Backoff]
    /\ nominatimDown \in [Process -> 0 .. Backoff]

IInv ==
    /\ LookupsSound /\ RowsSound /\ TurnsSound /\ BreakersSound
    /\ lookups \in 0 .. MaxLookups

-----------------------------------------------------------------------------
(* Lookups.                                                                *)

\* Whatever is looked up is a non-empty sequence of queries.
LEMMA AskedAreQueries ==
    ASSUME NEW candidates \in Asked
    PROVE  candidates \in Seq(Query) /\ Len(candidates) >= 1
  <1>1. CASE candidates \in Candidates
      BY <1>1, GeocodeAssumption DEF Query
  <1>2. CASE \E s \in Spot : candidates = <<s>>
      BY <1>2 DEF Query
  <1> QED
      BY <1>1, <1>2 DEF Asked

\* A lookup that is under way is at a query.
LEMMA CurrentIsQuery ==
    ASSUME NEW w \in Thread, Sound(w), pc[w] \notin Outside
    PROVE  /\ local[w].queries \in Asked
           /\ local[w].at \in 1 .. Len(local[w].queries)
           /\ Current(w) \in Query
  <1>1. local[w].queries \in Asked \cup {<<>>} /\ local[w].at \in Nat \ {0}
      BY DEF Sound, Local
  <1>2. local[w].at <= Len(local[w].queries)
      BY DEF Sound
  <1>3. local[w].queries \in Asked
      BY <1>1, <1>2
  <1> QED
      BY <1>1, <1>2, <1>3, AskedAreQueries DEF Current

LEMMA NothingIsLocal == Nothing \in Local /\ Nothing.known = {} /\ Nothing.at = 1
  BY DEF Nothing, Local, Answer, Row

\* The fields of a changed record.
LEMMA SetAt ==
    ASSUME NEW r \in Local, NEW n \in Nat \ {0}
    PROVE  LET s == [r EXCEPT !.at = n]
           IN  /\ s \in Local /\ s.at = n
               /\ s.queries = r.queries /\ s.answer = r.answer /\ s.known = r.known
  BY DEF Local

LEMMA SetAnswer ==
    ASSUME NEW r \in Local, NEW a \in Answer
    PROVE  LET s == [r EXCEPT !.answer = a]
           IN  /\ s \in Local /\ s.answer = a
               /\ s.queries = r.queries /\ s.at = r.at /\ s.known = r.known
  BY DEF Local

LEMMA SetCopy ==
    ASSUME NEW r \in Local, NEW c \in Row
    PROVE  LET s == [r EXCEPT !.copy = c]
           IN  /\ s \in Local /\ s.answer = r.answer
               /\ s.queries = r.queries /\ s.at = r.at /\ s.known = r.known
  BY DEF Local

LEMMA Started ==
    ASSUME NEW candidates \in Asked, NEW k \in SUBSET Query
    PROVE  LET s == [Nothing EXCEPT !.queries = candidates, !.known = k]
           IN  s \in Local /\ s.queries = candidates /\ s.at = 1 /\ s.known = k
  <1> DEFINE r == [Nothing EXCEPT !.queries = candidates]
  <1>1. r \in Local /\ r.queries = candidates /\ r.at = 1
      BY DEF Local, Nothing, Answer, Row
  <1>2. [Nothing EXCEPT !.queries = candidates, !.known = k] = [r EXCEPT !.known = k]
      BY Zenon
  <1> HIDE DEF r
  <1>3. LET s == [r EXCEPT !.known = k]
        IN  s \in Local /\ s.queries = r.queries /\ s.at = r.at /\ s.known = k
      BY <1>1 DEF Local
  <1> QED
      BY <1>1, <1>2, <1>3

\* The thread goes to a step with these local variables.
Moves(w, label, what) ==
    /\ label \in PC /\ what \in Local
    /\ pc' = [pc EXCEPT ![w] = label]
    /\ local' = [local EXCEPT ![w] = what]

\* Rows and misses only come.
Grows ==
    /\ missed \subseteq missed'
    /\ \A q \in Query : cache[q] # "absent" => cache'[q] # "absent"

\* A move leaves the other threads sound.
LEMMA MoveIsSound ==
    ASSUME LookupsSound, NEW w \in Thread, NEW label, NEW what,
           Moves(w, label, what), Grows, Sound(w)'
    PROVE  LookupsSound'
  <1>1. pc' \in [Thread -> PC] /\ local' \in [Thread -> Local]
      BY DEF LookupsSound, Moves
  <1>2. ASSUME NEW v \in Thread, v # w
        PROVE  Sound(v)'
    <2>1. pc'[v] = pc[v] /\ local'[v] = local[v]
        BY <1>2 DEF LookupsSound, Moves
    <2>2. Sound(v) /\ local[v].known \subseteq Query
        BY DEF LookupsSound, Local
    <2> QED
        BY <2>1, <2>2 DEF Sound, Grows, Current
  <1> QED
      BY <1>1, <1>2 DEF LookupsSound

\* Returning to the caller is sound.
LEMMA ReturnIsSound ==
    ASSUME LookupsSound, NEW w \in Thread, Return(w), Grows
    PROVE  LookupsSound' /\ pc' = [pc EXCEPT ![w] = "caller"]
  <1>1. Moves(w, "caller", Nothing)
      BY NothingIsLocal DEF Return, Goto, Moves, PC
  <1>2. pc'[w] = "caller" /\ local'[w] = Nothing
      BY <1>1 DEF Moves, LookupsSound
  <1>3. Sound(w)'
      BY <1>2, NothingIsLocal DEF Sound, Outside, Calling, PC
  <1> QED
      BY <1>1, <1>3, MoveIsSound DEF Moves

\* So is going on after an answer: to the caller or to the next candidate.
LEMMA AfterAnswerIsSound ==
    ASSUME LookupsSound, NEW w \in Thread, NEW a, pc[w] \notin Outside,
           AfterAnswer(w, a), Grows
    PROVE  LookupsSound' /\ \E label \in {"caller", "look"} : pc' = [pc EXCEPT ![w] = label]
  <1>1. CASE Return(w)
      BY <1>1, ReturnIsSound
  <1>2. CASE ~Return(w)
    <2> DEFINE what == [local[w] EXCEPT !.at = local[w].at + 1]
    <2>1. /\ Goto(w, "look") /\ local' = [local EXCEPT ![w].at = @ + 1]
          /\ local[w].at # Len(local[w].queries)
        BY <1>2 DEF AfterAnswer, AfterMiss
    <2>2. Sound(w) /\ local[w] \in Local
        BY DEF LookupsSound
    <2>3. local[w].at \in 1 .. Len(local[w].queries) /\ Len(local[w].queries) \in Nat
        BY <2>2, CurrentIsQuery, AskedAreQueries
    <2>4. /\ what \in Local /\ what.at = local[w].at + 1
          /\ what.queries = local[w].queries /\ what.known = local[w].known
      <3>1. local[w].at + 1 \in Nat \ {0}
          BY <2>3
      <3> QED
          BY <2>2, <3>1, SetAt, Zenon
    <2>5. Moves(w, "look", what)
        BY <2>1, <2>4 DEF Moves, Goto, PC
    <2>6. pc'[w] = "look" /\ local'[w] = what
        BY <2>5 DEF Moves, LookupsSound
    <2>7. \A q \in what.known : cache'[q] # "absent"
        BY <2>2, <2>4 DEF Sound, Local, Grows
    <2>8. Sound(w)'
        BY <2>1, <2>3, <2>4, <2>5, <2>6, <2>7 DEF Sound, Outside, Calling, Moves
    <2> QED
        BY <2>1, <2>5, <2>8, MoveIsSound DEF Goto
  <1> QED
      BY <1>1, <1>2

-----------------------------------------------------------------------------
(* Steps that leave rows and turns alone.                                  *)

LEMMA TurnsStand ==
    ASSUME TurnsSound, LookupsSound, NEW w \in Thread, NEW label,
           pc' = [pc EXCEPT ![w] = label], pc[w] # "sleeping", label # "sleeping",
           UNCHANGED timers
    PROVE  TurnsSound'
  <1>1. \A v \in Thread : pc'[v] = "sleeping" <=> pc[v] = "sleeping"
      BY DEF LookupsSound
  <1> QED
      BY <1>1 DEF TurnsSound, timers

LEMMA RowsStand ==
    ASSUME RowsSound, UNCHANGED <<cache, written>>, missed \subseteq missed', missed' \subseteq Query
    PROVE  RowsSound'
  BY DEF RowsSound

LEMMA BeginKeeps ==
    ASSUME IInv, NEW w \in Thread, NEW candidates \in Asked, Begin(w, candidates)
    PROVE  IInv'
  <1> DEFINE k == {q \in Query : cache[q] # "absent"}
             what == [Nothing EXCEPT !.queries = candidates, !.known = k]
  <1>1. what \in Local /\ what.queries = candidates /\ what.at = 1 /\ what.known = k
      BY Started
  <1>2. Moves(w, "look", what) /\ pc[w] \in Outside
      BY <1>1 DEF Begin, Goto, Moves, PC, Outside
  <1>3. Grows
      BY DEF Begin, Grows
  <1>4. pc'[w] = "look" /\ local'[w] = what
      BY <1>2 DEF Moves, IInv, LookupsSound
  <1>5. Sound(w)'
      BY <1>1, <1>2, <1>3, <1>4, AskedAreQueries DEF Sound, Moves, Outside, Calling, Grows
  <1>6. LookupsSound'
      BY <1>2, <1>3, <1>5, MoveIsSound DEF IInv
  <1>7. TurnsSound'
      BY <1>2, TurnsStand DEF IInv, Begin, Moves, Outside
  <1>8. RowsSound' /\ BreakersSound'
      BY DEF IInv, Begin, RowsSound, BreakersSound, breakers
  <1>9. lookups' \in 0 .. MaxLookups
      BY GeocodeAssumption DEF IInv, Begin
  <1> QED
      BY <1>6, <1>7, <1>8, <1>9 DEF IInv

LEMMA UseCacheKeeps ==
    ASSUME IInv, NEW w \in Thread, UseCache(w)
    PROVE  IInv'
  <1>1. Grows /\ pc[w] = "look" /\ pc[w] \notin Outside
      BY DEF UseCache, Grows, Outside
  <1>2. LookupsSound' /\ \E label \in {"caller", "look"} : pc' = [pc EXCEPT ![w] = label]
      BY <1>1, AfterAnswerIsSound DEF UseCache, IInv
  <1>3. TurnsSound'
      BY <1>1, <1>2, TurnsStand DEF IInv, UseCache
  <1>4. RowsSound' /\ BreakersSound' /\ lookups' \in 0 .. MaxLookups
      BY DEF IInv, UseCache, RowsSound, BreakersSound, breakers
  <1> QED
      BY <1>2, <1>3, <1>4 DEF IInv

\* Asking is sound: the address that is asked for was not known.
LEMMA AskIsSound ==
    ASSUME LookupsSound, NEW w \in Thread, NEW label \in Calling,
           pc[w] \notin Outside, UNCHANGED local, Goto(w, label), Grows,
           Current(w) \in Address => Current(w) \notin local[w].known
    PROVE  LookupsSound'
  <1>1. Sound(w)
      BY DEF LookupsSound
  <1>2. Moves(w, label, local[w])
      BY <1>1 DEF Moves, Goto, LookupsSound, PC, Sound
  <1>3. pc'[w] = label
      BY DEF Goto, LookupsSound
  <1>4. Sound(w)'
      BY <1>1, <1>2, <1>3 DEF Sound, Moves, Outside, Calling, Current, Grows, Local
  <1> QED
      BY <1>2, <1>4, MoveIsSound

LEMMA NominatimIsAsked ==
    ASSUME LookupsSound, NEW w \in Thread, AskNominatim(w), pc[w] \notin Outside, Grows,
           Current(w) \in Address => Current(w) \notin local[w].known
    PROVE  LookupsSound' /\ \E label \in {"throttle", "caller"} : pc' = [pc EXCEPT ![w] = label]
  <1>1. CASE Goto(w, "throttle") /\ UNCHANGED local
      BY <1>1, AskIsSound DEF Calling, Goto
  <1>2. CASE Return(w)
      BY <1>2, ReturnIsSound
  <1> QED
      BY <1>1, <1>2 DEF AskNominatim

LEMMA AskKeeps ==
    ASSUME IInv, NEW w \in Thread, Ask(w)
    PROVE  IInv'
  <1>1. Grows /\ pc[w] = "look" /\ pc[w] \notin Outside /\ LookupsSound /\ Sound(w)
      BY DEF Ask, Grows, Outside, IInv, LookupsSound
  <1>2. Current(w) \in Address => Current(w) \notin local[w].known
    <2>1. Current(w) \in Query
        BY <1>1, CurrentIsQuery
    <2>2. Current(w) \in Address => Visible(w, Current(w)) = "absent"
        BY GeocodeAssumption DEF Ask, MustAsk
    <2>3. cache[Current(w)] # "absent" => Visible(w, Current(w)) # "absent"
        BY DEF Visible
    <2> QED
        BY <1>1, <2>1, <2>2, <2>3 DEF Sound
  <1>3. CASE Goto(w, "google") /\ UNCHANGED local
    <2>1. LookupsSound'
        BY <1>1, <1>2, <1>3, AskIsSound DEF Calling
    <2>2. TurnsSound'
        BY <1>1, <1>3, TurnsStand DEF IInv, Ask, Goto
    <2> QED
        BY <2>1, <2>2 DEF IInv, Ask, RowsSound, BreakersSound, breakers
  <1>4. CASE AskNominatim(w)
    <2>1. LookupsSound' /\ \E label \in {"throttle", "caller"} : pc' = [pc EXCEPT ![w] = label]
        BY <1>1, <1>2, <1>4, NominatimIsAsked
    <2>2. TurnsSound'
        BY <1>1, <2>1, TurnsStand DEF IInv, Ask
    <2> QED
        BY <2>1, <2>2 DEF IInv, Ask, RowsSound, BreakersSound, breakers
  <1> QED
      BY <1>3, <1>4 DEF Ask

-----------------------------------------------------------------------------
(* The providers.                                                          *)

LEMMA ProviderAnswersKeeps ==
    ASSUME IInv, NEW w \in Thread, NEW a \in Answer, ProviderAnswers(w, a)
    PROVE  IInv'
  <1> DEFINE what == [local[w] EXCEPT !.answer = a]
  <1>1. /\ LookupsSound /\ Sound(w) /\ local[w] \in Local
        /\ pc[w] \notin Outside /\ pc[w] # "sleeping"
      BY DEF IInv, LookupsSound, ProviderAnswers, Outside
  <1>2. Current(w) \in Query
      BY <1>1, CurrentIsQuery
  <1>3. /\ what \in Local /\ what.answer = a /\ what.queries = local[w].queries
        /\ what.at = local[w].at /\ what.known = local[w].known
      BY <1>1, SetAnswer
  <1>4. Moves(w, "put", what)
      BY <1>3 DEF ProviderAnswers, Goto, Moves, PC
  <1>5. /\ missed \subseteq missed' /\ missed' \subseteq Query
        /\ a = "miss" => Current(w) \in missed'
      BY <1>2 DEF ProviderAnswers, IInv, RowsSound
  <1>6. Grows
      BY <1>5 DEF ProviderAnswers, Grows
  <1>7. pc'[w] = "put" /\ local'[w] = what
      BY <1>4 DEF Moves, LookupsSound, IInv
  <1>8. Current(w)' = Current(w)
      BY <1>3, <1>7 DEF Current
  <1>9. Sound(w)'
      BY <1>1, <1>3, <1>4, <1>5, <1>6, <1>7, <1>8
      DEF Sound, Outside, Calling, Moves, Grows, Local
  <1>10. LookupsSound'
      BY <1>1, <1>4, <1>6, <1>9, MoveIsSound
  <1>11. TurnsSound'
      BY <1>1, <1>4, TurnsStand DEF IInv, ProviderAnswers, Moves
  <1>12. RowsSound'
      BY <1>5, RowsStand DEF IInv, ProviderAnswers
  <1> QED
      BY <1>10, <1>11, <1>12 DEF IInv, ProviderAnswers, BreakersSound, breakers

LEMMA GoogleFailsKeeps ==
    ASSUME IInv, NEW w \in Thread, GoogleFails(w)
    PROVE  IInv'
  <1>1. /\ LookupsSound /\ Sound(w) /\ Grows
        /\ pc[w] \notin Outside /\ pc[w] # "sleeping" /\ pc[w] \in Calling
      BY DEF IInv, LookupsSound, GoogleFails, Outside, Calling, Grows
  <1>2. LookupsSound' /\ \E label \in {"throttle", "caller"} : pc' = [pc EXCEPT ![w] = label]
      BY <1>1, NominatimIsAsked DEF GoogleFails, Sound
  <1>3. TurnsSound'
      BY <1>1, <1>2, TurnsStand DEF IInv, GoogleFails
  <1>4. BreakersSound'
      BY GeocodeAssumption DEF IInv, BreakersSound, GoogleFails
  <1> QED
      BY <1>2, <1>3, <1>4 DEF IInv, GoogleFails, RowsSound

LEMMA NominatimFailsKeeps ==
    ASSUME IInv, NEW w \in Thread, NominatimFails(w)
    PROVE  IInv'
  <1>1. LookupsSound /\ Grows /\ pc[w] # "sleeping"
      BY DEF IInv, NominatimFails, Grows
  <1>2. LookupsSound' /\ pc' = [pc EXCEPT ![w] = "caller"]
      BY <1>1, ReturnIsSound DEF NominatimFails
  <1>3. TurnsSound'
      BY <1>1, <1>2, TurnsStand DEF IInv, NominatimFails
  <1>4. BreakersSound'
      BY GeocodeAssumption DEF IInv, BreakersSound, NominatimFails
  <1> QED
      BY <1>2, <1>3, <1>4 DEF IInv, NominatimFails, RowsSound

-----------------------------------------------------------------------------
(* The throttle.                                                           *)

LEMMA TakeTurnKeeps ==
    ASSUME IInv, NEW w \in Thread, TakeTurn(w)
    PROVE  IInv'
  <1> DEFINE p == processOf[w]
  <1>1. LookupsSound /\ Sound(w) /\ Grows /\ pc[w] \notin Outside /\ pc[w] \in Calling
      BY DEF IInv, LookupsSound, TakeTurn, Outside, Calling, Grows
  <1>2. LookupsSound'
      BY <1>1, AskIsSound DEF TakeTurn, Calling, Sound
  <1>3. p \in Process /\ turn[p] = None /\ pc[w] = "throttle"
      BY GeocodeAssumption DEF TakeTurn
  <1>4. pc' = [pc EXCEPT ![w] = "sleeping"] /\ pc \in [Thread -> PC]
      BY <1>1 DEF TakeTurn, Goto, LookupsSound
  <1>5. MinInterval - sinceCall[p] \in 0 .. MinInterval /\ sinceCall[p] \in Nat
      BY <1>3, GeocodeAssumption DEF IInv, TurnsSound
  <1>6. ASSUME NEW v \in Thread
        PROVE  /\ pc'[v] = "sleeping" <=> turn'[processOf[v]] = v
               /\ pc'[v] = "sleeping" => wait'[v] + sinceCall'[processOf[v]] = MinInterval
    <2>1. CASE v = w
      <3>1. pc'[v] = "sleeping" /\ turn'[p] = w /\ wait'[v] = MinInterval - sinceCall[p]
          BY <1>3, <1>4, <2>1 DEF TakeTurn, IInv, TurnsSound
      <3> QED
          BY <1>5, <2>1, <3>1, GeocodeAssumption DEF TakeTurn
    <2>2. CASE v # w
      <3>1. pc'[v] = pc[v] /\ wait'[v] = wait[v]
          BY <1>4, <2>2 DEF TakeTurn, IInv, TurnsSound
      <3>2. processOf[v] = p => pc[v] # "sleeping" /\ turn'[processOf[v]] # v
          BY <1>3, <2>2, GeocodeAssumption DEF TakeTurn, IInv, TurnsSound
      <3>3. processOf[v] # p => turn'[processOf[v]] = turn[processOf[v]]
          BY <1>3, GeocodeAssumption DEF TakeTurn, IInv, TurnsSound
      <3> QED
          BY <3>1, <3>2, <3>3 DEF TakeTurn, IInv, TurnsSound
    <2> QED
        BY <2>1, <2>2
  <1>7. /\ wait' \in [Thread -> 0 .. MinInterval]
        /\ turn' \in [Process -> Thread \cup {None}]
      BY <1>5 DEF TakeTurn, IInv, TurnsSound
  <1>8. TurnsSound'
      BY <1>6, <1>7 DEF TurnsSound, TakeTurn, IInv
  <1> QED
      BY <1>2, <1>8 DEF IInv, TakeTurn, RowsSound, BreakersSound, breakers

\* The turn ends when the interval is over.
LEMMA EndTurnIsSpaced ==
    ASSUME IInv, NEW w \in Thread, EndTurn(w)
    PROVE  sinceCall[processOf[w]] = MinInterval
  BY GeocodeAssumption DEF IInv, TurnsSound, EndTurn

LEMMA EndTurnKeeps ==
    ASSUME IInv, NEW w \in Thread, EndTurn(w)
    PROVE  IInv'
  <1> DEFINE p == processOf[w]
  <1>1. LookupsSound /\ Sound(w) /\ Grows /\ pc[w] \notin Outside /\ pc[w] \in Calling
      BY DEF IInv, LookupsSound, EndTurn, Outside, Calling, Grows
  <1>2. LookupsSound'
      BY <1>1, AskIsSound DEF EndTurn, Calling, Sound
  <1>3. p \in Process /\ turn[p] = w
      BY GeocodeAssumption DEF EndTurn, IInv, TurnsSound
  <1>4. pc' = [pc EXCEPT ![w] = "nominatim"] /\ pc \in [Thread -> PC]
      BY <1>1 DEF EndTurn, Goto, LookupsSound
  <1>5. ASSUME NEW v \in Thread
        PROVE  /\ pc'[v] = "sleeping" <=> turn'[processOf[v]] = v
               /\ pc'[v] = "sleeping" => wait'[v] + sinceCall'[processOf[v]] = MinInterval
    <2>1. CASE v = w
        BY <1>3, <1>4, <2>1, GeocodeAssumption DEF EndTurn, IInv, TurnsSound
    <2>2. CASE v # w
      <3>1. pc'[v] = pc[v] /\ wait'[v] = wait[v]
          BY <1>4, <2>2 DEF EndTurn
      <3>2. processOf[v] = p => pc[v] # "sleeping" /\ turn'[processOf[v]] # v
          BY <1>3, <2>2, GeocodeAssumption DEF EndTurn, IInv, TurnsSound
      <3>3. processOf[v] # p => /\ turn'[processOf[v]] = turn[processOf[v]]
                                /\ sinceCall'[processOf[v]] = sinceCall[processOf[v]]
          BY <1>3, GeocodeAssumption DEF EndTurn, IInv, TurnsSound
      <3> QED
          BY <3>1, <3>2, <3>3 DEF IInv, TurnsSound
    <2> QED
        BY <2>1, <2>2
  <1>6. turn' \in [Process -> Thread \cup {None}] /\ sinceCall' \in [Process -> 0 .. MinInterval]
      BY GeocodeAssumption DEF EndTurn, IInv, TurnsSound
  <1>7. TurnsSound'
      BY <1>5, <1>6 DEF TurnsSound, EndTurn, IInv
  <1> QED
      BY <1>2, <1>7 DEF IInv, EndTurn, RowsSound, BreakersSound, breakers

-----------------------------------------------------------------------------
(* The cache.                                                              *)

LEMMA VisibleIsRow ==
    ASSUME RowsSound, NEW w \in Thread, NEW q \in Query
    PROVE  Visible(w, q) \in Row /\ (Visible(w, q) = "miss" => q \in missed)
  BY DEF RowsSound, Visible

LEMMA SelectRowKeeps ==
    ASSUME IInv, NEW w \in Thread, SelectRow(w)
    PROVE  IInv'
  <1> DEFINE what == [local[w] EXCEPT !.copy = Visible(w, Current(w))]
  <1>1. /\ LookupsSound /\ Sound(w) /\ local[w] \in Local /\ Grows
        /\ pc[w] \notin Outside /\ pc[w] = "put"
      BY DEF IInv, LookupsSound, SelectRow, Outside, Grows
  <1>2. Visible(w, Current(w)) \in Row
      BY <1>1, CurrentIsQuery, VisibleIsRow DEF IInv
  <1>3. /\ what \in Local /\ what.answer = local[w].answer
        /\ what.queries = local[w].queries
        /\ what.at = local[w].at /\ what.known = local[w].known
      BY <1>1, <1>2, SetCopy
  <1>4. Moves(w, "write", what)
      BY <1>3 DEF SelectRow, Goto, Moves, PC
  <1>5. pc'[w] = "write" /\ local'[w] = what
      BY <1>4 DEF Moves, LookupsSound, IInv
  <1>6. Current(w)' = Current(w)
      BY <1>3, <1>5 DEF Current
  <1>7. Sound(w)'
      BY <1>1, <1>3, <1>4, <1>5, <1>6
      DEF Sound, Outside, Calling, Moves, SelectRow
  <1>8. LookupsSound'
      BY <1>1, <1>4, <1>7, MoveIsSound
  <1>9. TurnsSound'
      BY <1>1, <1>4, TurnsStand DEF IInv, SelectRow, Moves
  <1> QED
      BY <1>8, <1>9 DEF IInv, SelectRow, RowsSound, BreakersSound, breakers

\* The end of _cache_put, whatever it wrote.
LEMMA PutEndsSoundly ==
    ASSUME IInv, NEW w \in Thread, pc[w] = "write", PutEnds(w)
    PROVE  LookupsSound' /\ TurnsSound' /\ BreakersSound' /\ lookups' \in 0 .. MaxLookups
  <1>1. LookupsSound /\ Grows /\ pc[w] \notin Outside
      BY DEF IInv, PutEnds, Grows, Outside
  <1>2. LookupsSound' /\ \E label \in {"caller", "look"} : pc' = [pc EXCEPT ![w] = label]
      BY <1>1, AfterAnswerIsSound DEF PutEnds
  <1>3. TurnsSound'
      BY <1>2, TurnsStand DEF IInv, PutEnds
  <1> QED
      BY <1>2, <1>3 DEF IInv, PutEnds, BreakersSound, breakers

LEMMA WriteRowKeeps ==
    ASSUME IInv, NEW w \in Thread, WriteRow(w)
    PROVE  IInv'
  <1> DEFINE q == Current(w)
             a == local[w].answer
             value == IF local[w].copy = a THEN Visible(w, q) ELSE a
  <1>1. pc[w] = "write" /\ PutEnds(w) /\ RowsSound /\ Sound(w) /\ pc[w] \notin Outside
      BY DEF WriteRow, IInv, LookupsSound, Outside
  <1>2. q \in Query /\ a \in Answer /\ (a = "miss" => q \in missed)
      BY <1>1, CurrentIsQuery DEF Sound, Local
  <1>3. value \in Row /\ (value = "miss" => q \in missed)
      BY <1>1, <1>2, VisibleIsRow DEF Row
  <1>4. \/ written' = written
        \/ written' = [written EXCEPT ![w][q] = value]
      BY DEF WriteRow
  <1>5. /\ written' \in [Thread -> [Query -> Row]]
        /\ \A v \in Thread, r \in Query : written'[v][r] = "miss" => r \in missed
    <2>1. CASE written' = written
        BY <1>1, <2>1 DEF RowsSound
    <2>2. CASE written' = [written EXCEPT ![w][q] = value]
      <3> HIDE DEF q, value
      <3>1. written \in [Thread -> [Query -> Row]]
          BY <1>1 DEF RowsSound
      <3>2. written'[w] = [written[w] EXCEPT ![q] = value]
          BY <2>2, <3>1
      <3>3. \A v \in Thread : v # w => written'[v] = written[v]
          BY <2>2, <3>1
      <3>4. written' \in [Thread -> [Query -> Row]]
          BY <1>2, <1>3, <2>2, <3>1
      <3>5. \A r \in Query : written'[w][r] = "miss" => r \in missed
          BY <1>1, <1>2, <1>3, <3>1, <3>2 DEF RowsSound
      <3> QED
          BY <1>1, <3>3, <3>4, <3>5 DEF RowsSound
    <2> QED
        BY <1>4, <2>1, <2>2
  <1>6. RowsSound'
      BY <1>1, <1>5 DEF RowsSound, PutEnds
  <1> QED
      BY <1>1, <1>6, PutEndsSoundly DEF IInv

LEMMA BreakDeadlockKeeps ==
    ASSUME IInv, NEW w \in Thread, BreakDeadlock(w)
    PROVE  IInv'
  <1>1. pc[w] = "write" /\ PutEnds(w) /\ UNCHANGED written
      BY DEF BreakDeadlock, WaitsFor
  <1>2. RowsSound'
      BY <1>1 DEF IInv, RowsSound, PutEnds
  <1> QED
      BY <1>1, <1>2, PutEndsSoundly DEF IInv

-----------------------------------------------------------------------------
(* The callers' transactions, and time.                                    *)

\* A transaction ends outside a lookup.
LEMMA EndIsSound ==
    ASSUME IInv, NEW w \in Thread, pc[w] = "caller", Goto(w, "idle"), Grows,
           UNCHANGED <<local, timers, missed>>
    PROVE  LookupsSound' /\ TurnsSound'
  <1>1. LookupsSound /\ Sound(w) /\ local[w] = Nothing
      BY DEF IInv, LookupsSound, Sound, Outside
  <1>2. Moves(w, "idle", Nothing)
      BY <1>1, NothingIsLocal DEF Moves, Goto, PC, LookupsSound
  <1>3. pc'[w] = "idle" /\ local'[w] = Nothing
      BY <1>1, <1>2 DEF Moves, LookupsSound
  <1>4. Sound(w)'
      BY <1>3, NothingIsLocal DEF Sound, Outside, Calling, PC
  <1>5. LookupsSound'
      BY <1>1, <1>2, <1>4, MoveIsSound
  <1>6. TurnsSound'
      BY TurnsStand DEF IInv, Goto
  <1> QED
      BY <1>5, <1>6

LEMMA ForgetIsSound ==
    ASSUME RowsSound, NEW w \in Thread, Forget(w), UNCHANGED missed,
           cache' \in [Query -> Row], \A q \in Query : cache'[q] = "miss" => q \in missed
    PROVE  RowsSound'
  <1>1. written' \in [Thread -> [Query -> Row]]
      BY DEF RowsSound, Forget, Row
  <1>2. \A v \in Thread, q \in Query : written'[v][q] = "miss" => written[v][q] = "miss"
      BY DEF RowsSound, Forget
  <1> QED
      BY <1>1, <1>2 DEF RowsSound

LEMMA CommitKeeps ==
    ASSUME IInv, NEW w \in Thread, Commit(w)
    PROVE  IInv'
  <1>1. /\ cache' = [q \in Query |-> Visible(w, q)]
        /\ \A q \in Query : Visible(w, q) \in Row /\ (Visible(w, q) = "miss" => q \in missed)
      BY VisibleIsRow DEF Commit, IInv
  <1>2. RowsSound'
      BY <1>1, ForgetIsSound DEF Commit, IInv
  <1>3. Grows
      BY <1>1 DEF Commit, Grows, Visible
  <1>4. LookupsSound' /\ TurnsSound'
      BY <1>3, EndIsSound DEF Commit
  <1> QED
      BY <1>2, <1>4 DEF IInv, Commit, BreakersSound, breakers

LEMMA RollbackKeeps ==
    ASSUME IInv, NEW w \in Thread, Rollback(w)
    PROVE  IInv'
  <1>1. RowsSound'
      BY ForgetIsSound DEF Rollback, IInv, RowsSound
  <1>2. Grows
      BY DEF Rollback, Grows
  <1>3. LookupsSound' /\ TurnsSound'
      BY <1>2, EndIsSound DEF Rollback
  <1> QED
      BY <1>1, <1>3 DEF IInv, Rollback, BreakersSound, breakers

LEMMA TickKeeps ==
    ASSUME IInv, Tick
    PROVE  IInv'
  <1>1. LookupsSound'
      BY DEF IInv, Tick, LookupsSound, Sound, Current
  <1>2. BreakersSound'
      BY GeocodeAssumption DEF IInv, Tick, BreakersSound, Less
  <1>3. /\ wait' \in [Thread -> 0 .. MinInterval] /\ turn' = turn /\ pc' = pc
        /\ sinceCall' \in [Process -> 0 .. MinInterval]
      BY GeocodeAssumption DEF IInv, Tick, TurnsSound, Less
  <1>4. ASSUME NEW v \in Thread, pc[v] = "sleeping"
        PROVE  wait'[v] + sinceCall'[processOf[v]] = MinInterval
    <2>1. /\ wait[v] \in Nat /\ sinceCall[processOf[v]] \in Nat
          /\ wait[v] + sinceCall[processOf[v]] = MinInterval
        BY <1>4, GeocodeAssumption DEF IInv, TurnsSound
    <2>2. /\ wait'[v] = Less(wait[v])
          /\ sinceCall'[processOf[v]] = IF sinceCall[processOf[v]] < MinInterval
                                        THEN sinceCall[processOf[v]] + 1 ELSE MinInterval
        BY GeocodeAssumption DEF Tick
    <2> QED
        BY <2>1, <2>2, GeocodeAssumption DEF Less
  <1>5. TurnsSound'
      BY <1>3, <1>4 DEF IInv, TurnsSound
  <1> QED
      BY <1>1, <1>2, <1>5 DEF IInv, Tick, RowsSound

-----------------------------------------------------------------------------
LEMMA InitSound == Init => IInv
  <1> SUFFICES ASSUME Init PROVE IInv
      OBVIOUS
  <1>1. LookupsSound
      BY NothingIsLocal DEF Init, LookupsSound, Sound, Outside, Calling, PC
  <1>2. RowsSound
      BY DEF Init, RowsSound, Row
  <1>3. TurnsSound
      BY GeocodeAssumption DEF Init, TurnsSound
  <1>4. BreakersSound /\ lookups \in 0 .. MaxLookups
      BY GeocodeAssumption DEF Init, BreakersSound
  <1> QED
      BY <1>1, <1>2, <1>3, <1>4 DEF IInv

LEMMA StepKeeps == IInv /\ [Next]_vars => IInv'
  <1> SUFFICES ASSUME IInv, [Next]_vars PROVE IInv'
      OBVIOUS
  <1>1. CASE UNCHANGED vars
      BY <1>1 DEF IInv, LookupsSound, Sound, Current, RowsSound, TurnsSound, BreakersSound,
                  vars, timers, breakers
  <1>2. CASE Tick
      BY <1>2, TickKeeps
  <1>3. ASSUME NEW w \in Thread, Step(w)
        PROVE  IInv'
    <2>1. CASE UseCache(w) \/ Ask(w)
        BY <2>1, UseCacheKeeps, AskKeeps
    <2>2. CASE GoogleFails(w) \/ NominatimFails(w)
        BY <2>2, GoogleFailsKeeps, NominatimFailsKeeps
    <2>3. CASE \E a \in Answer : ProviderAnswers(w, a)
        BY <2>3, ProviderAnswersKeeps
    <2>4. CASE TakeTurn(w) \/ EndTurn(w)
        BY <2>4, TakeTurnKeeps, EndTurnKeeps
    <2>5. CASE SelectRow(w) \/ WriteRow(w) \/ BreakDeadlock(w)
        BY <2>5, SelectRowKeeps, WriteRowKeeps, BreakDeadlockKeeps
    <2>6. CASE Commit(w) \/ Rollback(w)
        BY <2>6, CommitKeeps, RollbackKeeps
    <2> QED
        BY <1>3, <2>1, <2>2, <2>3, <2>4, <2>5, <2>6 DEF Step
  <1>4. CASE \E w \in Thread, candidates \in Asked : Begin(w, candidates)
      BY <1>4, BeginKeeps
  <1> QED
      BY <1>1, <1>2, <1>3, <1>4 DEF Next

LEMMA Soundness == Spec => []IInv
  BY InitSound, StepKeeps, PTL DEF Spec

-----------------------------------------------------------------------------
(* What follows.                                                           *)

\* Every variable keeps its type, and the lock of the throttle is held by the
\* thread that sleeps in it.
THEOREM GeocodeTypes == Spec => []TypeOK
  <1>1. IInv => TypeOK
      BY DEF IInv, LookupsSound, Sound, RowsSound, TurnsSound, BreakersSound, TypeOK,
             Local, Outside
  <1> QED
      BY <1>1, Soundness, PTL

\* An outage never leaves a miss in the cache, whichever providers fail when.
THEOREM NoOutageIsCached == Spec => []OutagesAreNotCached
  <1>1. IInv => OutagesAreNotCached
      BY DEF IInv, RowsSound, OutagesAreNotCached
  <1> QED
      BY <1>1, Soundness, PTL

\* A string whose answer was committed is not asked for again by later lookups,
\* of any thread, over any run of commits, rollbacks and overwritten rows.
THEOREM StringsAreResolvedOnce == Spec => []StringsResolvedOnce
  <1>1. IInv => StringsResolvedOnce
      BY DEF IInv, LookupsSound, Sound, StringsResolvedOnce
  <1> QED
      BY <1>1, Soundness, PTL

\* The turns of a process are an interval apart, for every interval and every
\* number of threads.
THEOREM CallsAreSpaced == Spec => SpacedCalls
  <1>1. IInv => [\A w \in Thread : EndTurn(w) => sinceCall[processOf[w]] = MinInterval]_vars
      BY EndTurnIsSpaced
  <1> QED
      BY <1>1, Soundness, PTL DEF SpacedCalls
=============================================================================
