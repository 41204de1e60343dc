------------------------------- MODULE Venues -------------------------------
(***************************************************************************)
(* Venues and organizers: how the transaction that creates an event finds  *)
(* the venue it names, fills in what the row lacks, or inserts a new row,  *)
(* while other transactions do the same.                                   *)
(*                                                                         *)
(* The world is a line; an unknown point is Unpinned, an unknown city      *)
(* NoCity.  Normalized names are compared by Ratio, in percent.            *)
(***************************************************************************)
EXTENDS Integers, Sequences

CONSTANTS
    Creator,       \* sessions that create events
    Ask,           \* what events say of their venue: name, city, at
    Organizer,     \* names of organizers
    GenericName,   \* "TBA", "Online", names of gazetteer cities
    Ratio,         \* _ratio of two names
    Fuzzy,         \* FUZZY_THRESHOLD, in percent
    SamePlace,     \* VENUE_SAME_PLACE_KM, in points
    GenericPlace,  \* VENUE_GENERIC_SAME_PLACE_KM, in points
    CityAt,        \* reverse geocoding: the city of each point
    PinOf,         \* forward geocoding: the point of each name and city
    MaxVenues      \* bound: rows of venues

Unpinned == -1
NoCity == "no city"

Name == {a.name : a \in Ask}
CityName == {NoCity} \cup {a.city : a \in Ask} \cup {CityAt[p] : p \in DOMAIN CityAt}
Pin == DOMAIN CityAt \cup {Unpinned}
VenueRow == [name : Name, city : CityName, pin : Pin]

\* Of the geocoder: a city that is not in the gazetteer lies in itself.
ASSUME VenuesAssumption ==
    /\ {Fuzzy, SamePlace, MaxVenues} \subseteq Nat
    /\ GenericPlace \in 0 .. SamePlace
    /\ DOMAIN CityAt \subseteq Nat
    /\ \A a \in Ask : a.at \in Pin
    /\ \A n \in Name, c \in CityName : PinOf[<<n, c>>] \in Pin
    /\ \A n \in (Name \cap CityName) \ (GenericName \cup {NoCity}) :
          LET pin == PinOf[<<n, NoCity>>] IN pin # Unpinned => CityAt[pin] = n

VARIABLES
    venues,      \* rows: name, city, pin
    aliases,     \* venue_aliases: venue, alias
    organizers,  \* names of rows of organizers
    creating,    \* the transaction of each session
    watched,     \* one event, any of them: what it said, and the venue it got
    contested    \* <<venue, column>>: filled in by two transactions at a time

venuesVars == <<venues, aliases, organizers, creating, watched, contested>>

NoCreation == [pc |-> "idle"]
NoEvent == [venue |-> 0]

VenuesInit ==
    /\ venues = <<>> /\ aliases = {} /\ organizers = {}
    /\ creating = [w \in Creator |-> NoCreation]
    /\ watched = NoEvent /\ contested = {}

Pinned(row) == row.pin # Unpinned
Apart(p, q) == IF p <= q THEN q - p ELSE p - q

-----------------------------------------------------------------------------
(* get_or_create_venue: which row is it?                                   *)

IsGeneric(name, city) == name \in GenericName \/ name = city
Within(generic) == IF generic THEN GenericPlace ELSE SamePlace

\* _same_place: it takes two points to contradict.
Agrees(v, at, generic) ==
    at # Unpinned /\ Pinned(venues[v]) => Apart(at, venues[v].pin) <= Within(generic)

InCity(city) == {v \in DOMAIN venues : city = NoCity \/ venues[v].city = city}

AliasedAnywhere(name, city) == {v \in DOMAIN venues : [venue |-> v, alias |-> name] \in aliases}
Aliased(name, city) == {v \in InCity(city) : [venue |-> v, alias |-> name] \in aliases}

\* find_fuzzy_venue: an alias, else the venue with the best ratio.
FuzzyMatches(name, city) ==
    LET Score(v) == Ratio[<<name, venues[v].name>>]
    IN  IF Aliased(name, city) # {} THEN Aliased(name, city)
        ELSE {v \in InCity(city) : Score(v) >= Fuzzy /\ \A u \in InCity(city) : Score(u) <= Score(v)}

\* The rows an event may get; the order of the rows of a SELECT is free.  A
\* fuzzy match that disagrees is dropped, and the next best is not tried.
Matches(name, city, at, generic) ==
    LET exact == {v \in InCity(city) : venues[v].name = name /\ Agrees(v, at, generic)}
    IN  IF generic
        THEN {v \in DOMAIN venues : at # Unpinned /\ Pinned(venues[v]) /\ Agrees(v, at, generic)}
        ELSE IF exact # {} THEN exact ELSE FuzzyMatches(name, city)

\* geocoding.reverse, when it answers and when it does not.
CitiesAt(at) == {NoCity} \cup {CityAt[p] : p \in {at} \cap DOMAIN CityAt}

\* create_event begins.  cityThere: what reverse geocoding made of a point that
\* came without a city.
FindVenue(w, ask, cityThere) ==
    LET generic == IsGeneric(ask.name, ask.city)
        city == IF ask.city = NoCity /\ ask.at # Unpinned THEN cityThere ELSE ask.city
        found == Matches(ask.name, city, ask.at, generic)
        Fits(v) == Agrees(v, ask.at, generic)
    IN  /\ creating[w].pc = "idle"
        /\ \E v \in found \cup {0} :
              /\ IF v = 0 THEN found = {} \/ \E u \in found : ~Fits(u) ELSE Fits(v)
              /\ creating' = [creating EXCEPT ![w] =
                    [pc |-> "venue", name |-> ask.name, city |-> city, at |-> ask.at, generic |-> generic, venue |-> v,
                     copy |-> IF v = 0 THEN [name |-> ask.name, city |-> city, pin |-> ask.at] ELSE venues[v]]]
        /\ UNCHANGED <<venues, aliases, organizers, watched, contested>>

-----------------------------------------------------------------------------
(* The row is completed from the event, then by the geocoder.              *)

Completed(c) ==
    LET city == IF c.copy.city = NoCity THEN c.city ELSE c.copy.city
    IN  [name |-> IF ~c.generic /\ c.copy.name = city THEN c.name ELSE c.copy.name,
         city |-> city,
         pin |-> IF Pinned(c.copy) THEN c.copy.pin ELSE c.at]

\* _enrich_venue_geo, when the geocoder answers.
Enriched(row) ==
    LET hint == IF row.city # row.name THEN row.city ELSE NoCity
        pin == PinOf[<<row.name, hint>>]
        city == CityAt[IF Pinned(row) THEN row.pin ELSE pin]
    IN  IF Pinned(row) THEN [row EXCEPT !.city = IF @ = NoCity THEN city ELSE @]
        ELSE IF pin = Unpinned THEN row
        ELSE [row EXCEPT !.pin = pin, !.city = IF hint # NoCity THEN hint ELSE city]

\* The geocoder answers or not; then get_or_create_organizer: the row is there,
\* or it will be inserted.
CompleteVenue(w, answers, o) ==
    /\ creating[w].pc = "venue"
    /\ LET c == creating[w]
           row == Completed(c)
       IN  creating' = [creating EXCEPT ![w] =
               [pc |-> "commit", name |-> c.name, city |-> c.city, at |-> c.at, generic |-> c.generic,
                venue |-> c.venue, copy |-> c.copy, row |-> IF answers THEN Enriched(row) ELSE row,
                organizer |-> o, known |-> o \in organizers]]
    /\ UNCHANGED <<venues, aliases, organizers, watched, contested>>

\* The transaction fails: the organizer's unique name was inserted meanwhile, or
\* any other statement of the request raised.
AbandonEvent(w) ==
    /\ creating[w].pc # "idle"
    /\ creating' = [creating EXCEPT ![w] = NoCreation]
    /\ UNCHANGED <<venues, aliases, organizers, watched, contested>>

\* An UPDATE writes the columns that differ from the copy.
Written(current, copy, row) ==
    [k \in DOMAIN row |-> IF row[k] = copy[k] THEN current[k] ELSE row[k]]

\* Columns another transaction filled in, with something else, since the copy.
Overwritten(current, copy, row) ==
    {k \in {"city", "pin"} : row[k] # copy[k] /\ current[k] \notin {copy[k], row[k]}}

CommitEvent(w) ==
    LET c == creating[w]
        v == IF c.venue = 0 THEN Len(venues) + 1 ELSE c.venue
    IN  /\ c.pc = "commit"
        /\ c.known \/ c.organizer \notin organizers
        /\ c.venue = 0 => Len(venues) < MaxVenues
        /\ organizers' = organizers \cup {c.organizer}
        /\ venues' = IF c.venue = 0 THEN Append(venues, c.row)
                     ELSE [venues EXCEPT ![v] = Written(@, c.copy, c.row)]
        /\ aliases' = IF c.venue = 0 \/ c.generic \/ c.name = c.copy.name THEN aliases
                      ELSE aliases \cup {[venue |-> v, alias |-> c.name]}
        /\ watched' \in {watched, IF watched # NoEvent THEN watched
                                 ELSE [city |-> c.city, at |-> c.at, generic |-> c.generic, venue |-> v]}
        /\ contested' = IF c.venue = 0 THEN contested
                        ELSE contested \cup ({v} \X Overwritten(venues[v], c.copy, c.row))
        /\ creating' = [creating EXCEPT ![w] = NoCreation]

VenuesNext ==
    \/ \E w \in Creator :
          \/ \E ask \in Ask : \E cityThere \in CitiesAt(ask.at) : FindVenue(w, ask, cityThere)
          \/ \E answers \in BOOLEAN, o \in Organizer : CompleteVenue(w, answers, o)
          \/ AbandonEvent(w) \/ CommitEvent(w)

VenuesSpec == VenuesInit /\ [][VenuesNext]_venuesVars

-----------------------------------------------------------------------------
(* Properties.                                                             *)

VenuesTypeOK ==
    /\ Len(venues) <= MaxVenues
    /\ \A v \in DOMAIN venues : venues[v] \in VenueRow
    /\ aliases \subseteq [venue : DOMAIN venues, alias : Name]
    /\ organizers \subseteq Organizer
    /\ watched.venue \in 0 .. Len(venues)
    /\ contested \subseteq (DOMAIN venues) \X {"city", "pin"}

\* An event stays with a venue that fits it, whatever later events, aliases,
\* the geocoder and other transactions add to the row: in the city it named,
\* and not farther from its point than the limit, unless two transactions filled
\* in the city, or the pin, of the row at a time, differently
\* (event_service.py:67-75, venue_dedup.py:60-61).
EventsFitTheirVenue ==
    watched # NoEvent =>
        LET row == venues[watched.venue]
            Settled(column) == <<watched.venue, column>> \notin contested
        IN  /\ ~watched.generic /\ watched.city # NoCity /\ Settled("city") => row.city = watched.city
            /\ watched.at # Unpinned /\ Settled("pin")
               => Pinned(row) /\ Apart(watched.at, row.pin) <= Within(watched.generic)
=============================================================================
