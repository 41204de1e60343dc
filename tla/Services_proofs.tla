--------------------------- MODULE Services_proofs ---------------------------
(* The services around the tables, for every number of sessions, threads and *)
(* clients, every map, setting and term: the proxies of external services,   *)
(* venues, discovery coverage, the limit on the scans of a visitor, vectors  *)
(* that fit their text, and candidates that miss no match.  At the end, all  *)
(* of them beside each other, the sources included.                          *)
EXTENDS MCServices, Sources_proofs, FiniteSetTheorems, TLAPS

-----------------------------------------------------------------------------
(* Places: proxies with terms, locks and fallbacks.                         *)

Requests ==
    [at : {"idle", "google", "photon", "details", "directory"}]
    \cup [at : {"token"}, origin : Origin, waited : 0 .. MaxLockWait]
    \cup [at : {"location"}, visitor : Visitor]

Types ==
    /\ directory.left \in 0 .. DirectoryTerm /\ quiet \in 0 .. DirectoryTerm
    /\ directory = [places |-> directory.places, left |-> directory.left]
    /\ tokens \in [Origin -> 0 .. Ttl]
    /\ served.left \in Int /\ served.waited \in Int
    /\ request \in [Client -> Requests]

\* What is left of the term of the directory and the time since it was asked
\* for make up the term.
TermIsCounted == directory.left + quiet >= DirectoryTerm

\* Who asks for the directory found its term over, and holds the lock.
AskersHoldTheLock ==
    \A c \in Client : At(c, "directory") =>
        directory.left = 0 /\ \A d \in Client : At(d, "directory") => d = c

PInv == Types /\ TermIsCounted /\ AskersHoldTheLock /\ TokensOutlastTheMargin

LEMMA TtlIsLong == Ttl \in Nat /\ Ttl >= LeastTtl
  BY PlacesAssumption DEF Ttl

LEMMA InitPInv == PlacesInit => PInv
  <1> SUFFICES ASSUME PlacesInit PROVE PInv
      OBVIOUS
  <1>1. Idle \in Requests /\ Idle.at = "idle"
      BY DEF Idle, Requests
  <1>2. Types
      BY <1>1, TtlIsLong, PlacesAssumption DEF PlacesInit, Types
  <1>3. TermIsCounted /\ AskersHoldTheLock
      BY <1>1, PlacesAssumption DEF PlacesInit, TermIsCounted, AskersHoldTheLock, At
  <1>4. TokensOutlastTheMargin
      BY PlacesAssumption DEF PlacesInit, TokensOutlastTheMargin
  <1> QED
      BY <1>2, <1>3, <1>4 DEF PInv

\* A step of a client that touches neither directory nor tokens.
LEMMA RequestsKeepPInv ==
    ASSUME PInv, NEW c \in Client, NEW r \in Requests, Goes(c, r),
           r.at = "directory" => ~DirectoryLocked /\ directory.left = 0,
           UNCHANGED <<directory, quiet, tokens, served>>
    PROVE  PInv'
  <1>1. request' = [request EXCEPT ![c] = r]
      BY DEF Goes
  <1>2. Types'
      BY <1>1 DEF PInv, Types
  <1>3. AskersHoldTheLock'
      BY <1>1 DEF PInv, Types, AskersHoldTheLock, DirectoryLocked, At
  <1> QED
      BY <1>2, <1>3 DEF PInv, TermIsCounted, TokensOutlastTheMargin

LEMMA DirectoryEndsKeepsPInv ==
    ASSUME PInv, NEW c \in Client, NEW fails \in BOOLEAN, DirectoryEnds(c, fails)
    PROVE  PInv'
  <1>1. /\ At(c, "directory")
        /\ directory' = [places |-> IF fails THEN Snapshot ELSE Snapshot \cup Newer, left |-> DirectoryTerm]
        /\ quiet' = 0 /\ UNCHANGED <<tokens, served>>
        /\ request' = [request EXCEPT ![c] = Idle]
      BY DEF DirectoryEnds, Goes
  <1>2. Idle \in Requests /\ Idle.at = "idle"
      BY DEF Idle, Requests
  <1>3. directory'.left = DirectoryTerm /\ directory' = [places |-> directory'.places, left |-> directory'.left]
      BY <1>1
  <1>4. Types'
      BY <1>1, <1>2, <1>3, PlacesAssumption DEF PInv, Types
  <1>5. TermIsCounted'
      BY <1>1, <1>3, PlacesAssumption DEF TermIsCounted
  <1>6. \A d \in Client : request'[d].at # "directory"
      BY <1>1, <1>2 DEF PInv, Types, AskersHoldTheLock, At
  <1> QED
      BY <1>1, <1>4, <1>5, <1>6 DEF PInv, AskersHoldTheLock, At, TokensOutlastTheMargin

\* A cached token outlasts the margin, or a new one is issued, which does.
LEMMA TakeTokenKeepsPInv ==
    ASSUME PInv, NEW c \in Client, TakeToken(c)
    PROVE  PInv'
  <1> DEFINE r == request[c]
             left == IF tokens[r.origin] + r.waited > Margin THEN tokens[r.origin] ELSE Ttl - r.waited
  <1>1. /\ r.at = "token"
        /\ tokens' = [tokens EXCEPT ![r.origin] = left]
        /\ served' = [left |-> left, waited |-> r.waited]
        /\ request' = [request EXCEPT ![c] = Idle]
        /\ UNCHANGED <<directory, quiet>>
      BY DEF TakeToken, Goes, At
  <1>2. r.origin \in Origin /\ r.waited \in 0 .. MaxLockWait
      BY <1>1 DEF PInv, Types, Requests
  <1>3. tokens[r.origin] \in 0 .. Ttl
      BY <1>2 DEF PInv, Types
  <1>4. left \in 0 .. Ttl /\ left + r.waited > Margin
      BY <1>2, <1>3, TtlIsLong, PlacesAssumption
  <1>5. Idle \in Requests /\ Idle.at = "idle"
      BY DEF Idle, Requests
  <1> HIDE DEF left, r
  <1>6. served'.left \in Int /\ served'.waited \in Int /\ TokensOutlastTheMargin'
      BY <1>1, <1>2, <1>4, PlacesAssumption, TtlIsLong DEF TokensOutlastTheMargin
  <1>7. tokens' \in [Origin -> 0 .. Ttl] /\ request' \in [Client -> Requests]
      BY <1>1, <1>4, <1>5 DEF PInv, Types
  <1>8. AskersHoldTheLock'
      BY <1>1, <1>5 DEF PInv, Types, AskersHoldTheLock, At
  <1> QED
      BY <1>1, <1>6, <1>7, <1>8 DEF PInv, Types, TermIsCounted

\* Time takes from the term what it adds to the silence.
LEMMA TickKeepsPInv ==
    ASSUME PInv, PlacesTick
    PROVE  PInv'
  <1>1. /\ directory' = [directory EXCEPT !.left = Sooner(directory.left)]
        /\ quiet' = IF quiet < DirectoryTerm THEN quiet + 1 ELSE quiet
        /\ tokens' = [o \in Origin |-> Sooner(tokens[o])]
        /\ request' = [c \in Client |-> IF At(c, "token") THEN [request[c] EXCEPT !.waited = @ + 1] ELSE request[c]]
        /\ \A c \in Client : At(c, "token") => request[c].waited < MaxLockWait
        /\ UNCHANGED served
      BY DEF PlacesTick
  <1>2. /\ directory'.left = Sooner(directory.left) /\ directory'.places = directory.places
        /\ directory' = [places |-> directory'.places, left |-> directory'.left]
      BY <1>1 DEF PInv, Types
  <1>3. /\ directory'.left \in 0 .. DirectoryTerm /\ quiet' \in 0 .. DirectoryTerm
        /\ TermIsCounted' /\ (directory.left = 0 => directory'.left = 0)
      BY <1>1, <1>2, PlacesAssumption DEF PInv, Types, TermIsCounted, Sooner
  <1>4. tokens' \in [Origin -> 0 .. Ttl]
      <2>1. \A o \in Origin : tokens[o] \in 0 .. Ttl
          BY DEF PInv, Types
      <2> QED
          BY <1>1, <2>1, TtlIsLong DEF Sooner
  <1>5. ASSUME NEW c \in Client PROVE request'[c] \in Requests /\ request'[c].at = request[c].at
      <2>1. request[c] \in Requests
          BY DEF PInv, Types
      <2>2. CASE request[c].at = "token"
          <3>1. request[c] \in [at : {"token"}, origin : Origin, waited : 0 .. MaxLockWait]
              BY <2>1, <2>2 DEF Requests
          <3>2. request'[c] = [request[c] EXCEPT !.waited = request[c].waited + 1] /\ request[c].waited < MaxLockWait
              BY <1>1, <2>2 DEF At
          <3> QED
              BY <3>1, <3>2, PlacesAssumption DEF Requests
      <2>3. CASE request[c].at # "token"
          BY <1>1, <2>1, <2>3 DEF At
      <2> QED
          BY <2>2, <2>3
  <1>6. request' \in [Client -> Requests]
      BY <1>1, <1>5
  <1>7. AskersHoldTheLock'
      BY <1>3, <1>5 DEF PInv, AskersHoldTheLock, At
  <1> QED
      BY <1>1, <1>2, <1>3, <1>4, <1>6, <1>7 DEF PInv, Types, TokensOutlastTheMargin

LEMMA NextPInv == PInv /\ [PlacesNext]_placesVars => PInv'
  <1> SUFFICES ASSUME PInv, [PlacesNext]_placesVars PROVE PInv'
      OBVIOUS
  <1>a. Idle \in Requests /\ Idle.at = "idle"
      BY DEF Idle, Requests
  <1>b. AfterGoogle \in Requests /\ AfterGoogle.at # "directory"
      BY <1>a DEF AfterGoogle, Requests
  <1>c. ASSUME NEW step \in {"google", "photon", "details", "directory"}
        PROVE  [at |-> step] \in Requests /\ [at |-> step].at = step
      BY DEF Requests
  <1>1. ASSUME NEW c \in Client, Autocomplete(c) PROVE PInv'
      <2>1. PICK r \in {[at |-> "google"], AfterGoogle} : Goes(c, r)
          BY <1>1 DEF Autocomplete
      <2>2. r \in Requests /\ r.at # "directory" /\ UNCHANGED <<directory, quiet, tokens, served>>
          BY <1>1, <1>b, <1>c DEF Autocomplete, caches
      <2> QED
          BY <2>1, <2>2, RequestsKeepPInv
  <1>2. ASSUME NEW c \in Client, Resolve(c) PROVE PInv'
      BY <1>2, <1>c, RequestsKeepPInv DEF Resolve, caches
  <1>3. ASSUME NEW c \in Client, NEW fails \in BOOLEAN,
               GoogleEnds(c, fails) \/ PhotonEnds(c, fails) \/ DetailsEnd(c, fails)
        PROVE  PInv'
      <2>1. PICK r \in {Idle, AfterGoogle} : Goes(c, r)
          BY <1>3 DEF GoogleEnds, PhotonEnds, DetailsEnd
      <2>2. r \in Requests /\ r.at # "directory" /\ UNCHANGED <<directory, quiet, tokens, served>>
          BY <1>3, <1>a, <1>b DEF GoogleEnds, PhotonEnds, DetailsEnd, caches
      <2> QED
          BY <2>1, <2>2, RequestsKeepPInv
  <1>4. ASSUME NEW c \in Client, NEW fails \in BOOLEAN, DirectoryEnds(c, fails) PROVE PInv'
      BY <1>4, DirectoryEndsKeepsPInv
  <1>5. ASSUME NEW c \in Client, AskDirectory(c) PROVE PInv'
      BY <1>5, <1>c, RequestsKeepPInv DEF AskDirectory, caches
  <1>6. ASSUME NEW c \in Client, NEW o \in Origin, AskToken(c, o) PROVE PInv'
      <2> DEFINE r == [at |-> "token", origin |-> o, waited |-> 0]
      <2>1. r \in Requests /\ r.at # "directory"
          BY PlacesAssumption DEF Requests
      <2>2. Goes(c, r) /\ UNCHANGED <<directory, quiet, tokens, served>>
          BY <1>6 DEF AskToken, caches
      <2> HIDE DEF r
      <2> QED
          BY <2>1, <2>2, RequestsKeepPInv
  <1>7. ASSUME NEW c \in Client, TakeToken(c) PROVE PInv'
      BY <1>7, TakeTokenKeepsPInv
  <1>8. ASSUME NEW c \in Client, NEW v \in Visitor, AskLocation(c, v) PROVE PInv'
      <2> DEFINE r == [at |-> "location", visitor |-> v]
      <2>1. r \in Requests /\ r.at # "directory"
          BY DEF Requests
      <2>2. Goes(c, r) /\ UNCHANGED <<directory, quiet, tokens, served>>
          BY <1>8 DEF AskLocation, caches
      <2> HIDE DEF r
      <2> QED
          BY <2>1, <2>2, RequestsKeepPInv
  <1>9. ASSUME NEW c \in Client, NEW found \in BOOLEAN, LocationEnds(c, found) PROVE PInv'
      BY <1>9, <1>a, RequestsKeepPInv DEF LocationEnds
  <1>10. CASE PlacesTick
      BY <1>10, TickKeepsPInv
  <1>11. CASE UNCHANGED placesVars
      BY <1>11 DEF placesVars, caches, PInv, Types, TermIsCounted, AskersHoldTheLock, At, TokensOutlastTheMargin
  <1> QED
      BY <1>1, <1>2, <1>3, <1>4, <1>5, <1>6, <1>7, <1>8, <1>9, <1>10, <1>11 DEF PlacesNext

LEMMA SpecPInv == PlacesSpec => []PInv
  BY InitPInv, NextPInv, PTL DEF PlacesSpec

\* A token that is served has more than the margin left, less the wait for the
\* lock, for every configured lifetime (mapkit.py:39-55).
THEOREM TokensOutlast == PlacesSpec => []TokensOutlastTheMargin
  <1>1. PInv => TokensOutlastTheMargin
      BY DEF PInv
  <1> QED
      BY <1>1, SpecPInv, PTL

\* The directory of Luma is asked for by one thread at a time and once per term,
\* for every number of threads (luma_places.py:162-178).
THEOREM DirectoryAskedOnce == PlacesSpec => []DirectoryAskedOncePerTerm
  <1>1. PInv => DirectoryAskedOncePerTerm
      BY PlacesAssumption DEF PInv, Types, TermIsCounted, AskersHoldTheLock, DirectoryAskedOncePerTerm
  <1> QED
      BY <1>1, SpecPInv, PTL

\* The types of the timers and of the located addresses.
Located == [kept : BOOLEAN, found : BOOLEAN, left : 0 .. LocateTerm]
Kept == {v \in Visitor : located[v].kept}

PlacesBounds ==
    /\ googleDown \in 0 .. DownTime /\ photonDown \in 0 .. DownTime
    /\ directory.places \in {{}, Snapshot, Snapshot \cup Newer}
    /\ located \in [Visitor -> Located]
    /\ IsFiniteSet(Kept) /\ Cardinality(Kept) <= MaxLocated

LEMMA TimersAreNumbers == {DownTime, DirectoryTerm, LocateTerm, MaxLocated} \subseteq Nat
  BY PlacesAssumption

LEMMA NoneIsKept ==
    ASSUME located' = [v \in Visitor |-> NotKept]
    PROVE  located' \in [Visitor -> Located] /\ IsFiniteSet(Kept') /\ Cardinality(Kept') <= MaxLocated
  <1>1. NotKept \in Located /\ ~NotKept.kept
      BY TimersAreNumbers DEF NotKept, Located
  <1>2. Kept' = {}
      BY <1>1 DEF Kept
  <1> QED
      BY <1>1, <1>2, FS_EmptySet, TimersAreNumbers

LEMMA LocationEndsKeepsBounds ==
    ASSUME PInv, PlacesBounds, NEW c \in Client, NEW found \in BOOLEAN, LocationEnds(c, found)
    PROVE  PlacesBounds'
  <1> DEFINE visitor == request[c].visitor
             answer == [kept |-> TRUE, found |-> found, left |-> LocateTerm]
             kept == [located EXCEPT ![visitor] = answer]
             crowd == {v \in Visitor : kept[v].kept}
  <1>1. visitor \in Visitor
      BY DEF LocationEnds, At, PInv, Types, Requests
  <1>2. answer \in Located /\ answer.kept
      BY TimersAreNumbers DEF Located
  <1>3. /\ UNCHANGED <<googleDown, photonDown, directory>>
        /\ located' = IF Cardinality(crowd) > MaxLocated THEN [v \in Visitor |-> NotKept] ELSE kept
      BY DEF LocationEnds
  <1> HIDE DEF visitor, answer
  <1>4. located' \in [Visitor -> Located] /\ IsFiniteSet(Kept') /\ Cardinality(Kept') <= MaxLocated
    <2>1. CASE Cardinality(crowd) > MaxLocated
        BY <1>3, <2>1, NoneIsKept
    <2>2. CASE ~(Cardinality(crowd) > MaxLocated)
      <3>1. kept \in [Visitor -> Located] /\ located' = kept
          BY <1>1, <1>2, <1>3, <2>2 DEF PlacesBounds
      <3>2. crowd = Kept \cup {visitor}
          BY <1>1, <1>2 DEF PlacesBounds, Kept
      <3>3. IsFiniteSet(crowd) /\ Cardinality(crowd) \in Nat
        <4>1. IsFiniteSet(Kept \cup {visitor})
            BY FS_AddElement DEF PlacesBounds
        <4> QED
            BY <3>2, <4>1, FS_CardinalityType
      <3>4. Kept' = crowd
          BY <3>1 DEF Kept
      <3> QED
          BY <2>2, <3>1, <3>3, <3>4, TimersAreNumbers
    <2> QED
        BY <2>1, <2>2
  <1> QED
      BY <1>3, <1>4 DEF PlacesBounds

LEMMA PlacesTickKeepsBounds ==
    ASSUME PInv, PlacesBounds, PlacesTick
    PROVE  PlacesBounds'
  <1>1. /\ googleDown' = Sooner(googleDown) /\ photonDown' = Sooner(photonDown)
        /\ directory' = [directory EXCEPT !.left = Sooner(directory.left)]
        /\ located' = [v \in Visitor |-> [located[v] EXCEPT !.left = Sooner(located[v].left)]]
      BY DEF PlacesTick
  <1>2. googleDown' \in 0 .. DownTime /\ photonDown' \in 0 .. DownTime
      BY <1>1, TimersAreNumbers DEF PlacesBounds, Sooner
  <1>3. directory'.places = directory.places
    <2>1. directory = [places |-> directory.places, left |-> directory.left]
        BY DEF PInv, Types
    <2> QED
        BY <1>1, <2>1
  <1>4. ASSUME NEW v \in Visitor PROVE located'[v] \in Located /\ located'[v].kept = located[v].kept
    <2>1. located[v] \in Located /\ located'[v] = [located[v] EXCEPT !.left = Sooner(located[v].left)]
        BY <1>1 DEF PlacesBounds
    <2>2. Sooner(located[v].left) \in 0 .. LocateTerm
        BY <2>1, TimersAreNumbers DEF Located, Sooner
    <2> QED
        BY <2>1, <2>2 DEF Located
  <1>5. located' \in [Visitor -> Located]
      BY <1>1, <1>4
  <1>6. Kept' = Kept
      BY <1>4 DEF Kept
  <1> QED
      BY <1>2, <1>3, <1>5, <1>6 DEF PlacesBounds

LEMMA InitPlacesBounds == PlacesInit => PlacesBounds
  <1> SUFFICES ASSUME PlacesInit PROVE PlacesBounds
      OBVIOUS
  <1>1. NotKept \in Located /\ ~NotKept.kept
      BY TimersAreNumbers DEF NotKept, Located
  <1>2. located = [v \in Visitor |-> NotKept] /\ Kept = {}
      BY <1>1 DEF PlacesInit, Kept
  <1>3. IsFiniteSet(Kept) /\ Cardinality(Kept) <= MaxLocated
      BY <1>2, FS_EmptySet, TimersAreNumbers
  <1> QED
      BY <1>1, <1>2, <1>3, TimersAreNumbers DEF PlacesInit, PlacesBounds

LEMMA NextPlacesBounds == PInv /\ PlacesBounds /\ [PlacesNext]_placesVars => PlacesBounds'
  <1> SUFFICES ASSUME PInv, PlacesBounds, [PlacesNext]_placesVars PROVE PlacesBounds'
      OBVIOUS
  <1>1. ASSUME UNCHANGED <<directory, located>>, googleDown' \in {googleDown, DownTime}, photonDown' \in {photonDown, DownTime}
        PROVE  PlacesBounds'
      BY <1>1, TimersAreNumbers DEF PlacesBounds, Kept
  <1>2. ASSUME NEW c \in Client, Autocomplete(c) \/ Resolve(c) PROVE PlacesBounds'
      BY <1>1, <1>2 DEF Autocomplete, Resolve, caches
  <1>3. ASSUME NEW c \in Client, NEW fails \in BOOLEAN,
               GoogleEnds(c, fails) \/ PhotonEnds(c, fails) \/ DetailsEnd(c, fails)
        PROVE  PlacesBounds'
      BY <1>1, <1>3 DEF GoogleEnds, PhotonEnds, DetailsEnd, caches
  <1>4. ASSUME NEW c \in Client, NEW fails \in BOOLEAN, DirectoryEnds(c, fails) PROVE PlacesBounds'
      BY <1>4 DEF DirectoryEnds, PlacesBounds, Kept
  <1>5. ASSUME NEW c \in Client, AskDirectory(c) \/ TakeToken(c) PROVE PlacesBounds'
      BY <1>1, <1>5 DEF AskDirectory, TakeToken, caches
  <1>6. ASSUME NEW c \in Client, NEW o \in Origin, AskToken(c, o) PROVE PlacesBounds'
      BY <1>1, <1>6 DEF AskToken, caches
  <1>7. ASSUME NEW c \in Client, NEW v \in Visitor, AskLocation(c, v) PROVE PlacesBounds'
      BY <1>1, <1>7 DEF AskLocation, caches
  <1>8. ASSUME NEW c \in Client, NEW found \in BOOLEAN, LocationEnds(c, found) PROVE PlacesBounds'
      BY <1>8, LocationEndsKeepsBounds
  <1>9. CASE PlacesTick
      BY <1>9, PlacesTickKeepsBounds
  <1>10. CASE UNCHANGED placesVars
      BY <1>1, <1>10 DEF placesVars, caches
  <1> QED
      BY <1>2, <1>3, <1>4, <1>5, <1>6, <1>7, <1>8, <1>9, <1>10 DEF PlacesNext

LEMMA PlacesBoundsAreTypes == PInv /\ PlacesBounds => PlacesTypeOK
  <1> SUFFICES ASSUME PInv, PlacesBounds PROVE PlacesTypeOK
      OBVIOUS
  <1>1. \A o \in Origin : tokens[o] \in 0 .. Ttl
      BY DEF PInv, Types
  <1>2. \A v \in Visitor : located[v].left \in 0 .. LocateTerm
      BY DEF PlacesBounds, Located
  <1>3. \A c \in Client : At(c, "token") => request[c].waited \in 0 .. MaxLockWait
      BY DEF PInv, Types, Requests, At
  <1>4. directory.left \in 0 .. DirectoryTerm /\ quiet \in 0 .. DirectoryTerm
      BY DEF PInv, Types
  <1> QED
      BY <1>1, <1>2, <1>3, <1>4 DEF PlacesTypeOK, PlacesBounds, Kept

-----------------------------------------------------------------------------
(* Venues.  A transaction knows what it needs of its venue from a copy that *)
(* may be old; columns are only ever filled in, so the copy still tells the  *)
(* truth of every column it has, unless the column is contested.             *)

FoundVenue == [pc : {"venue"}, name : Name, city : CityName, at : Pin, generic : BOOLEAN,
          venue : Nat, copy : VenueRow]
Ready == [pc : {"commit"}, name : Name, city : CityName, at : Pin, generic : BOOLEAN,
          venue : Nat, copy : VenueRow, row : VenueRow, organizer : Organizer, known : BOOLEAN]

VenueTypes ==
    /\ venues \in Seq(VenueRow)
    /\ creating \in [Creator -> {NoCreation} \cup FoundVenue \cup Ready]
    /\ watched = NoEvent \/ watched \in [city : CityName, at : Pin, generic : BOOLEAN, venue : 1 .. Len(venues)]

Begun(w) == creating[w].pc # "idle"

\* What FindVenue made sure of.
Chosen(c) ==
    /\ ~c.generic => c.name \notin GenericName /\ (c.at = Unpinned => c.name # c.city)
    /\ c.venue = 0 => c.copy = [name |-> c.name, city |-> c.city, pin |-> c.at]
    /\ c.venue # 0 /\ c.generic => Pinned(c.copy)
    /\ c.venue # 0 /\ ~c.generic /\ c.city # NoCity => c.copy.city = c.city
    /\ c.venue # 0 /\ c.at # Unpinned /\ Pinned(c.copy) => Apart(c.at, c.copy.pin) <= Within(c.generic)

\* CompleteVenue only fills in.
FilledIn(c) ==
    /\ (Pinned(c.copy) \/ ~c.generic) /\ c.copy.city # NoCity => c.row.city = c.copy.city
    /\ Pinned(c.copy) => c.row.pin = c.copy.pin
    /\ c.at # Unpinned /\ ~Pinned(c.copy) => c.row.pin = c.at

\* What the copy has, the row still has.
StillTrue(c, filled, disputed) ==
    c.venue # 0 =>
        /\ c.venue \in 1 .. Len(filled)
        /\ c.copy.city # NoCity /\ <<c.venue, "city">> \notin disputed => filled[c.venue].city = c.copy.city
        /\ Pinned(c.copy) /\ <<c.venue, "pin">> \notin disputed => filled[c.venue].pin = c.copy.pin

Creations ==
    \A w \in Creator :
        /\ Begun(w) => Chosen(creating[w]) /\ StillTrue(creating[w], venues, contested)
        /\ creating[w].pc = "commit" => FilledIn(creating[w])

VInv == VenueTypes /\ Creations /\ EventsFitTheirVenue

LEMMA InitVInv == VenuesInit => VInv
  <1> SUFFICES ASSUME VenuesInit PROVE VInv
      OBVIOUS
  <1>1. VenueTypes
      BY DEF VenuesInit, VenueTypes
  <1>2. Creations
      BY DEF VenuesInit, Creations, Begun, NoCreation
  <1> QED
      BY <1>1, <1>2 DEF VenuesInit, VInv, EventsFitTheirVenue

\* What a creation leaves to the others when it only changes its own record.
LEMMA OwnStepKeepsVInv ==
    ASSUME VInv, NEW w \in Creator, NEW c \in {NoCreation} \cup FoundVenue \cup Ready,
           creating' = [creating EXCEPT ![w] = c],
           UNCHANGED <<venues, watched, contested>>,
           c.pc # "idle" => Chosen(c) /\ StillTrue(c, venues, contested),
           c.pc = "commit" => FilledIn(c)
    PROVE  VInv'
  <1>1. VenueTypes'
      BY DEF VInv, VenueTypes
  <1>2. Creations'
    <2>1. \A u \in Creator : creating'[u] = IF u = w THEN c ELSE creating[u]
        BY DEF VInv, VenueTypes
    <2> QED
        BY <2>1 DEF VInv, Creations, Begun
  <1>3. EventsFitTheirVenue'
      BY DEF VInv, EventsFitTheirVenue
  <1> QED
      BY <1>1, <1>2, <1>3 DEF VInv

LEMMA AbandonKeepsVInv ==
    ASSUME VInv, NEW w \in Creator, AbandonEvent(w) PROVE VInv'
  BY OwnStepKeepsVInv DEF AbandonEvent, NoCreation

\* A venue that is found lies in the city that is asked for, or has no name of
\* its own.
LEMMA MatchesAreThere ==
    ASSUME NEW name, NEW city, NEW at, NEW generic \in BOOLEAN,
           NEW v \in Matches(name, city, at, generic)
    PROVE  /\ v \in DOMAIN venues
           /\ generic => Pinned(venues[v])
           /\ ~generic /\ city # NoCity => venues[v].city = city
  <1>1. CASE generic
      BY <1>1 DEF Matches
  <1>2. CASE ~generic
    <2>1. Matches(name, city, at, generic) \subseteq InCity(city)
        BY <1>2 DEF Matches, FuzzyMatches, Aliased
    <2> QED
        BY <1>2, <2>1 DEF InCity
  <1> QED
      BY <1>1, <1>2

LEMMA FindKeepsVInv ==
    ASSUME VInv, NEW w \in Creator, NEW ask \in Ask, NEW cityThere \in CitiesAt(ask.at),
           FindVenue(w, ask, cityThere)
    PROVE  VInv'
  <1> DEFINE generic == IsGeneric(ask.name, ask.city)
             city == IF ask.city = NoCity /\ ask.at # Unpinned THEN cityThere ELSE ask.city
             found == Matches(ask.name, city, ask.at, generic)
             copyOf(v) == IF v = 0 THEN [name |-> ask.name, city |-> city, pin |-> ask.at] ELSE venues[v]
             c(v) == [pc |-> "venue", name |-> ask.name, city |-> city, at |-> ask.at, generic |-> generic,
                      venue |-> v, copy |-> copyOf(v)]
  <1>1. PICK v \in found \cup {0} :
          /\ v # 0 => Agrees(v, ask.at, generic)
          /\ creating' = [creating EXCEPT ![w] = c(v)]
      BY DEF FindVenue
  <1>2. UNCHANGED <<venues, watched, contested>>
      BY DEF FindVenue
  <1>3. /\ ask.name \in Name /\ city \in CityName /\ ask.at \in Pin
        /\ generic \in BOOLEAN
        /\ ~generic => ask.name \notin GenericName /\ (ask.at = Unpinned => ask.name # city)
      BY VenuesAssumption DEF Name, CityName, CitiesAt, IsGeneric
  <1>4. v # 0 => /\ v \in DOMAIN venues
                 /\ generic => Pinned(venues[v])
                 /\ ~generic /\ city # NoCity => venues[v].city = city
      BY <1>1, MatchesAreThere, <1>3
  <1>5. v \in 0 .. Len(venues) /\ Len(venues) \in Nat /\ (v # 0 => venues[v] \in VenueRow)
      BY <1>4 DEF VInv, VenueTypes
  <1>6. copyOf(v) \in VenueRow
      BY <1>3, <1>5 DEF VenueRow
  <1> HIDE DEF copyOf, city, generic
  <1>7. c(v) \in FoundVenue
      BY <1>3, <1>5, <1>6 DEF FoundVenue
  <1>8. Chosen(c(v))
      BY <1>1, <1>3, <1>4, <1>5 DEF Chosen, copyOf, Agrees
  <1>9. StillTrue(c(v), venues, contested)
      BY <1>5 DEF StillTrue, copyOf
  <1>10. c(v).pc = "venue"
      OBVIOUS
  <1> HIDE DEF c
  <1> QED
      BY <1>1, <1>2, <1>7, <1>8, <1>9, <1>10, OwnStepKeepsVInv

\* Completed and Enriched add to the copy.
LEMMA CompletedFillsIn ==
    ASSUME NEW c \in FoundVenue, Chosen(c)
    PROVE  LET row == Completed(c)
           IN  /\ row \in VenueRow
               /\ c.copy.city # NoCity => row.city = c.copy.city
               /\ Pinned(c.copy) => row.pin = c.copy.pin
               /\ ~Pinned(c.copy) => row.pin = c.at
               /\ ~c.generic /\ row.name = row.city => c.name = row.city
  <1> DEFINE row == Completed(c)
  <1>1. /\ row.name = IF ~c.generic /\ c.copy.name = row.city THEN c.name ELSE c.copy.name
        /\ row.city = IF c.copy.city = NoCity THEN c.city ELSE c.copy.city
        /\ row.pin = IF Pinned(c.copy) THEN c.copy.pin ELSE c.at
        /\ row \in [name : {row.name}, city : {row.city}, pin : {row.pin}]
      BY DEF Completed
  <1>2. row \in VenueRow
      BY <1>1 DEF FoundVenue, VenueRow
  <1> QED
      BY <1>1, <1>2

\* A city of the row is replaced only when the row is not pinned and has the
\* name of the city; then the geocoder finds the city in itself.
LEMMA EnrichedFillsIn ==
    ASSUME NEW row \in VenueRow
    PROVE  /\ Enriched(row) \in VenueRow
           /\ Pinned(row) => Enriched(row).pin = row.pin
           /\ row.city # NoCity /\ (Pinned(row) \/ row.name # row.city \/ row.name \notin GenericName)
              => Enriched(row).city = row.city
  <1> DEFINE hint == IF row.city # row.name THEN row.city ELSE NoCity
             pin == PinOf[<<row.name, hint>>]
             city == CityAt[IF Pinned(row) THEN row.pin ELSE pin]
  <1>1. hint \in CityName
      BY DEF VenueRow, CityName
  <1>2. pin \in Pin
      BY <1>1, VenuesAssumption DEF VenueRow
  <1>3. Pinned(row) \/ pin # Unpinned => city \in CityName
      BY <1>2 DEF VenueRow, Pinned, Pin, CityName
  <1>4. CASE Pinned(row)
    <2>1. Enriched(row) = [row EXCEPT !.city = IF row.city = NoCity THEN city ELSE row.city]
        BY <1>4 DEF Enriched
    <2> HIDE DEF city
    <2> QED
        BY <2>1, <1>3, <1>4 DEF VenueRow
  <1>5. CASE ~Pinned(row) /\ pin = Unpinned
    <2>1. Enriched(row) = row
        BY <1>5 DEF Enriched
    <2> QED
        BY <2>1
  <1>6. CASE ~Pinned(row) /\ pin # Unpinned
    <2>1. Enriched(row) = [row EXCEPT !.pin = pin, !.city = IF hint # NoCity THEN hint ELSE city]
        BY <1>6 DEF Enriched
    <2>2. Enriched(row) \in VenueRow
      <3> HIDE DEF city, hint, pin
      <3> QED
        BY <2>1, <1>1, <1>2, <1>3, <1>6 DEF VenueRow
    <2>3. ASSUME row.city # NoCity, row.name # row.city \/ row.name \notin GenericName
          PROVE  Enriched(row).city = row.city
      <3>1. CASE row.name # row.city
          BY <2>1, <2>3, <3>1 DEF VenueRow
      <3>2. CASE row.name = row.city
        <4>1. hint = NoCity /\ pin = PinOf[<<row.name, NoCity>>]
            BY <3>2
        <4>2. row.name \in (Name \cap CityName) \ (GenericName \cup {NoCity})
            BY <2>3, <3>2 DEF VenueRow
        <4>3. CityAt[pin] = row.name
            BY <4>1, <4>2, <1>6, VenuesAssumption
        <4>4. city = row.city
            BY <4>3, <1>6, <3>2
        <4> HIDE DEF city, hint, pin
        <4> QED
            BY <2>1, <4>1, <4>4 DEF VenueRow
      <3> QED
          BY <3>1, <3>2
    <2> QED
        BY <2>2, <2>3, <1>6
  <1> QED
      BY <1>4, <1>5, <1>6

LEMMA CompleteKeepsVInv ==
    ASSUME VInv, NEW w \in Creator, NEW answers \in BOOLEAN, NEW o \in Organizer,
           CompleteVenue(w, answers, o)
    PROVE  VInv'
  <1> DEFINE c == creating[w]
             base == Completed(c)
             row == IF answers THEN Enriched(base) ELSE base
             d == [pc |-> "commit", name |-> c.name, city |-> c.city, at |-> c.at, generic |-> c.generic,
                   venue |-> c.venue, copy |-> c.copy, row |-> row,
                   organizer |-> o, known |-> o \in organizers]
  <1>1. /\ creating' = [creating EXCEPT ![w] = d]
        /\ UNCHANGED <<venues, watched, contested>>
      BY DEF CompleteVenue
  <1>2. c \in FoundVenue
      BY DEF CompleteVenue, VInv, VenueTypes, NoCreation, Ready
  <1>3. Chosen(c) /\ StillTrue(c, venues, contested)
      BY <1>2 DEF VInv, Creations, Begun, FoundVenue
  <1>4. /\ base \in VenueRow
        /\ c.copy.city # NoCity => base.city = c.copy.city
        /\ Pinned(c.copy) => base.pin = c.copy.pin
        /\ ~Pinned(c.copy) => base.pin = c.at
        /\ ~c.generic /\ base.name = base.city => c.name = base.city
      BY <1>2, <1>3, CompletedFillsIn
  <1>5. /\ Enriched(base) \in VenueRow
        /\ Pinned(base) => Enriched(base).pin = base.pin
        /\ base.city # NoCity /\ (Pinned(base) \/ base.name # base.city \/ base.name \notin GenericName)
           => Enriched(base).city = base.city
      BY <1>4, EnrichedFillsIn
  <1>6. ~c.generic => c.name \notin GenericName
      BY <1>3 DEF Chosen
  <1> HIDE DEF c, base
  <1>7. /\ row \in VenueRow
        /\ Pinned(base) => row.pin = base.pin
        /\ base.city # NoCity /\ (Pinned(base) \/ ~c.generic) => row.city = base.city
      BY <1>4, <1>5, <1>6
  <1> HIDE DEF row
  <1>8. /\ d.pc = "commit" /\ d.name = c.name /\ d.city = c.city /\ d.at = c.at /\ d.generic = c.generic
        /\ d.venue = c.venue /\ d.copy = c.copy /\ d.row = row
      OBVIOUS
  <1>9. d \in Ready
      BY <1>2, <1>7 DEF Ready, FoundVenue
  <1> HIDE DEF d
  <1>10. Chosen(d) /\ StillTrue(d, venues, contested)
      BY <1>3, <1>8 DEF Chosen, StillTrue
  <1>11. FilledIn(d)
      BY <1>4, <1>7, <1>8 DEF FilledIn, Pinned
  <1> QED
      BY <1>1, <1>8, <1>9, <1>10, <1>11, OwnStepKeepsVInv

LEMMA WrittenColumns ==
    ASSUME NEW current \in VenueRow, NEW copy \in VenueRow, NEW row \in VenueRow
    PROVE  LET new == Written(current, copy, row)
           IN  /\ new \in VenueRow
               /\ new.city = IF row.city = copy.city THEN current.city ELSE row.city
               /\ new.pin = IF row.pin = copy.pin THEN current.pin ELSE row.pin
  <1>1. DOMAIN row = {"name", "city", "pin"}
      BY DEF VenueRow
  <1>2. Written(current, copy, row) =
            [name |-> IF row.name = copy.name THEN current.name ELSE row.name,
             city |-> IF row.city = copy.city THEN current.city ELSE row.city,
             pin |-> IF row.pin = copy.pin THEN current.pin ELSE row.pin]
      BY <1>1 DEF Written
  <1> QED
      BY <1>2 DEF VenueRow

\* A row that is there keeps each column that it has, unless the column is
\* contested from now on.
LEMMA CommitKeepsColumns ==
    ASSUME VInv, NEW w \in Creator, CommitEvent(w)
    PROVE  /\ venues' \in Seq(VenueRow) /\ Len(venues') >= Len(venues)
           /\ \A u \in 1 .. Len(venues) :
                 /\ <<u, "city">> \notin contested' =>
                       /\ <<u, "city">> \notin contested
                       /\ venues[u].city # NoCity => venues'[u].city = venues[u].city
                 /\ <<u, "pin">> \notin contested' =>
                       /\ <<u, "pin">> \notin contested
                       /\ Pinned(venues[u]) => venues'[u].pin = venues[u].pin
  <1> DEFINE c == creating[w]
  <1>1. /\ venues \in Seq(VenueRow) /\ Len(venues) \in Nat /\ c \in Ready
        /\ \A u \in 1 .. Len(venues) : venues[u] \in VenueRow
      BY DEF VInv, VenueTypes, CommitEvent, NoCreation, FoundVenue
  <1>2. Chosen(c) /\ StillTrue(c, venues, contested) /\ FilledIn(c)
      BY <1>1 DEF VInv, Creations, Begun, Ready
  <1>3. CASE c.venue = 0
    <2>1. venues' = Append(venues, c.row) /\ contested' = contested
        BY <1>3 DEF CommitEvent
    <2>2. c.row \in VenueRow
        BY <1>1 DEF Ready
    <2> HIDE DEF c
    <2> QED
        BY <2>1, <2>2, <1>1
  <1>4. CASE c.venue # 0
    <2> DEFINE v == c.venue
               lost == Overwritten(venues[v], c.copy, c.row)
               new == Written(venues[v], c.copy, c.row)
    <2>1. /\ venues' = [venues EXCEPT ![v] = new]
          /\ contested' = contested \cup ({v} \X lost)
        BY <1>4 DEF CommitEvent
    <2>2. v \in 1 .. Len(venues) /\ venues[v] \in VenueRow /\ c.copy \in VenueRow /\ c.row \in VenueRow
        BY <1>1, <1>2, <1>4 DEF StillTrue, Ready
    <2>3. /\ new \in VenueRow
          /\ new.city = IF c.row.city = c.copy.city THEN venues[v].city ELSE c.row.city
          /\ new.pin = IF c.row.pin = c.copy.pin THEN venues[v].pin ELSE c.row.pin
        BY <2>2, WrittenColumns
    <2>4. c.row.city # c.copy.city => c.copy.city = NoCity
        BY <1>1, <1>2, <1>4 DEF Chosen, FilledIn, Ready
    <2>5. c.row.pin # c.copy.pin => ~Pinned(c.copy)
        BY <1>2 DEF FilledIn
    <2>6. "city" \notin lost /\ venues[v].city # NoCity => new.city = venues[v].city
        BY <2>3, <2>4 DEF Overwritten
    <2>7. "pin" \notin lost /\ Pinned(venues[v]) => new.pin = venues[v].pin
        BY <2>3, <2>5 DEF Overwritten, Pinned
    <2> HIDE DEF v, lost, new
    <2>8. venues' \in Seq(VenueRow) /\ Len(venues') = Len(venues)
        BY <1>1, <2>1, <2>2, <2>3
    <2>9. \A u \in 1 .. Len(venues) : venues'[u] = IF u = v THEN new ELSE venues[u]
        BY <1>1, <2>1, <2>2
    <2>10. \A u, k : <<u, k>> \notin contested' => <<u, k>> \notin contested /\ (u = v => k \notin lost)
        BY <2>1
    <2> QED
        BY <1>1, <2>6, <2>7, <2>8, <2>9, <2>10
  <1> QED
      BY <1>3, <1>4

\* The venue of the event that is created fits it.
LEMMA CommitFits ==
    ASSUME VInv, NEW w \in Creator, CommitEvent(w)
    PROVE  LET c == creating[w]
               v == IF c.venue = 0 THEN Len(venues) + 1 ELSE c.venue
           IN  /\ v \in 1 .. Len(venues')
               /\ ~c.generic /\ c.city # NoCity /\ <<v, "city">> \notin contested' => venues'[v].city = c.city
               /\ c.at # Unpinned /\ <<v, "pin">> \notin contested'
                  => Pinned(venues'[v]) /\ Apart(c.at, venues'[v].pin) <= Within(c.generic)
  <1> DEFINE c == creating[w]
  <1>1. /\ venues \in Seq(VenueRow) /\ Len(venues) \in Nat /\ c \in Ready
        /\ \A u \in 1 .. Len(venues) : venues[u] \in VenueRow
      BY DEF VInv, VenueTypes, CommitEvent, NoCreation, FoundVenue
  <1>2. Chosen(c) /\ StillTrue(c, venues, contested) /\ FilledIn(c)
      BY <1>1 DEF VInv, Creations, Begun, Ready
  <1>3. /\ c.at \in Int /\ Within(c.generic) >= 0 /\ Within(c.generic) \in Nat
        /\ Apart(c.at, c.at) <= Within(c.generic)
      BY <1>1, VenuesAssumption DEF Ready, Within, Apart, Pin, Unpinned
  <1>4. CASE c.venue = 0
    <2>1. venues' = Append(venues, c.row)
        BY <1>4 DEF CommitEvent
    <2>2. c.row \in VenueRow
        BY <1>1 DEF Ready
    <2>3. Len(venues') = Len(venues) + 1 /\ venues'[Len(venues) + 1] = c.row
      <3> HIDE DEF c
      <3> QED
          BY <1>1, <2>1, <2>2
    <2>4. c.copy.city = c.city /\ c.copy.pin = c.at
        BY <1>2, <1>4 DEF Chosen
    <2>5. ~c.generic /\ c.city # NoCity => c.row.city = c.city
        BY <1>2, <2>4 DEF FilledIn
    <2>6. c.at # Unpinned => c.row.pin = c.at /\ Pinned(c.row)
        BY <1>2, <2>4 DEF FilledIn, Pinned
    <2> QED
        BY <1>1, <1>3, <1>4, <2>3, <2>5, <2>6
  <1>5. CASE c.venue # 0
    <2> DEFINE v == c.venue
    <2>1. v \in 1 .. Len(venues) /\ venues[v] \in VenueRow /\ c.copy \in VenueRow /\ c.row \in VenueRow
        BY <1>1, <1>2, <1>5 DEF StillTrue, Ready
    <2>2. /\ Len(venues') >= Len(venues) /\ Len(venues') \in Nat
          /\ <<v, "city">> \notin contested' =>
                /\ <<v, "city">> \notin contested
                /\ venues[v].city # NoCity => venues'[v].city = venues[v].city
          /\ <<v, "pin">> \notin contested' =>
                /\ <<v, "pin">> \notin contested
                /\ Pinned(venues[v]) => venues'[v].pin = venues[v].pin
        BY <2>1, CommitKeepsColumns
    <2>3. ~c.generic /\ c.city # NoCity /\ <<v, "city">> \notin contested' => venues'[v].city = c.city
        BY <1>2, <1>5, <2>2 DEF Chosen, StillTrue
    <2>4. ASSUME c.at # Unpinned, <<v, "pin">> \notin contested'
          PROVE  Pinned(venues'[v]) /\ Apart(c.at, venues'[v].pin) <= Within(c.generic)
      <3>1. CASE Pinned(c.copy)
          BY <3>1, <2>4, <1>2, <1>5, <2>2 DEF Chosen, StillTrue, Pinned
      <3>2. CASE ~Pinned(c.copy)
        <4>1. c.row.pin = c.at /\ c.row.pin # c.copy.pin
            BY <3>2, <2>4, <1>2 DEF FilledIn, Pinned
        <4>2. venues' = [venues EXCEPT ![v] = Written(venues[v], c.copy, c.row)]
            BY <1>5 DEF CommitEvent
        <4>3. Written(venues[v], c.copy, c.row).pin = c.at
            BY <2>1, <4>1, WrittenColumns
        <4> HIDE DEF c
        <4>4. venues'[v] = Written(venues[v], c.copy, c.row)
            BY <1>1, <2>1, <4>2
        <4> QED
            BY <4>3, <4>4, <1>3, <2>4 DEF Pinned
      <3> QED
          BY <3>1, <3>2
    <2> QED
        BY <1>5, <2>1, <2>2, <2>3, <2>4
  <1> QED
      BY <1>4, <1>5

LEMMA CommitKeepsVInv ==
    ASSUME VInv, NEW w \in Creator, CommitEvent(w) PROVE VInv'
  <1> DEFINE c == creating[w]
             v == IF c.venue = 0 THEN Len(venues) + 1 ELSE c.venue
             now == [city |-> c.city, at |-> c.at, generic |-> c.generic, venue |-> v]
  <1>1. /\ creating' = [creating EXCEPT ![w] = NoCreation]
        /\ watched' \in {watched, IF watched # NoEvent THEN watched ELSE now}
      BY DEF CommitEvent
  <1>2. c \in Ready
      BY DEF VInv, VenueTypes, CommitEvent, NoCreation, FoundVenue
  <1>3. /\ venues' \in Seq(VenueRow) /\ Len(venues') >= Len(venues)
        /\ Len(venues) \in Nat /\ Len(venues') \in Nat
        /\ \A u \in 1 .. Len(venues) :
              /\ <<u, "city">> \notin contested' =>
                    /\ <<u, "city">> \notin contested
                    /\ venues[u].city # NoCity => venues'[u].city = venues[u].city
              /\ <<u, "pin">> \notin contested' =>
                    /\ <<u, "pin">> \notin contested
                    /\ Pinned(venues[u]) => venues'[u].pin = venues[u].pin
      BY CommitKeepsColumns DEF VInv, VenueTypes
  <1>4. /\ v \in 1 .. Len(venues')
        /\ ~c.generic /\ c.city # NoCity /\ <<v, "city">> \notin contested' => venues'[v].city = c.city
        /\ c.at # Unpinned /\ <<v, "pin">> \notin contested'
           => Pinned(venues'[v]) /\ Apart(c.at, venues'[v].pin) <= Within(c.generic)
      BY CommitFits
  <1>5. now \in [city : CityName, at : Pin, generic : BOOLEAN, venue : 1 .. Len(venues')]
      BY <1>2, <1>4 DEF Ready
  <1>6. now.city = c.city /\ now.at = c.at /\ now.generic = c.generic /\ now.venue = v
      OBVIOUS
  <1> HIDE DEF c, v, now
  <1>7. VenueTypes'
      BY <1>1, <1>3, <1>5 DEF VInv, VenueTypes
  <1>8. Creations'
    <2>1. \A u \in Creator : creating'[u] = IF u = w THEN NoCreation ELSE creating[u]
        BY <1>1 DEF VInv, VenueTypes
    <2>2. ASSUME NEW d, StillTrue(d, venues, contested) PROVE StillTrue(d, venues', contested')
        BY <2>2, <1>3 DEF StillTrue, Pinned
    <2> QED
        BY <2>1, <2>2 DEF VInv, Creations, Begun, NoCreation
  <1>9. EventsFitTheirVenue'
    <2>1. CASE watched' = watched /\ watched # NoEvent
      <3>1. watched.venue \in 1 .. Len(venues)
          BY <2>1 DEF VInv, VenueTypes
      <3> QED
          BY <2>1, <3>1, <1>3 DEF VInv, EventsFitTheirVenue, Pinned
    <2>2. CASE watched' = now
        BY <2>2, <1>4, <1>6 DEF EventsFitTheirVenue
    <2> QED
        BY <2>1, <2>2, <1>1 DEF EventsFitTheirVenue
  <1> QED
      BY <1>7, <1>8, <1>9 DEF VInv

LEMMA NextVInv == VInv /\ [VenuesNext]_venuesVars => VInv'
  <1> SUFFICES ASSUME VInv, [VenuesNext]_venuesVars PROVE VInv'
      OBVIOUS
  <1>1. CASE UNCHANGED venuesVars
    <2>1. /\ UNCHANGED <<venues, creating, watched, contested>>
          /\ VenueTypes
          /\ Creations
          /\ EventsFitTheirVenue
        BY <1>1 DEF venuesVars, VInv
    <2>2. VenueTypes'
        BY <2>1 DEF VenueTypes
    <2>3. Creations'
        BY <2>1 DEF Creations, Begun
    <2>4. EventsFitTheirVenue'
        BY <2>1 DEF EventsFitTheirVenue
    <2> QED
        BY <2>2, <2>3, <2>4 DEF VInv
  <1>2. ASSUME NEW w \in Creator, NEW ask \in Ask, NEW cityThere \in CitiesAt(ask.at), FindVenue(w, ask, cityThere)
        PROVE  VInv'
      BY <1>2, FindKeepsVInv
  <1>3. ASSUME NEW w \in Creator, NEW answers \in BOOLEAN, NEW o \in Organizer, CompleteVenue(w, answers, o)
        PROVE  VInv'
      BY <1>3, CompleteKeepsVInv
  <1>4. ASSUME NEW w \in Creator, AbandonEvent(w) PROVE VInv'
      BY <1>4, AbandonKeepsVInv
  <1>5. ASSUME NEW w \in Creator, CommitEvent(w) PROVE VInv'
      BY <1>5, CommitKeepsVInv
  <1> QED
      BY <1>1, <1>2, <1>3, <1>4, <1>5 DEF VenuesNext

\* An event stays with a venue that fits it, for every number of sessions, every
\* map and every likeness of names, provided that the geocoder finds each city in
\* itself: columns are only filled in, and a row that two transactions complete
\* at a time is contested (event_service.py:67-75, venue_dedup.py:60-61).
THEOREM EventsFit == VenuesSpec => []EventsFitTheirVenue
  <1>1. VInv => EventsFitTheirVenue
      BY DEF VInv
  <1> QED
      BY <1>1, InitVInv, NextVInv, PTL DEF VenuesSpec

\* The types of the rows beside venues.
VenueBounds ==
    /\ Len(venues) <= MaxVenues
    /\ aliases \subseteq [venue : 1 .. Len(venues), alias : Name]
    /\ organizers \subseteq Organizer
    /\ contested \subseteq (1 .. Len(venues)) \X {"city", "pin"}

LEMMA CommitKeepsVenueBounds ==
    ASSUME VInv, VenueBounds, NEW w \in Creator, CommitEvent(w)
    PROVE  VenueBounds'
  <1> DEFINE c == creating[w]
             v == IF c.venue = 0 THEN Len(venues) + 1 ELSE c.venue
             named == [venue |-> v, alias |-> c.name]
             over == Overwritten(venues[v], c.copy, c.row)
  <1>1. c \in Ready /\ c.pc = "commit"
      BY DEF VInv, VenueTypes, CommitEvent, NoCreation, FoundVenue
  <1>2. c.name \in Name /\ c.organizer \in Organizer /\ c.row \in VenueRow /\ c.venue \in Nat
      BY <1>1 DEF Ready
  <1>3. c.venue # 0 => c.venue \in 1 .. Len(venues)
      BY <1>1 DEF VInv, Creations, Begun, StillTrue
  <1>4. /\ c.venue = 0 => Len(venues) < MaxVenues
        /\ organizers' = organizers \cup {c.organizer}
        /\ venues' = IF c.venue = 0 THEN Append(venues, c.row) ELSE [venues EXCEPT ![v] = Written(venues[v], c.copy, c.row)]
        /\ aliases' \in {aliases, aliases \cup {named}}
        /\ contested' = IF c.venue = 0 THEN contested ELSE contested \cup ({v} \X over)
      BY DEF CommitEvent
  <1>5. over \subseteq {"city", "pin"}
      BY DEF Overwritten
  <1>6. venues \in Seq(VenueRow) /\ Len(venues) \in Nat /\ MaxVenues \in Nat
      BY VenuesAssumption DEF VInv, VenueTypes
  <1> HIDE DEF c, over
  <1>7. Len(venues') = IF c.venue = 0 THEN Len(venues) + 1 ELSE Len(venues)
    <2>1. CASE c.venue = 0
        BY <2>1, <1>2, <1>4, <1>6
    <2>2. CASE c.venue # 0
        BY <2>2, <1>4, <1>6
    <2> QED
        BY <2>1, <2>2
  <1>8. v \in 1 .. Len(venues') /\ Len(venues') \in Nat /\ Len(venues') <= MaxVenues
      BY <1>2, <1>3, <1>4, <1>6, <1>7 DEF VenueBounds
  <1> HIDE DEF v
  <1>9. 1 .. Len(venues) \subseteq 1 .. Len(venues')
      BY <1>6, <1>7
  <1>10. aliases' \subseteq [venue : 1 .. Len(venues'), alias : Name]
    <2>1. named \in [venue : 1 .. Len(venues'), alias : Name]
        BY <1>2, <1>8
    <2>2. aliases \subseteq [venue : 1 .. Len(venues'), alias : Name]
        BY <1>9 DEF VenueBounds
    <2> HIDE DEF named
    <2> QED
        BY <1>4, <2>1, <2>2
  <1>11. contested' \subseteq (1 .. Len(venues')) \X {"city", "pin"}
    <2>1. {v} \X over \subseteq (1 .. Len(venues')) \X {"city", "pin"}
        BY <1>5, <1>8
    <2>2. contested \subseteq (1 .. Len(venues')) \X {"city", "pin"}
        BY <1>9 DEF VenueBounds
    <2> QED
        BY <1>4, <2>1, <2>2
  <1> QED
      BY <1>2, <1>4, <1>8, <1>10, <1>11 DEF VenueBounds

LEMMA InitVenueBounds == VenuesInit => VenueBounds
  BY VenuesAssumption DEF VenuesInit, VenueBounds

LEMMA NextVenueBounds == VInv /\ VenueBounds /\ [VenuesNext]_venuesVars => VenueBounds'
  <1> SUFFICES ASSUME VInv, VenueBounds, [VenuesNext]_venuesVars PROVE VenueBounds'
      OBVIOUS
  <1>1. ASSUME UNCHANGED <<venues, aliases, organizers, contested>> PROVE VenueBounds'
      BY <1>1 DEF VenueBounds
  <1>2. ASSUME NEW w \in Creator, NEW ask \in Ask, NEW cityThere \in CitiesAt(ask.at), FindVenue(w, ask, cityThere)
        PROVE  VenueBounds'
      BY <1>1, <1>2 DEF FindVenue
  <1>3. ASSUME NEW w \in Creator, NEW answers \in BOOLEAN, NEW o \in Organizer, CompleteVenue(w, answers, o)
        PROVE  VenueBounds'
      BY <1>1, <1>3 DEF CompleteVenue
  <1>4. ASSUME NEW w \in Creator, AbandonEvent(w) PROVE VenueBounds'
      BY <1>1, <1>4 DEF AbandonEvent
  <1>5. ASSUME NEW w \in Creator, CommitEvent(w) PROVE VenueBounds'
      BY <1>5, CommitKeepsVenueBounds
  <1>6. CASE UNCHANGED venuesVars
      BY <1>1, <1>6 DEF venuesVars
  <1> QED
      BY <1>2, <1>3, <1>4, <1>5, <1>6 DEF VenuesNext

LEMMA VenueBoundsAreTypes == VInv /\ VenueBounds => VenuesTypeOK
  <1> SUFFICES ASSUME VInv, VenueBounds PROVE VenuesTypeOK
      OBVIOUS
  <1>1. venues \in Seq(VenueRow) /\ DOMAIN venues = 1 .. Len(venues) /\ Len(venues) \in Nat
      BY DEF VInv, VenueTypes
  <1>2. \A v \in DOMAIN venues : venues[v] \in VenueRow
      BY <1>1
  <1>3. watched.venue \in 0 .. Len(venues)
      BY <1>1 DEF VInv, VenueTypes, NoEvent
  <1> QED
      BY <1>1, <1>2, <1>3 DEF VenuesTypeOK, VenueBounds

-----------------------------------------------------------------------------
(* Coverage.  A row that was scanned tells no more than was scanned, up to   *)
(* the distance of two points of its cell: it keeps its first centre.        *)

Times == Nat \cup {None}

CoverageTypes ==
    /\ clock \in Nat
    /\ center \in [Cell -> Ground \cup {None}]
    /\ radius \in [Cell -> Nat \cup {None}]
    /\ scannedAt \in [Cell -> Times] /\ requestedAt \in [Cell -> Times]
    /\ covered \in [Ground -> Times]
    /\ running \in [Circle -> Nat]

RowsAreWhole ==
    \A c \in Cell :
        /\ center[c] # None => center[c] \div CellSize = c /\ radius[c] # None
        /\ scannedAt[c] # None => center[c] # None

RowsWereScanned ==
    \A c \in Cell : scannedAt[c] # None =>
        \A p \in Ground : Distance(p, center[c]) + (CellSize - 1) <= radius[c] => covered[p] # None

CInv == CoverageTypes /\ RowsAreWhole /\ RowsWereScanned

\* The rescan job has rows to scan, and its scan reaches every area it is for that
\* the largest radius does not cut off.
RescanReaches ==
    \A a \in rescan.areas :
        /\ a.at \in Ground /\ a.radius \in Nat
        /\ Distance(rescan.at, a.at) + a.radius <= MaxRadius
           => Distance(rescan.at, a.at) + a.radius <= rescan.radius

RescanInv ==
    /\ groups \in [Cities -> SUBSET Cell]
    /\ \A k \in Cities : \A c \in groups[k] : center[c] # None
    /\ rescan # NoRescan => rescan.at \in Ground /\ rescan.radius \in 1 .. MaxRadius /\ RescanReaches

LEMMA CoverageConstants ==
    /\ Ground \subseteq Nat /\ Spot \subseteq Ground /\ Radius \subseteq Nat /\ None \notin Nat
    /\ CellSize \in Nat /\ CellSize > 0 /\ Tolerance \in Nat /\ CellSize <= Tolerance + 1
    /\ MaxRadius \in Nat /\ Stale \in Nat
  BY CoverageAssumption

LEMMA BoundsAreNumbers ==
    /\ {MaxTime, MaxRescans, MaxRadius, Stale} \subseteq Nat /\ None \notin Nat
    /\ \A r \in Radius : r \in 1 .. MaxRadius
    /\ \A p \in Ground : p # None
  BY CoverageAssumption

LEMMA PointsAreNumbers ==
    /\ \A p \in Ground : p \in Nat /\ p \in Int /\ p # None
    /\ \A p \in Spot : p \in Ground
    /\ \A r \in Radius : r \in Nat
  <1>1. Ground \subseteq Nat /\ Spot \subseteq Ground /\ None \notin Nat
      BY CoverageAssumption
  <1>2. \A r \in Radius : r \in Nat
      BY CoverageAssumption
  <1> QED
      BY <1>1, <1>2

\* Two points of a cell are less than a cell apart.
LEMMA CellsAreSmall ==
    ASSUME NEW k \in Nat, k > 0, NEW p \in Nat, NEW q \in Nat, p \div k = q \div k
    PROVE  Distance(p, q) <= k - 1
  <1>1. p = k * (p \div k) + (p % k) /\ p % k \in 0 .. (k - 1)
      OBVIOUS
  <1>2. q = k * (q \div k) + (q % k) /\ q % k \in 0 .. (k - 1)
      OBVIOUS
  <1>3. p - q = (p % k) - (q % k)
      BY <1>1, <1>2
  <1> QED
      BY <1>1, <1>2, <1>3 DEF Distance

LEMMA Triangle ==
    ASSUME NEW p \in Int, NEW q \in Int, NEW s \in Int
    PROVE  /\ Distance(p, q) \in Nat
           /\ Distance(p, q) = Distance(q, p)
           /\ Distance(p, s) <= Distance(p, q) + Distance(q, s)
  BY DEF Distance

LEMMA InitCInv == Init => CInv
  BY CoverageConstants DEF Init, CInv, CoverageTypes, RowsAreWhole, RowsWereScanned, Times

\* What the record of a scan does to its row and to the others.
LEMMA RecordScanRows ==
    ASSUME CInv, NEW at \in Ground, NEW r \in Nat, RecordScan(at, r)
    PROVE  LET c == at \div CellSize
           IN  /\ c \in Cell
               /\ center' \in [Cell -> Ground \cup {None}] /\ radius' \in [Cell -> Nat \cup {None}]
               /\ scannedAt' \in [Cell -> Times] /\ requestedAt' \in [Cell -> Times]
               /\ covered' \in [Ground -> Times]
               /\ \A d \in Cell \ {c} : /\ center'[d] = center[d] /\ radius'[d] = radius[d]
                                        /\ scannedAt'[d] = scannedAt[d]
               /\ center'[c] = IF center[c] = None THEN at ELSE center[c]
               /\ radius'[c] = IF KeepsRadius(c, r) THEN radius[c] ELSE r
               /\ scannedAt'[c] = clock
               /\ center'[c] \in Ground /\ center'[c] \div CellSize = c
               /\ radius'[c] \in Nat /\ radius'[c] >= r
               /\ \A p \in Ground : covered'[p] = IF Distance(p, at) <= r THEN clock ELSE covered[p]
  <1> DEFINE c == at \div CellSize
  <1>1. c \in Cell
      BY DEF Cell
  <1>2. /\ center' = [center EXCEPT ![c] = IF center[c] = None THEN at ELSE center[c]]
        /\ requestedAt' = [requestedAt EXCEPT ![c] = clock]
        /\ radius' = [radius EXCEPT ![c] = IF KeepsRadius(c, r) THEN radius[c] ELSE r]
        /\ scannedAt' = [scannedAt EXCEPT ![c] = clock]
        /\ covered' = [p \in Ground |-> IF Distance(p, at) <= r THEN clock ELSE covered[p]]
      BY DEF RecordScan, Requested
  <1>3. KeepsRadius(c, r) => radius[c] \in Nat /\ r < radius[c]
      BY <1>1 DEF CInv, CoverageTypes, RowsAreWhole, KeepsRadius
  <1>4. center[c] # None => center[c] \in Ground /\ center[c] \div CellSize = c
      BY <1>1 DEF CInv, CoverageTypes, RowsAreWhole
  <1>5. at \div CellSize = c /\ None \notin Ground
      BY CoverageConstants
  <1> HIDE DEF c
  <1> QED
      BY <1>1, <1>2, <1>3, <1>4, <1>5 DEF CInv, CoverageTypes, Times

\* A recorded scan is in covered as far as its row says.
LEMMA RecordScanKeepsCInv ==
    ASSUME CInv, NEW at \in Ground, NEW r \in Nat, RecordScan(at, r), clock' = clock, running' \in [Circle -> Nat]
    PROVE  CInv'
  <1> DEFINE c == at \div CellSize
  <1>1. /\ c \in Cell
        /\ center' \in [Cell -> Ground \cup {None}] /\ radius' \in [Cell -> Nat \cup {None}]
        /\ scannedAt' \in [Cell -> Times] /\ requestedAt' \in [Cell -> Times]
        /\ covered' \in [Ground -> Times]
        /\ \A d \in Cell \ {c} : /\ center'[d] = center[d] /\ radius'[d] = radius[d]
                                 /\ scannedAt'[d] = scannedAt[d]
        /\ center'[c] = IF center[c] = None THEN at ELSE center[c]
        /\ radius'[c] = IF KeepsRadius(c, r) THEN radius[c] ELSE r
        /\ scannedAt'[c] = clock
        /\ center'[c] \in Ground /\ center'[c] \div CellSize = c
        /\ radius'[c] \in Nat /\ radius'[c] >= r
        /\ \A p \in Ground : covered'[p] = IF Distance(p, at) <= r THEN clock ELSE covered[p]
      BY RecordScanRows
  <1>2. clock \in Nat /\ clock # None
      BY CoverageConstants DEF CInv, CoverageTypes
  <1>3. CoverageTypes'
      BY <1>1 DEF CInv, CoverageTypes
  <1>4. Distance(at, center'[c]) <= CellSize - 1
      BY <1>1, CellsAreSmall, CoverageConstants
  <1> HIDE DEF c
  <1>5. RowsAreWhole'
      BY <1>1, CoverageConstants DEF CInv, CoverageTypes, RowsAreWhole
  <1>6. \A p \in Ground : covered[p] # None => covered'[p] # None
      BY <1>1, <1>2
  <1>7. RowsWereScanned'
    <2> SUFFICES ASSUME NEW d \in Cell, scannedAt'[d] # None, NEW p \in Ground,
                        Distance(p, center'[d]) + (CellSize - 1) <= radius'[d]
                 PROVE  covered'[p] # None
        BY DEF RowsWereScanned, Distance
    <2>1. CASE d # c
        BY <2>1, <1>1, <1>6 DEF CInv, RowsWereScanned
    <2>2. CASE d = c /\ KeepsRadius(c, r)
      <3>1. scannedAt[c] # None /\ center[c] # None
          BY <2>2, <1>1 DEF KeepsRadius, CInv, RowsAreWhole
      <3> QED
          BY <2>2, <3>1, <1>1, <1>6 DEF CInv, RowsWereScanned
    <2>3. CASE d = c /\ ~KeepsRadius(c, r)
      <3>1. Distance(p, center'[c]) + (CellSize - 1) <= r
        <4>1. radius'[d] = r /\ d = c
            BY <2>3, <1>1
        <4> QED
            BY <4>1
      <3>2. /\ Distance(p, at) <= Distance(p, center'[c]) + Distance(center'[c], at)
            /\ Distance(center'[c], at) = Distance(at, center'[c])
            /\ Distance(p, at) \in Nat /\ Distance(p, center'[c]) \in Nat /\ Distance(at, center'[c]) \in Nat
        <4>1. p \in Int /\ at \in Int /\ center'[c] \in Int
            BY <1>1, PointsAreNumbers
        <4> QED
            BY <4>1, Triangle
      <3>3. Distance(p, at) <= r
          BY <3>1, <3>2, <1>4, CoverageConstants
      <3> QED
          BY <3>3, <1>1, <1>2
    <2> QED
        BY <2>1, <2>2, <2>3
  <1> QED
      BY <1>3, <1>5, <1>7 DEF CInv

\* A request that scans nothing touches the radius of rows that claim nothing.
LEMMA RecordRequestKeepsCInv ==
    ASSUME CInv, NEW at \in Ground, NEW r \in Nat, RecordRequest(at, r), UNCHANGED <<clock, running>>
    PROVE  CInv'
  <1> DEFINE c == at \div CellSize
             grown == IF scannedAt[c] = None THEN Larger(radius[c], r) ELSE radius[c]
  <1>1. c \in Cell /\ at # None
      BY CoverageConstants DEF Cell
  <1>2. /\ center' = [center EXCEPT ![c] = IF center[c] = None THEN at ELSE center[c]]
        /\ requestedAt' = [requestedAt EXCEPT ![c] = clock]
        /\ radius' = [radius EXCEPT ![c] = grown]
        /\ UNCHANGED <<scannedAt, covered>>
      BY DEF RecordRequest, Requested
  <1>3. radius[c] \in Nat \cup {None} /\ (scannedAt[c] # None => radius[c] \in Nat /\ center[c] # None)
      BY <1>1 DEF CInv, CoverageTypes, RowsAreWhole
  <1>4. grown \in Nat /\ (scannedAt[c] # None => grown = radius[c])
      BY <1>3 DEF Larger
  <1>5. at \div CellSize = c
      OBVIOUS
  <1> HIDE DEF c, grown
  <1>6. /\ \A d \in Cell : /\ center'[d] = IF d = c /\ center[d] = None THEN at ELSE center[d]
                           /\ radius'[d] = IF d = c THEN grown ELSE radius[d]
      BY <1>1, <1>2 DEF CInv, CoverageTypes
  <1>7. CoverageTypes'
      BY <1>1, <1>2, <1>4 DEF CInv, CoverageTypes, Times
  <1>8. RowsAreWhole'
      BY <1>1, <1>2, <1>4, <1>5, <1>6, CoverageConstants DEF CInv, RowsAreWhole
  <1>9. RowsWereScanned'
    <2>1. \A d \in Cell : scannedAt'[d] # None => center'[d] = center[d] /\ radius'[d] = radius[d]
        BY <1>1, <1>2, <1>3, <1>4, <1>6
    <2> QED
        BY <2>1, <1>2 DEF CInv, RowsWereScanned, Distance
  <1> QED
      BY <1>7, <1>8, <1>9 DEF CInv

LEMMA RestKeepsCInv ==
    ASSUME CInv, UNCHANGED <<table, covered>>, clock' \in Nat, running' \in [Circle -> Nat]
    PROVE  CInv'
  <1>1. CoverageTypes'
      BY DEF CInv, CoverageTypes, table
  <1>2. RowsAreWhole'
      BY DEF CInv, RowsAreWhole, table
  <1>3. RowsWereScanned'
      BY DEF CInv, RowsWereScanned, table, Distance
  <1> QED
      BY <1>1, <1>2, <1>3 DEF CInv

LEMMA ScanningKeepsCInv ==
    ASSUME CInv, NEW at \in Spot, NEW r \in Radius, NEW force \in BOOLEAN, NEW usable \in BOOLEAN,
           \/ AnswerFromDatabase(at, r, force, usable)
           \/ BeginScan(at, r, force, usable)
           \/ FinishScan(at, r)
           \/ FailScan(at, r)
    PROVE  CInv'
  <1>1. at \in Ground /\ r \in Nat /\ [at |-> at, radius |-> r] \in Circle
      BY CoverageConstants DEF Circle
  <1>2. running \in [Circle -> Nat] /\ clock \in Nat
      BY DEF CInv, CoverageTypes
  <1>3. CASE AnswerFromDatabase(at, r, force, usable)
      BY <1>1, <1>3, RecordRequestKeepsCInv DEF AnswerFromDatabase
  <1>4. CASE BeginScan(at, r, force, usable)
    <2>1. running' \in [Circle -> Nat]
        BY <1>1, <1>2, <1>4 DEF BeginScan
    <2> QED
        BY <1>2, <1>4, <2>1, RestKeepsCInv DEF BeginScan
  <1>5. CASE FinishScan(at, r)
    <2>1. running' \in [Circle -> Nat]
        BY <1>1, <1>2, <1>5 DEF FinishScan
    <2> QED
        BY <1>1, <1>5, <2>1, RecordScanKeepsCInv DEF FinishScan
  <1>6. CASE FailScan(at, r)
    <2>1. running' \in [Circle -> Nat]
        BY <1>1, <1>2, <1>6 DEF FailScan
    <2> QED
        BY <1>2, <1>6, <2>1, RestKeepsCInv DEF FailScan
  <1> QED
      BY <1>3, <1>4, <1>5, <1>6

\* The circle of a rescan.
LEMMA RescanCircle ==
    ASSUME CInv, RescanInv, NEW k \in Cities, groups[k] # {}
    PROVE  /\ Mean(groups[k]) \in Ground
           /\ \A c \in groups[k] : /\ c \in Cell /\ center[c] \in Ground /\ radius[c] \in Nat
                                   /\ FarEnd(c, Mean(groups[k])) \in Nat
                                   /\ Capped(FarEnd(c, Mean(groups[k]))) \in Nat
  <1>1. \A c \in groups[k] : c \in Cell /\ center[c] \in Ground /\ radius[c] \in Nat
      BY DEF RescanInv, CInv, CoverageTypes, RowsAreWhole
  <1>2. Mean(groups[k]) \in Ground
    <2>1. {center[c] : c \in groups[k]} \in (SUBSET Ground) \ {{}}
        BY <1>1
    <2> QED
        BY <2>1, MeansLieOnTheGround DEF Mean
  <1> DEFINE at == Mean(groups[k])
  <1> HIDE DEF at
  <1>3. ASSUME NEW c \in groups[k], at \in Ground PROVE FarEnd(c, at) \in Nat /\ Capped(FarEnd(c, at)) \in Nat
    <2>1. FarEnd(c, at) \in Nat
      <3>1. at \in Int /\ center[c] \in Int /\ radius[c] \in Nat
          BY <1>1, <1>3, PointsAreNumbers
      <3>2. Distance(at, center[c]) \in Nat
          BY <3>1, Triangle
      <3> QED
          BY <3>1, <3>2 DEF FarEnd
    <2> QED
        BY <2>1, CoverageConstants DEF Capped
  <1> QED
      BY <1>1, <1>2, <1>3 DEF at

\* The steps of the rescan job.
RescanStep ==
    \/ StartRescans \/ FinishRescan \/ FailRescans
    \/ \E k \in Cities, usable \in BOOLEAN : RescanCity(k, usable)

\* It takes a city: it begins a scan, or records a request, of the circle of a row.
LEMMA RescanIs ==
    ASSUME CInv, RescanInv, NEW k \in Cities, NEW usable \in BOOLEAN, RescanCity(k, usable)
    PROVE  \E far \in Farthest(groups[k], Mean(groups[k])) :
              /\ far \in groups[k] /\ Mean(groups[k]) \in Ground
              /\ Rescan(k, Mean(groups[k]), Capped(FarEnd(far, Mean(groups[k]))), usable)
  <1>1. PICK far \in Farthest(groups[k], Mean(groups[k])) :
            Rescan(k, Mean(groups[k]), Capped(FarEnd(far, Mean(groups[k]))), usable)
      BY DEF RescanCity
  <1>2. far \in groups[k]
      BY DEF Farthest
  <1>3. Mean(groups[k]) \in Ground
      BY <1>2, RescanCircle
  <1> QED
      BY <1>1, <1>2, <1>3

LEMMA RescanKeepsCInv ==
    ASSUME CInv, RescanInv, RescanStep PROVE CInv'
  <1>1. clock \in Nat /\ running \in [Circle -> Nat]
      BY DEF CInv, CoverageTypes
  <1>2. CASE StartRescans \/ FailRescans
      BY <1>1, <1>2, RestKeepsCInv DEF StartRescans, FailRescans
  <1>3. CASE FinishRescan
    <2>1. rescan.at \in Ground /\ rescan.radius \in Nat
        BY <1>3, BoundsAreNumbers DEF FinishRescan, RescanInv
    <2> QED
        BY <1>1, <1>3, <2>1, RecordScanKeepsCInv DEF FinishRescan
  <1>4. ASSUME NEW k \in Cities, NEW usable \in BOOLEAN, RescanCity(k, usable)
        PROVE  CInv'
    <2> DEFINE at == Mean(groups[k])
    <2>1. PICK far \in Farthest(groups[k], at) :
              far \in groups[k] /\ at \in Ground /\ Rescan(k, at, Capped(FarEnd(far, at)), usable)
        BY <1>4, RescanIs
    <2> DEFINE r == Capped(FarEnd(far, at))
    <2>2. r \in Nat
        BY <2>1, RescanCircle
    <2> HIDE DEF at, r
    <2>3. CASE usable
        BY <1>1, <2>1, <2>3, RestKeepsCInv DEF Rescan
    <2>4. CASE ~usable
      <3>1. RecordRequest(at, r) /\ UNCHANGED <<clock, running>>
          BY <2>1, <2>4 DEF Rescan, r
      <3> QED
          BY <2>1, <2>2, <3>1, RecordRequestKeepsCInv
    <2> QED
        BY <2>3, <2>4
  <1> QED
      BY <1>2, <1>3, <1>4 DEF RescanStep

LEMMA NextCInv == CInv /\ RescanInv /\ [Next]_vars => CInv'
  <1> SUFFICES ASSUME CInv, RescanInv, [Next]_vars PROVE CInv'
      OBVIOUS
  <1>1. clock \in Nat /\ running \in [Circle -> Nat]
      BY DEF CInv, CoverageTypes
  <1>2. CASE UNCHANGED vars
      BY <1>1, <1>2, RestKeepsCInv DEF vars
  <1>3. CASE Tick
      BY <1>1, <1>3, RestKeepsCInv DEF Tick
  <1>4. ASSUME NEW at \in Spot, NEW r \in Radius,
               \/ \E force, usable \in BOOLEAN :
                     AnswerFromDatabase(at, r, force, usable) \/ BeginScan(at, r, force, usable)
               \/ FinishScan(at, r) \/ FailScan(at, r)
        PROVE  CInv'
      BY <1>4, ScanningKeepsCInv
  <1>5. CASE RescanStep
      BY <1>5, RescanKeepsCInv
  <1> QED
      BY <1>2, <1>3, <1>4, <1>5 DEF Next, RescanStep

\* The types of the rows: one with a centre has all its columns and tells of no
\* time to come, one without has none.
RowBounds(c) ==
    IF center[c] = None
    THEN radius[c] = None /\ scannedAt[c] = None /\ requestedAt[c] = None
    ELSE radius[c] \in 1 .. MaxRadius /\ requestedAt[c] \in 0 .. clock /\ scannedAt[c] \in 0 .. clock \cup {None}

CoverageBounds ==
    /\ clock <= MaxTime /\ rescans \in 0 .. MaxRescans
    /\ \A c \in Cell : RowBounds(c)
    /\ covered \in [Ground -> 0 .. clock \cup {None}]
    /\ visited \in [Cities -> 0 .. clock \cup {None}]

\* A step that writes one row, its times with the time of now.
LEMMA RowKeepsBounds ==
    ASSUME CoverageTypes, CoverageBounds, NEW c \in Cell, NEW at \in Ground, NEW r \in 1 .. MaxRadius,
           NEW scanned \in {scannedAt[c], clock}, clock' = clock,
           center' = [center EXCEPT ![c] = IF center[c] = None THEN at ELSE center[c]],
           requestedAt' = [requestedAt EXCEPT ![c] = clock],
           radius' = [radius EXCEPT ![c] = r],
           scannedAt' = [scannedAt EXCEPT ![c] = scanned]
    PROVE  \A d \in Cell : RowBounds(d)'
  <1>1. RowBounds(c) /\ clock \in Nat /\ at # None /\ clock # None
      BY BoundsAreNumbers DEF CoverageBounds, CoverageTypes
  <1>2. /\ center'[c] = IF center[c] = None THEN at ELSE center[c]
        /\ requestedAt'[c] = clock /\ radius'[c] = r /\ scannedAt'[c] = scanned
      BY DEF CoverageTypes
  <1>3. RowBounds(c)'
      BY <1>1, <1>2 DEF RowBounds
  <1>4. ASSUME NEW d \in Cell, d # c PROVE RowBounds(d)'
    <2>1. /\ center'[d] = center[d] /\ requestedAt'[d] = requestedAt[d]
          /\ radius'[d] = radius[d] /\ scannedAt'[d] = scannedAt[d]
        BY <1>4 DEF CoverageTypes
    <2>2. RowBounds(d)
        BY DEF CoverageBounds
    <2> QED
        BY <2>1, <2>2 DEF RowBounds
  <1> QED
      BY <1>3, <1>4

LEMMA RecordScanKeepsBounds ==
    ASSUME CInv, CoverageBounds, NEW at \in Ground, NEW r \in 1 .. MaxRadius, RecordScan(at, r), clock' = clock,
           rescans' \in 0 .. MaxRescans, visited' = visited
    PROVE  CoverageBounds'
  <1> DEFINE c == at \div CellSize
             kept == IF KeepsRadius(c, r) THEN radius[c] ELSE r
  <1>1. c \in Cell
      BY DEF Cell
  <1>2. /\ center' = [center EXCEPT ![c] = IF center[c] = None THEN at ELSE center[c]]
        /\ requestedAt' = [requestedAt EXCEPT ![c] = clock]
        /\ radius' = [radius EXCEPT ![c] = kept]
        /\ scannedAt' = [scannedAt EXCEPT ![c] = clock]
        /\ covered' = [p \in Ground |-> IF Distance(p, at) <= r THEN clock ELSE covered[p]]
      BY DEF RecordScan, Requested
  <1>3. kept \in 1 .. MaxRadius
    <2>1. RowBounds(c)
        BY <1>1 DEF CoverageBounds
    <2> QED
        BY <2>1 DEF RowBounds, KeepsRadius
  <1> HIDE DEF c, kept
  <1>4. \A d \in Cell : RowBounds(d)'
      BY <1>1, <1>2, <1>3, RowKeepsBounds DEF CInv
  <1>5. clock \in Nat /\ clock \in 0 .. clock
      BY DEF CInv, CoverageTypes
  <1>6. covered' \in [Ground -> 0 .. clock \cup {None}]
      BY <1>2, <1>5 DEF CoverageBounds
  <1> QED
      BY <1>4, <1>6 DEF CoverageBounds

LEMMA RecordRequestKeepsBounds ==
    ASSUME CInv, CoverageBounds, NEW at \in Ground, NEW r \in 1 .. MaxRadius, RecordRequest(at, r), clock' = clock,
           rescans' = rescans, visited' \in [Cities -> 0 .. clock \cup {None}]
    PROVE  CoverageBounds'
  <1> DEFINE c == at \div CellSize
             grown == IF scannedAt[c] = None THEN Larger(radius[c], r) ELSE radius[c]
  <1>1. c \in Cell
      BY DEF Cell
  <1>2. /\ center' = [center EXCEPT ![c] = IF center[c] = None THEN at ELSE center[c]]
        /\ requestedAt' = [requestedAt EXCEPT ![c] = clock]
        /\ radius' = [radius EXCEPT ![c] = grown]
        /\ UNCHANGED <<scannedAt, covered>>
      BY DEF RecordRequest, Requested
  <1>3. grown \in 1 .. MaxRadius
    <2>1. RowBounds(c)
        BY <1>1 DEF CoverageBounds
    <2> QED
        BY <2>1, BoundsAreNumbers DEF RowBounds, Larger
  <1>4. scannedAt' = [scannedAt EXCEPT ![c] = scannedAt[c]]
      BY <1>1, <1>2 DEF CInv, CoverageTypes
  <1> HIDE DEF c, grown
  <1>5. \A d \in Cell : RowBounds(d)'
      BY <1>1, <1>2, <1>3, <1>4, RowKeepsBounds DEF CInv
  <1> QED
      BY <1>2, <1>5 DEF CoverageBounds

\* A step that writes no row; the clock may go on.
LEMMA RestKeepsBounds ==
    ASSUME CInv, CoverageBounds, UNCHANGED <<table, rescans, covered>>, clock' \in clock .. MaxTime,
           visited' \in [Cities -> 0 .. clock' \cup {None}]
    PROVE  CoverageBounds'
  <1>1. clock \in Nat /\ clock' \in Nat /\ clock <= clock' /\ clock' <= MaxTime
      BY BoundsAreNumbers DEF CInv, CoverageTypes
  <1>2. 0 .. clock \subseteq 0 .. clock'
      BY <1>1
  <1>3. \A c \in Cell : RowBounds(c)'
      BY <1>2 DEF CoverageBounds, RowBounds, table
  <1>4. covered' \in [Ground -> 0 .. clock' \cup {None}]
      BY <1>2 DEF CoverageBounds
  <1> QED
      BY <1>1, <1>3, <1>4 DEF CoverageBounds

LEMMA ScanningKeepsBounds ==
    ASSUME CInv, CoverageBounds, NEW at \in Spot, NEW r \in Radius, NEW force \in BOOLEAN, NEW usable \in BOOLEAN,
           \/ AnswerFromDatabase(at, r, force, usable)
           \/ BeginScan(at, r, force, usable)
           \/ FinishScan(at, r)
           \/ FailScan(at, r)
    PROVE  CoverageBounds'
  <1>1. at \in Ground /\ r \in 1 .. MaxRadius
      BY PointsAreNumbers, BoundsAreNumbers
  <1>2. clock \in Nat /\ clock \in 0 .. clock /\ clock \in clock .. MaxTime /\ visited \in [Cities -> 0 .. clock \cup {None}]
      BY BoundsAreNumbers DEF CInv, CoverageTypes, CoverageBounds
  <1>3. Visit(at) => visited' \in [Cities -> 0 .. clock \cup {None}]
      BY <1>2 DEF Visit
  <1>4. CASE AnswerFromDatabase(at, r, force, usable)
      BY <1>1, <1>3, <1>4, RecordRequestKeepsBounds DEF AnswerFromDatabase, rescanning
  <1>5. CASE BeginScan(at, r, force, usable)
      BY <1>2, <1>3, <1>5, RestKeepsBounds DEF BeginScan, rescanning
  <1>6. CASE FinishScan(at, r)
      BY <1>1, <1>6, RecordScanKeepsBounds DEF FinishScan, CoverageBounds, rescanning
  <1>7. CASE FailScan(at, r)
      BY <1>2, <1>7, RestKeepsBounds DEF FailScan, rescanning
  <1> QED
      BY <1>4, <1>5, <1>6, <1>7

LEMMA RescanRadius ==
    ASSUME CInv, CoverageBounds, RescanInv, NEW k \in Cities, NEW c \in groups[k]
    PROVE  Capped(FarEnd(c, Mean(groups[k]))) \in 1 .. MaxRadius
  <1> DEFINE at == Mean(groups[k])
  <1>1. at \in Ground /\ c \in Cell /\ center[c] \in Ground /\ FarEnd(c, at) \in Nat
      BY RescanCircle
  <1>2. radius[c] \in 1 .. MaxRadius
      BY <1>1, PointsAreNumbers DEF CoverageBounds, RowBounds
  <1> HIDE DEF at
  <1>3. Distance(at, center[c]) \in Nat
      BY <1>1, PointsAreNumbers, Triangle
  <1>4. Capped(FarEnd(c, at)) \in 1 .. MaxRadius
      BY <1>2, <1>3, BoundsAreNumbers DEF Capped, FarEnd
  <1> QED
      BY <1>4 DEF at

LEMMA RescanKeepsBounds ==
    ASSUME CInv, CoverageBounds, RescanInv, RescanStep PROVE CoverageBounds'
  <1>1. clock \in clock .. MaxTime /\ visited \in [Cities -> 0 .. clock \cup {None}] /\ rescans \in 0 .. MaxRescans
      BY BoundsAreNumbers DEF CInv, CoverageTypes, CoverageBounds
  <1>2. CASE StartRescans
    <2>1. rescans' \in 0 .. MaxRescans
        BY <1>1, <1>2, BoundsAreNumbers DEF StartRescans
    <2>2. \A c \in Cell : RowBounds(c)'
        BY <1>2 DEF StartRescans, table, CoverageBounds, RowBounds
    <2> QED
        BY <1>2, <2>1, <2>2 DEF StartRescans, CoverageBounds
  <1>3. CASE FailRescans
      BY <1>1, <1>3, RestKeepsBounds DEF FailRescans
  <1>4. CASE FinishRescan
      BY <1>1, <1>4, RecordScanKeepsBounds DEF FinishRescan, RescanInv
  <1>5. ASSUME NEW k \in Cities, NEW usable \in BOOLEAN, RescanCity(k, usable)
        PROVE  CoverageBounds'
    <2> DEFINE at == Mean(groups[k])
    <2>1. PICK far \in Farthest(groups[k], at) :
              far \in groups[k] /\ at \in Ground /\ Rescan(k, at, Capped(FarEnd(far, at)), usable)
        BY <1>5, RescanIs
    <2> DEFINE r == Capped(FarEnd(far, at))
    <2>2. r \in 1 .. MaxRadius
        BY <2>1, RescanRadius
    <2> HIDE DEF at, r
    <2>3. CASE usable
        BY <1>1, <2>1, <2>3, RestKeepsBounds DEF Rescan
    <2>4. CASE ~usable
      <3>1. RecordRequest(at, r) /\ clock' = clock /\ rescans' = rescans /\ visited' = visited
          BY <2>1, <2>4 DEF Rescan, r
      <3> QED
          BY <1>1, <2>1, <2>2, <3>1, RecordRequestKeepsBounds
    <2> QED
        BY <2>3, <2>4
  <1> QED
      BY <1>2, <1>3, <1>4, <1>5 DEF RescanStep

LEMMA NextBounds == CInv /\ CoverageBounds /\ RescanInv /\ [Next]_vars => CoverageBounds'
  <1> SUFFICES ASSUME CInv, CoverageBounds, RescanInv, [Next]_vars PROVE CoverageBounds'
      OBVIOUS
  <1>1. clock \in Nat /\ clock \in clock .. MaxTime /\ visited \in [Cities -> 0 .. clock \cup {None}]
      BY BoundsAreNumbers DEF CInv, CoverageTypes, CoverageBounds
  <1>2. CASE UNCHANGED vars
      BY <1>1, <1>2, RestKeepsBounds DEF vars, rescanning
  <1>3. CASE Tick
    <2>1. clock' \in clock .. MaxTime /\ 0 .. clock \subseteq 0 .. clock'
        BY <1>1, <1>3, BoundsAreNumbers DEF Tick
    <2>2. visited' \in [Cities -> 0 .. clock' \cup {None}]
        BY <1>1, <1>3, <2>1 DEF Tick
    <2> QED
        BY <1>3, <2>1, <2>2, RestKeepsBounds DEF Tick, rescanning
  <1>4. ASSUME NEW at \in Spot, NEW r \in Radius,
               \/ \E force, usable \in BOOLEAN :
                     AnswerFromDatabase(at, r, force, usable) \/ BeginScan(at, r, force, usable)
               \/ FinishScan(at, r) \/ FailScan(at, r)
        PROVE  CoverageBounds'
      BY <1>4, ScanningKeepsBounds
  <1>5. CASE RescanStep
      BY <1>5, RescanKeepsBounds
  <1> QED
      BY <1>2, <1>3, <1>4, <1>5 DEF Next, RescanStep

\* A row that is there keeps its centre.
LEMMA CentresStay ==
    ASSUME CInv, RescanInv, [Next]_vars
    PROVE  \A c \in Cell : center[c] # None => center'[c] = center[c]
  <1>1. \A at, r : RecordScan(at, r) \/ RecordRequest(at, r)
                  => \A c \in Cell : center[c] # None => center'[c] = center[c]
      BY DEF CInv, CoverageTypes, RecordScan, RecordRequest, Requested
  <1>2. CASE center' = center
      BY <1>2
  <1>3. center' = center \/ \E at, r : RecordScan(at, r) \/ RecordRequest(at, r)
    <2>1. CASE Tick \/ StartRescans \/ FailRescans \/ UNCHANGED vars
        BY <2>1 DEF Tick, StartRescans, FailRescans, vars, table
    <2>2. CASE FinishRescan
        BY <2>2 DEF FinishRescan
    <2>3. ASSUME NEW k \in Cities, NEW usable \in BOOLEAN, RescanCity(k, usable)
          PROVE  center' = center \/ \E at, r : RecordRequest(at, r)
        BY <2>3 DEF RescanCity, Rescan, table
    <2>4. ASSUME NEW at \in Spot, NEW r \in Radius,
                 \/ \E force, usable \in BOOLEAN :
                       AnswerFromDatabase(at, r, force, usable) \/ BeginScan(at, r, force, usable)
                 \/ FinishScan(at, r) \/ FailScan(at, r)
          PROVE  center' = center \/ RecordScan(at, r) \/ RecordRequest(at, r)
        BY <2>4 DEF AnswerFromDatabase, BeginScan, FinishScan, FailScan, table
    <2> QED
        BY <2>1, <2>2, <2>3, <2>4 DEF Next
  <1> QED
      BY <1>1, <1>2, <1>3

\* The job loses cities and its scan, but gets no new ones.
LEMMA RestKeepsRescanInv ==
    ASSUME RescanInv, \A c \in Cell : center[c] # None => center'[c] # None,
           groups' \in {groups, NoGroups}, rescan' \in {rescan, NoRescan}
    PROVE  RescanInv'
  <1>1. \A k \in Cities : groups'[k] \in SUBSET groups[k]
      BY DEF RescanInv, NoGroups
  <1>2. groups' \in [Cities -> SUBSET Cell]
      BY DEF RescanInv, NoGroups
  <1>3. rescan' # NoRescan => rescan' = rescan
      OBVIOUS
  <1> QED
      BY <1>1, <1>2, <1>3 DEF RescanInv, RescanReaches, Distance, NoRescan

LEMMA NextRescanInv == CInv /\ CoverageBounds /\ RescanInv /\ [Next]_vars => RescanInv'
  <1> SUFFICES ASSUME CInv, CoverageBounds, RescanInv, [Next]_vars PROVE RescanInv'
      OBVIOUS
  <1>1. \A c \in Cell : center[c] # None => center'[c] # None
      BY CentresStay
  <1>2. CASE groups' \in {groups, NoGroups} /\ rescan' \in {rescan, NoRescan}
      BY <1>1, <1>2, RestKeepsRescanInv
  <1>3. CASE StartRescans
    <2>1. groups' = [k \in Cities |-> Group(k)] /\ center' = center /\ rescan' = rescan /\ rescan = NoRescan
        BY <1>3 DEF StartRescans, table
    <2>2. \A k : Group(k) \in SUBSET Cell /\ \A c \in Group(k) : center[c] # None
        BY DEF Group, Rows
    <2> HIDE DEF Group
    <2> QED
        BY <2>1, <2>2 DEF RescanInv, NoRescan
  <1>4. ASSUME NEW k \in Cities, NEW usable \in BOOLEAN, RescanCity(k, usable)
        PROVE  RescanInv'
    <2> DEFINE at == Mean(groups[k])
    <2>1. PICK far \in Farthest(groups[k], at) :
              far \in groups[k] /\ at \in Ground /\ Rescan(k, at, Capped(FarEnd(far, at)), usable)
        BY <1>4, RescanIs
    <2> DEFINE r == Capped(FarEnd(far, at))
               begun == [at |-> at, radius |-> r, areas |-> {Area(c) : c \in groups[k]}]
    <2>2. r \in 1 .. MaxRadius
        BY <2>1, RescanRadius
    <2>3. \A c \in groups[k] : /\ center[c] \in Ground /\ radius[c] \in Nat
                               /\ FarEnd(c, at) \in Nat /\ FarEnd(c, at) <= FarEnd(far, at)
        BY <2>1, RescanCircle DEF Farthest
    <2>4. \A c \in groups[k] : FarEnd(c, at) <= MaxRadius => FarEnd(c, at) <= r
        BY <2>1, <2>3, CoverageConstants DEF Capped
    <2>5. /\ groups' = [groups EXCEPT ![k] = {}]
          /\ rescan' = begun \/ rescan' = rescan
        BY <2>1 DEF Rescan
    <2> HIDE DEF at, r
    <2>6. \A a \in begun.areas :
              /\ a.at \in Ground /\ a.radius \in Nat
              /\ Distance(at, a.at) + a.radius <= MaxRadius => Distance(at, a.at) + a.radius <= r
        BY <2>3, <2>4 DEF Area, FarEnd
    <2>7. begun.at = at /\ begun.radius = r
        OBVIOUS
    <2> HIDE DEF begun
    <2>8. groups' \in [Cities -> SUBSET Cell] /\ \A l \in Cities : \A c \in groups'[l] : center'[c] # None
        BY <1>1, <2>5 DEF RescanInv
    <2>9. CASE rescan' = begun
        BY <2>1, <2>2, <2>6, <2>7, <2>8, <2>9 DEF RescanInv, RescanReaches, Distance
    <2>10. CASE rescan' = rescan
        BY <2>8, <2>10 DEF RescanInv, RescanReaches, Distance, NoRescan
    <2> QED
        BY <2>5, <2>9, <2>10
  <1>5. \/ groups' \in {groups, NoGroups} /\ rescan' \in {rescan, NoRescan}
        \/ StartRescans
        \/ \E k \in Cities, usable \in BOOLEAN : RescanCity(k, usable)
      BY DEF Next, vars, rescanning, Tick, FinishRescan, FailRescans, AnswerFromDatabase, BeginScan, FinishScan, FailScan
  <1> QED
      BY <1>2, <1>3, <1>4, <1>5

LEMMA InitBounds == Init => CoverageBounds
  BY BoundsAreNumbers DEF Init, CoverageBounds, RowBounds

LEMMA InitRescanInv == Init => RescanInv
  BY DEF Init, RescanInv, NoGroups, NoRescan

CoverageInv == CInv /\ CoverageBounds /\ RescanInv

LEMMA SpecCoverageInv == Spec => []CoverageInv
  <1>1. CoverageInv /\ [Next]_vars => CoverageInv'
      BY NextCInv, NextBounds, NextRescanInv DEF CoverageInv
  <1>2. Init => CoverageInv
      BY InitCInv, InitBounds, InitRescanInv DEF CoverageInv
  <1> QED
      BY <1>1, <1>2, PTL DEF Spec

LEMMA BoundsAreTypes == CoverageInv => TypeOK
  <1> SUFFICES ASSUME CInv, CoverageBounds, RescanInv PROVE TypeOK
      BY DEF CoverageInv
  <1>1. \A c \in Rows : /\ center[c] \in Ground /\ center[c] \div CellSize = c
                        /\ radius[c] \in 1 .. MaxRadius
                        /\ requestedAt[c] \in 0 .. clock
                        /\ scannedAt[c] \in 0 .. clock \cup {None}
      BY DEF CInv, CoverageTypes, RowsAreWhole, CoverageBounds, RowBounds, Rows
  <1>2. \A c \in Cell \ Rows : {radius[c], scannedAt[c], requestedAt[c]} = {None}
      BY DEF CoverageBounds, RowBounds, Rows
  <1>3. clock \in 0 .. MaxTime
      BY BoundsAreNumbers DEF CInv, CoverageTypes, CoverageBounds
  <1>4. groups \in [Cities -> SUBSET Rows]
      BY DEF RescanInv, Rows
  <1> QED
      BY <1>1, <1>2, <1>3, <1>4 DEF TypeOK, CInv, CoverageTypes, CoverageBounds, RescanInv

\* An area is called fresh only where somebody scanned, for every ground, size
\* of cells and tolerance, and every number of scans at a time
\* (discovery.py:107-135, :138-162).
THEOREM FreshOnlyWhereScanned == Spec => []FreshWasScanned
  <1>1. CInv => FreshWasScanned
    <2> SUFFICES ASSUME CInv, NEW at \in Spot, NEW r \in Radius, Fresh(at, r), NEW p \in Inner(at, r)
                 PROVE  covered[p] # None
        BY DEF FreshWasScanned
    <2>1. PICK c \in Rows : Encloses(c, at, r) /\ Recent(scannedAt[c])
        BY DEF Fresh
    <2>2. /\ c \in Cell /\ scannedAt[c] # None
          /\ center[c] \in Ground /\ radius[c] \in Nat
        BY <2>1 DEF Rows, Recent, CInv, CoverageTypes, RowsAreWhole
    <2>3. /\ p \in Ground /\ at \in Ground /\ r \in Nat
          /\ Distance(p, at) + (Tolerance + CellSize - 1) <= r
          /\ Distance(at, center[c]) + r <= radius[c] + Tolerance
        BY <2>1, CoverageConstants DEF Inner, Slack, Encloses
    <2>4. /\ Distance(p, center[c]) <= Distance(p, at) + Distance(at, center[c])
          /\ Distance(p, at) \in Nat /\ Distance(at, center[c]) \in Nat /\ Distance(p, center[c]) \in Nat
        BY <2>2, <2>3, Triangle, PointsAreNumbers
    <2>5. Distance(p, center[c]) + (CellSize - 1) <= radius[c]
        BY <2>2, <2>3, <2>4, CoverageConstants
    <2> QED
        BY <2>2, <2>3, <2>5 DEF CInv, RowsWereScanned
  <1> QED
      BY <1>1, SpecCoverageInv, PTL DEF CoverageInv

\* Once a scan is recorded the same request is answered from the database: the
\* centre the row keeps is less than a cell away, which the tolerance forgives
\* (discovery.py:6-12).
THEOREM ScansMakeFresh == Spec => ScanMakesFresh
  <1>1. CInv /\ [Next]_vars => [\A at \in Spot, r \in Radius : FinishScan(at, r) => Fresh(at, r)']_vars
    <2> SUFFICES ASSUME CInv, NEW at \in Spot, NEW r \in Radius, FinishScan(at, r)
                 PROVE  Fresh(at, r)'
        OBVIOUS
    <2> DEFINE c == at \div CellSize
    <2>1. at \in Ground /\ r \in Nat
        BY CoverageConstants
    <2>2. RecordScan(at, r) /\ clock' = clock /\ clock \in Nat
        BY DEF FinishScan, CInv, CoverageTypes
    <2>3. /\ c \in Cell /\ scannedAt'[c] = clock
          /\ center'[c] \in Ground /\ center'[c] \div CellSize = c
          /\ radius'[c] \in Nat /\ radius'[c] >= r
        BY <2>1, <2>2, RecordScanRows
    <2>4. Distance(at, center'[c]) <= CellSize - 1 /\ Distance(at, center'[c]) \in Nat
        BY <2>1, <2>3, CellsAreSmall, Triangle, PointsAreNumbers, CoverageConstants
    <2> HIDE DEF c
    <2>5. Distance(at, center'[c]) + r <= radius'[c] + Tolerance
        BY <2>1, <2>3, <2>4, CoverageConstants
    <2>6. center'[c] # None /\ scannedAt'[c] # None /\ scannedAt'[c] >= clock' - Stale
      <3>1. clock >= clock - Stale /\ clock # None
          BY <2>2, CoverageConstants
      <3>2. center'[c] # None /\ scannedAt'[c] = clock /\ clock' = clock
          BY <2>2, <2>3, PointsAreNumbers
      <3> QED
          BY <3>1, <3>2
    <2> QED
        BY <2>3, <2>5, <2>6 DEF Fresh, Rows, Encloses, Recent, Distance
  <1> QED
      BY <1>1, SpecCoverageInv, PTL DEF CoverageInv, Spec, ScanMakesFresh

\* The scan around the mean of the centres covers every area it is for, but those
\* the largest radius cuts off, and answers the requests for them, whatever was
\* written to the rows in the meantime (discovery.py:228-255).
THEOREM RescansCover == Spec => RescanCoversCity
  <1> DEFINE CoversCity == FinishRescan =>
                \A a \in InReach :
                   /\ Fresh(a.at, a.radius)'
                   /\ \A p \in Ground : Distance(p, a.at) <= a.radius => covered'[p] = clock
  <1>1. CoverageInv /\ [Next]_vars => [CoversCity]_vars
    <2> SUFFICES ASSUME CInv, RescanInv, FinishRescan, NEW a \in InReach
                 PROVE  /\ Fresh(a.at, a.radius)'
                        /\ \A p \in Ground : Distance(p, a.at) <= a.radius => covered'[p] = clock
        BY DEF CoverageInv
    <2> DEFINE at == rescan.at
               r == rescan.radius
               c == at \div CellSize
    <2>1. at \in Ground /\ r \in Nat /\ RescanReaches
        BY BoundsAreNumbers DEF FinishRescan, RescanInv
    <2>2. a.at \in Ground /\ a.radius \in Nat /\ Distance(at, a.at) + a.radius <= r
        BY <2>1 DEF InReach, RescanReaches
    <2>3. RecordScan(at, r) /\ clock' = clock /\ clock \in Nat
        BY DEF FinishRescan, CInv, CoverageTypes
    <2>4. /\ c \in Cell /\ scannedAt'[c] = clock
          /\ center'[c] \in Ground /\ center'[c] \div CellSize = c
          /\ radius'[c] \in Nat /\ radius'[c] >= r
          /\ \A p \in Ground : covered'[p] = IF Distance(p, at) <= r THEN clock ELSE covered[p]
        BY <2>1, <2>3, RecordScanRows
    <2>5. Distance(at, center'[c]) <= CellSize - 1
        BY <2>1, <2>4, CellsAreSmall, PointsAreNumbers, CoverageConstants
    <2> HIDE DEF at, r, c
    <2>6. ASSUME NEW p \in Ground, Distance(p, a.at) <= a.radius PROVE covered'[p] = clock
      <3>1. /\ Distance(p, at) <= Distance(p, a.at) + Distance(a.at, at)
            /\ Distance(a.at, at) = Distance(at, a.at)
            /\ Distance(p, at) \in Nat /\ Distance(p, a.at) \in Nat /\ Distance(a.at, at) \in Nat
          BY <2>1, <2>2, Triangle, PointsAreNumbers
      <3>2. Distance(p, at) <= r
          BY <2>1, <2>2, <2>6, <3>1
      <3> QED
          BY <2>4, <3>2
    <2>7. Distance(a.at, center'[c]) + a.radius <= radius'[c] + Tolerance
      <3>1. /\ Distance(a.at, center'[c]) <= Distance(a.at, at) + Distance(at, center'[c])
            /\ Distance(a.at, at) = Distance(at, a.at)
            /\ Distance(a.at, center'[c]) \in Nat /\ Distance(at, center'[c]) \in Nat /\ Distance(a.at, at) \in Nat
          BY <2>1, <2>2, <2>4, Triangle, PointsAreNumbers
      <3> QED
          BY <2>1, <2>2, <2>4, <2>5, <3>1, CoverageConstants
    <2>8. center'[c] # None /\ scannedAt'[c] # None /\ scannedAt'[c] >= clock' - Stale
      <3>1. clock >= clock - Stale /\ clock # None
          BY <2>3, CoverageConstants
      <3>2. center'[c] # None /\ scannedAt'[c] = clock /\ clock' = clock
          BY <2>3, <2>4, PointsAreNumbers
      <3> QED
          BY <3>1, <3>2
    <2>9. Fresh(a.at, a.radius)'
        BY <2>4, <2>7, <2>8 DEF Fresh, Rows, Encloses, Recent, Distance
    <2> QED
        BY <2>6, <2>9
  <1> QED
      BY <1>1, SpecCoverageInv, PTL DEF Spec, RescanCoversCity

-----------------------------------------------------------------------------
(* Access.  The deque of a key holds the stamps of its last scans; a stamp is *)
(* older than its scan by at most the wait for the lock, so that the scan of  *)
(* a stamp that was dropped is older than the window less the wait.           *)

Scanned(stamps, ages) ==
    \A i \in 1 .. Len(ages) :
        LET j == Len(stamps) - Len(ages) + i
        IN  \/ ages[i] > Window - MaxWait
            \/ j >= 1 /\ ages[i] >= stamps[j] - MaxWait

Limited(stamps, ages) ==
    /\ Len(stamps) <= Limit /\ Len(stamps) <= Len(ages) /\ Len(ages) <= Limit + 1
    /\ Scanned(stamps, ages)

LimiterInv == AccessTypeOK /\ \A k \in Keys : Limited(hits[k], granted[k])

Stamps == 0 .. Window + MaxWait + 1
Ages == 0 .. Window - MaxWait + 1

LEMMA AccessConstants == Limit \in Nat /\ Window \in Nat /\ MaxWait \in Nat /\ MaxWait <= Window
  BY AccessAssumption

LEMMA InitLimiterInv == AccessInit => LimiterInv
  <1> SUFFICES ASSUME AccessInit PROVE LimiterInv
      OBVIOUS
  <1>1. AccessTypeOK
    <2>1. << >> \in Seq(Stamps) /\ << >> \in Seq(Ages) /\ Len(<< >>) = 0
        OBVIOUS
    <2> QED
        BY <2>1, AccessConstants DEF AccessInit, AccessTypeOK, Stamps, Ages
  <1>2. Limited(<<>>, <<>>)
      BY AccessConstants DEF Limited, Scanned
  <1> QED
      BY <1>1, <1>2 DEF LimiterInv, AccessInit

\* What a call drops of the deque has no scan of the window.
LEMMA DroppedAreOld ==
    ASSUME NEW stamps \in Seq(Stamps), NEW ages \in Seq(Ages), NEW waited \in 0 .. MaxWait,
           Limited(stamps, ages), NEW live \in Live(stamps, waited)
    PROVE  live \in Seq(Stamps) /\ Len(live) <= Len(stamps) /\ Limited(live, ages)
  <1>1. PICK n \in 0 .. Len(stamps) : /\ live = SubSeq(stamps, n + 1, Len(stamps))
                                      /\ \A i \in 1 .. n : stamps[i] - waited > Window
      BY DEF Live
  <1>2. /\ live \in Seq(Stamps) /\ Len(live) = Len(stamps) - n
        /\ \A i \in 1 .. Len(live) : live[i] = stamps[n + i]
      BY <1>1
  <1>3. Len(stamps) \in Nat /\ Len(ages) \in Nat /\ Len(stamps) <= Len(ages)
      BY DEF Limited
  <1>4. Scanned(live, ages)
    <2> SUFFICES ASSUME NEW i \in 1 .. Len(ages), ~(ages[i] > Window - MaxWait)
                 PROVE  /\ Len(live) - Len(ages) + i >= 1
                        /\ ages[i] >= live[Len(live) - Len(ages) + i] - MaxWait
        BY DEF Scanned
    <2> DEFINE j == Len(stamps) - Len(ages) + i
    <2>1. j >= 1 /\ ages[i] >= stamps[j] - MaxWait
        BY DEF Limited, Scanned
    <2>2. j \in 1 .. Len(stamps) /\ Len(live) - Len(ages) + i = j - n
        BY <1>2, <1>3, <2>1
    <2> HIDE DEF j
    <2>3. ages[i] \in Int /\ stamps[j] \in Int
      <3>1. ages[i] \in Ages /\ stamps[j] \in Stamps
          BY <2>2
      <3>2. \A x : x \in Ages \/ x \in Stamps => x \in Int
          BY AccessConstants DEF Ages, Stamps
      <3> QED
          BY <3>1, <3>2
    <2>4. ~(stamps[j] - waited > Window)
        BY <2>1, <2>3, AccessConstants
    <2>5. j > n
        BY <1>1, <2>2, <2>4
    <2>6. j - n \in 1 .. Len(live) /\ n + (j - n) = j
        BY <1>2, <1>3, <2>2, <2>5
    <2>7. live[j - n] = stamps[j]
        BY <1>2, <2>6
    <2> QED
        BY <2>1, <2>2, <2>6, <2>7
  <1>5. Len(stamps) <= Limit /\ Len(stamps) <= Len(ages) /\ Len(ages) <= Limit + 1
      BY DEF Limited
  <1>6. Len(live) <= Len(stamps) /\ Len(live) \in Nat
      BY <1>2, <1>3
  <1>7. Len(live) <= Limit /\ Len(live) <= Len(ages)
      BY <1>3, <1>5, <1>6, AccessConstants
  <1> QED
      BY <1>2, <1>4, <1>5, <1>6, <1>7 DEF Limited

\* A granted scan and its stamp.
LEMMA GrantIsStamped ==
    ASSUME NEW live \in Seq(Stamps), NEW ages \in Seq(Ages), NEW waited \in 0 .. MaxWait,
           Limited(live, ages), ~Full(live)
    PROVE  /\ Append(live, waited) \in Seq(Stamps) /\ Append(Latest(ages), 0) \in Seq(Ages)
           /\ Limited(Append(live, waited), Append(Latest(ages), 0))
  <1> DEFINE last == Latest(ages)
             s == Append(live, waited)
             g == Append(last, 0)
  <1>1. Len(live) \in Nat /\ Len(ages) \in Nat /\ Len(live) < Limit /\ Len(live) <= Len(ages) /\ Len(ages) <= Limit + 1
      BY AccessConstants DEF Limited, Full
  <1>2. PICK d \in {0, 1} : /\ last \in Seq(Ages) /\ Len(last) = Len(ages) - d
                            /\ \A i \in 1 .. Len(last) : last[i] = ages[i + d]
                            /\ Len(last) <= Limit /\ Len(live) <= Len(last)
    <2>1. CASE Len(ages) > Limit
      <3>1. ages # <<>> /\ last = Tail(ages) /\ Len(ages) = Limit + 1
          BY <2>1, <1>1, AccessConstants DEF Latest
      <3>2. last \in Seq(Ages) /\ Len(last) = Len(ages) - 1 /\ \A i \in 1 .. Len(last) : last[i] = ages[i + 1]
          BY <3>1
      <3> QED
          BY <3>1, <3>2, <1>1, AccessConstants
    <2>2. CASE ~(Len(ages) > Limit)
      <3>1. last = ages
          BY <2>2 DEF Latest
      <3> QED
          BY <3>1, <2>2, <1>1, AccessConstants
    <2> QED
        BY <2>1, <2>2
  <1>3. waited \in Stamps /\ 0 \in Ages
      BY AccessConstants DEF Stamps, Ages
  <1> HIDE DEF last
  <1>4. /\ s \in Seq(Stamps) /\ Len(s) = Len(live) + 1 /\ s[Len(live) + 1] = waited
        /\ \A i \in 1 .. Len(live) : s[i] = live[i]
      BY <1>3
  <1>5. /\ g \in Seq(Ages) /\ Len(g) = Len(last) + 1 /\ g[Len(last) + 1] = 0
        /\ \A i \in 1 .. Len(last) : g[i] = last[i]
      BY <1>2, <1>3
  <1> HIDE DEF s, g
  <1>6. Scanned(s, g)
    <2> SUFFICES ASSUME NEW i \in 1 .. Len(g)
                 PROVE  \/ g[i] > Window - MaxWait
                        \/ /\ Len(s) - Len(g) + i >= 1
                           /\ g[i] >= s[Len(s) - Len(g) + i] - MaxWait
        BY DEF Scanned
    <2>1. CASE i = Len(last) + 1
      <3>1. Len(s) - Len(g) + i = Len(live) + 1 /\ g[i] = 0
          BY <2>1, <1>1, <1>2, <1>4, <1>5
      <3>2. s[Len(s) - Len(g) + i] = waited
          BY <3>1, <1>4
      <3>3. Len(live) + 1 >= 1 /\ 0 >= waited - MaxWait
          BY <1>1, AccessConstants
      <3> QED
          BY <3>1, <3>2, <3>3
    <2>2. CASE i # Len(last) + 1
      <3> DEFINE j == Len(live) - Len(ages) + (i + d)
      <3>1. i \in 1 .. Len(last) /\ i + d \in 1 .. Len(ages) /\ Len(s) - Len(g) + i = j
          BY <2>2, <1>1, <1>2, <1>4, <1>5
      <3>2. g[i] = ages[i + d]
          BY <3>1, <1>2, <1>5
      <3>3. ages[i + d] > Window - MaxWait \/ (j >= 1 /\ ages[i + d] >= live[j] - MaxWait)
          BY <3>1 DEF Limited, Scanned
      <3>4. j >= 1 => s[j] = live[j]
        <4>1. j <= Len(live) /\ j \in Int
          <5>1. i + d <= Len(ages) /\ i + d \in Int
              BY <3>1, <1>1
          <5> QED
              BY <5>1, <1>1
        <4> QED
            BY <4>1, <1>1, <1>4
      <3> HIDE DEF j
      <3> QED
          BY <3>1, <3>2, <3>3, <3>4
    <2> QED
        BY <2>1, <2>2
  <1> QED
      BY <1>1, <1>2, <1>4, <1>5, <1>6, AccessConstants DEF Limited, last, s, g

\* A tick: both grow older, until they are old enough.
LEMMA TimePasses ==
    ASSUME NEW stamps \in Seq(Stamps), NEW ages \in Seq(Ages), Limited(stamps, ages)
    PROVE  LET s == Aged(stamps, Window + MaxWait)
               g == Aged(ages, Window - MaxWait)
           IN  s \in Seq(Stamps) /\ g \in Seq(Ages) /\ Limited(s, g)
  <1> DEFINE s == Aged(stamps, Window + MaxWait)
             g == Aged(ages, Window - MaxWait)
             S(x) == Older(x, Window + MaxWait)
             G(x) == Older(x, Window - MaxWait)
  <1>1. /\ \A x \in Stamps : S(x) \in Stamps
        /\ \A x \in Ages : G(x) \in Ages
        /\ \A x \in Ages, y \in Stamps :
              x > Window - MaxWait \/ x >= y - MaxWait => G(x) > Window - MaxWait \/ G(x) >= S(y) - MaxWait
      BY AccessConstants DEF Older, Stamps, Ages
  <1>2. /\ s = [i \in DOMAIN stamps |-> S(stamps[i])]
        /\ g = [i \in DOMAIN ages |-> G(ages[i])]
      BY DEF Aged
  <1> HIDE DEF S, G, s, g
  <1>3. /\ s \in Seq(Stamps) /\ Len(s) = Len(stamps) /\ \A i \in 1 .. Len(stamps) : s[i] = S(stamps[i])
        /\ g \in Seq(Ages) /\ Len(g) = Len(ages) /\ \A i \in 1 .. Len(ages) : g[i] = G(ages[i])
    <2>1. /\ s \in Seq(Stamps) /\ Len(s) = Len(stamps)
          /\ \A i \in 1 .. Len(stamps) : s[i] = S(stamps[i])
      <3>1. DOMAIN stamps = 1 .. Len(stamps) /\ Len(stamps) \in Nat
          OBVIOUS
      <3>2. s = [i \in 1 .. Len(stamps) |-> S(stamps[i])]
          BY <1>2, <3>1
      <3>3. \A i \in 1 .. Len(stamps) : S(stamps[i]) \in Stamps
          BY <1>1
      <3>4. s \in [1 .. Len(stamps) -> Stamps]
          BY <3>2, <3>3
      <3> QED
          BY <3>1, <3>2, <3>4
    <2>2. /\ g \in Seq(Ages) /\ Len(g) = Len(ages)
          /\ \A i \in 1 .. Len(ages) : g[i] = G(ages[i])
      <3>1. DOMAIN ages = 1 .. Len(ages) /\ Len(ages) \in Nat
          OBVIOUS
      <3>2. g = [i \in 1 .. Len(ages) |-> G(ages[i])]
          BY <1>2, <3>1
      <3>3. \A i \in 1 .. Len(ages) : G(ages[i]) \in Ages
          BY <1>1
      <3>4. g \in [1 .. Len(ages) -> Ages]
          BY <3>2, <3>3
      <3> QED
          BY <3>1, <3>2, <3>4
    <2> QED
        BY <2>1, <2>2
  <1>4. Scanned(s, g)
    <2> SUFFICES ASSUME NEW i \in 1 .. Len(ages)
                 PROVE  \/ g[i] > Window - MaxWait
                        \/ /\ Len(stamps) - Len(ages) + i >= 1
                           /\ g[i] >= s[Len(stamps) - Len(ages) + i] - MaxWait
        BY <1>3 DEF Scanned
    <2> DEFINE j == Len(stamps) - Len(ages) + i
    <2>1. ages[i] > Window - MaxWait \/ (j >= 1 /\ ages[i] >= stamps[j] - MaxWait)
        BY DEF Limited, Scanned
    <2>2. ages[i] \in Ages /\ g[i] = G(ages[i])
        BY <1>3
    <2>3. Len(stamps) \in Nat /\ Len(ages) \in Nat /\ j <= Len(stamps) /\ j \in Int
        OBVIOUS
    <2> HIDE DEF j
    <2>4. j >= 1 => stamps[j] \in Stamps /\ s[j] = S(stamps[j])
        BY <1>3, <2>3
    <2>5. CASE j >= 1
        BY <1>1, <2>1, <2>2, <2>4, <2>5 DEF j
    <2>6. CASE ~(j >= 1)
      <3>1. ages[i] > Window - MaxWait
          BY <2>1, <2>6
      <3>2. G(ages[i]) > Window - MaxWait
        <4>1. ages[i] \in Int
            BY <2>2, AccessConstants DEF Ages
        <4> QED
            BY <3>1, <4>1, AccessConstants DEF G, Older
      <3> QED
          BY <2>2, <3>2
    <2> QED
        BY <2>5, <2>6
  <1>5. Len(s) <= Limit /\ Len(s) <= Len(g) /\ Len(g) <= Limit + 1
      BY <1>3 DEF Limited
  <1>6. s \in Seq(Stamps) /\ g \in Seq(Ages) /\ Limited(s, g)
      BY <1>3, <1>4, <1>5 DEF Limited
  <1> QED
      BY <1>6 DEF s, g

\* What the type invariant says of the rows, by key and by thread.
LEMMA LimiterTypes ==
    LimiterInv <=>
        /\ hits \in [Keys -> Seq(Stamps)] /\ granted \in [Keys -> Seq(Ages)]
        /\ calls \in [Thread -> [key : Keys, waited : 0 .. MaxWait] \cup {NoCall}]
        /\ \A k \in Keys : Limited(hits[k], granted[k])
  BY DEF LimiterInv, AccessTypeOK, Stamps, Ages, Limited

LEMMA NextLimiterInv == LimiterInv /\ [AccessNext]_accessVars => LimiterInv'
  <1> SUFFICES ASSUME LimiterInv, [AccessNext]_accessVars PROVE LimiterInv'
      OBVIOUS
  <1> DEFINE Waiting == [key : Keys, waited : 0 .. MaxWait]
  <1>1. /\ hits \in [Keys -> Seq(Stamps)] /\ granted \in [Keys -> Seq(Ages)]
        /\ calls \in [Thread -> Waiting \cup {NoCall}]
        /\ \A k \in Keys : Limited(hits[k], granted[k])
      BY LimiterTypes
  <1>2. SUFFICES /\ hits' \in [Keys -> Seq(Stamps)] /\ granted' \in [Keys -> Seq(Ages)]
                 /\ calls' \in [Thread -> Waiting \cup {NoCall}]
                 /\ \A k \in Keys : Limited(hits'[k], granted'[k])
    <2>1. /\ AccessTypeOK' <=>
                /\ hits' \in [Keys -> Seq(Stamps)] /\ \A k \in Keys : Len(hits'[k]) <= Limit
                /\ granted' \in [Keys -> Seq(Ages)] /\ \A k \in Keys : Len(granted'[k]) <= Limit + 1
                /\ calls' \in [Thread -> Waiting \cup {NoCall}]
        BY DEF AccessTypeOK, Stamps, Ages
    <2> QED
        BY <2>1 DEF LimiterInv, Limited, Scanned
  <1>3. CASE UNCHANGED accessVars
      BY <1>1, <1>3 DEF accessVars
  <1>4. ASSUME NEW t \in Thread, NEW asked \in Request, AskToScan(t, asked)
        PROVE  /\ hits' = hits /\ granted' = granted
               /\ calls' \in [Thread -> Waiting \cup {NoCall}]
    <2>1. [key |-> ClientKey(asked), waited |-> 0] \in Waiting
        BY AccessConstants DEF Keys
    <2> QED
        BY <1>1, <1>4, <2>1 DEF AskToScan
  <1>5. ASSUME NEW t \in Thread, calls[t] # NoCall
        PROVE  calls[t] \in Waiting /\ calls[t].key \in Keys /\ calls[t].waited \in 0 .. MaxWait
      BY <1>1, <1>5
  <1>6. ASSUME NEW t \in Thread, Refuse(t)
        PROVE  /\ hits' \in [Keys -> Seq(Stamps)] /\ granted' \in [Keys -> Seq(Ages)]
               /\ calls' \in [Thread -> Waiting \cup {NoCall}]
               /\ \A k \in Keys : Limited(hits'[k], granted'[k])
    <2> DEFINE c == calls[t]
    <2>1. c.key \in Keys /\ c.waited \in 0 .. MaxWait
        BY <1>5, <1>6 DEF Refuse
    <2>2. calls' = [calls EXCEPT ![t] = NoCall] /\ granted' = granted
        BY <1>6 DEF Refuse
    <2>3. PICK live \in Live(hits[c.key], c.waited) : hits' = [hits EXCEPT ![c.key] = live]
        BY <1>6 DEF Refuse
    <2> HIDE DEF c
    <2>4. live \in Seq(Stamps) /\ Limited(live, granted[c.key])
        BY <1>1, <2>1, DroppedAreOld
    <2> HIDE DEF Waiting
    <2> QED
        BY <1>1, <2>1, <2>2, <2>3, <2>4
  <1>7. ASSUME NEW t \in Thread, Grant(t)
        PROVE  /\ hits' \in [Keys -> Seq(Stamps)] /\ granted' \in [Keys -> Seq(Ages)]
               /\ calls' \in [Thread -> Waiting \cup {NoCall}]
               /\ \A k \in Keys : Limited(hits'[k], granted'[k])
    <2> DEFINE c == calls[t]
    <2>1. c.key \in Keys /\ c.waited \in 0 .. MaxWait
        BY <1>5, <1>7 DEF Grant
    <2>2. calls' = [calls EXCEPT ![t] = NoCall]
        BY <1>7 DEF Grant
    <2>3. PICK live \in Live(hits[c.key], c.waited) :
              /\ ~Full(live)
              /\ \/ /\ hits' = [k \in Keys |-> <<>>]
                    /\ granted' = [k \in Keys |-> <<>>]
                 \/ /\ hits' = [hits EXCEPT ![c.key] = Append(live, c.waited)]
                    /\ granted' = [granted EXCEPT ![c.key] = Append(Latest(granted[c.key]), 0)]
        BY <1>7 DEF Grant
    <2> HIDE DEF c
    <2>4. live \in Seq(Stamps) /\ Limited(live, granted[c.key])
        BY <1>1, <2>1, DroppedAreOld
    <2>5. /\ Append(live, c.waited) \in Seq(Stamps) /\ Append(Latest(granted[c.key]), 0) \in Seq(Ages)
          /\ Limited(Append(live, c.waited), Append(Latest(granted[c.key]), 0))
        BY <1>1, <2>1, <2>3, <2>4, GrantIsStamped
    <2>6. <<>> \in Seq(Stamps) /\ <<>> \in Seq(Ages) /\ Limited(<<>>, <<>>)
        BY AccessConstants DEF Limited, Scanned
    <2> HIDE DEF Waiting
    <2>7. calls' \in [Thread -> Waiting \cup {NoCall}]
        BY <1>1, <2>2
    <2> DEFINE s == Append(live, c.waited)
               g == Append(Latest(granted[c.key]), 0)
    <2> HIDE DEF s, g
    <2> QED
        BY <1>1, <2>1, <2>3, <2>5, <2>6, <2>7 DEF s, g
  <1>8. CASE AccessTick
    <2>1. calls' \in [Thread -> Waiting \cup {NoCall}]
      <3>1. ASSUME NEW t \in Thread, calls[t] # NoCall
            PROVE  [calls[t] EXCEPT !.waited = calls[t].waited + 1] \in Waiting
          BY <3>1, <1>5, <1>8, AccessConstants DEF AccessTick
      <3>2. calls' = [t \in Thread |-> IF calls[t] = NoCall THEN NoCall
                                       ELSE [calls[t] EXCEPT !.waited = calls[t].waited + 1]]
          BY <1>8 DEF AccessTick
      <3> HIDE DEF Waiting
      <3> QED
          BY <3>1, <3>2
    <2>2. /\ hits' = [k \in Keys |-> Aged(hits[k], Window + MaxWait)]
          /\ granted' = [k \in Keys |-> Aged(granted[k], Window - MaxWait)]
        BY <1>8 DEF AccessTick
    <2>3. \A k \in Keys : /\ Aged(hits[k], Window + MaxWait) \in Seq(Stamps)
                          /\ Aged(granted[k], Window - MaxWait) \in Seq(Ages)
                          /\ Limited(Aged(hits[k], Window + MaxWait), Aged(granted[k], Window - MaxWait))
        BY <1>1, TimePasses
    <2> HIDE DEF Waiting
    <2> QED
        BY <2>1, <2>2, <2>3
  <1> QED
      BY <1>1, <1>3, <1>4, <1>6, <1>7, <1>8 DEF AccessNext

LEMMA SpecLimiterInv == AccessSpec => []LimiterInv
  <1> QED
      BY InitLimiterInv, NextLimiterInv, PTL DEF AccessSpec

\* A visitor starts no more than the limit of scans in a window, less the wait
\* for the lock, for every number of threads and keys and every limit, window
\* and wait, unless the table was cleared (ratelimit.py:14-24).
THEOREM ScansAreLimited == AccessSpec => []ScansPerWindow
  <1>1. LimiterInv => ScansPerWindow
    <2> SUFFICES ASSUME LimiterInv, NEW k \in Keys, Len(granted[k]) > Limit
                 PROVE  Head(granted[k]) > Window - MaxWait
        BY DEF ScansPerWindow
    <2>1. granted[k] \in Seq(Ages) /\ hits[k] \in Seq(Stamps) /\ Limited(hits[k], granted[k])
        BY LimiterTypes
    <2>2. Len(hits[k]) \in Nat /\ Len(granted[k]) \in Nat
        BY <2>1
    <2>3. Len(hits[k]) <= Limit /\ Scanned(hits[k], granted[k])
        BY <2>1 DEF Limited
    <2> DEFINE n == Len(hits[k])
               m == Len(granted[k])
    <2>4. n - m + 1 < 1 /\ 1 \in 1 .. m
      <3>1. n \in Nat /\ m \in Nat /\ n <= Limit /\ m > Limit
          BY <2>2, <2>3
      <3> HIDE DEF n, m
      <3> QED
          BY <3>1, AccessConstants
    <2>5. \/ granted[k][1] > Window - MaxWait
          \/ n - m + 1 >= 1 /\ granted[k][1] >= hits[k][n - m + 1] - MaxWait
        BY <2>3, <2>4 DEF Scanned
    <2>6. n - m + 1 \in Int
        BY <2>2
    <2>7. granted[k][1] > Window - MaxWait
      <3> HIDE DEF n, m
      <3>1. ~(n - m + 1 >= 1)
          BY <2>4, <2>6
      <3> QED
          BY <2>5, <3>1
    <2>8. Head(granted[k]) = granted[k][1]
        BY <2>1, <2>4
    <2> QED
        BY <2>7, <2>8
  <1> QED
      BY <1>1, SpecLimiterInv, PTL
-----------------------------------------------------------------------------
(* Embeddings.                                                             *)

\* A session only knows rows that are there, and rows are never taken back.
WritersKnowRows ==
    \A w \in Writer : /\ writers[w].task = "write" => texts[writers[w].row] \in Text
                      /\ \A r \in writers[w].todo : texts[r] \in Text

EInv == EmbeddingsTypeOK /\ WritersKnowRows /\ VectorsFitTheirText

\* A row exists if and only if its text is a text.
LEMMA AbsentIsNoText == Absent \notin Text
  BY EmbeddingsAssumption DEF Absent, Text

LEMMA InitEInv == EmbeddingsInit => EInv
  <1> SUFFICES ASSUME EmbeddingsInit PROVE EInv
      OBVIOUS
  <1>1. NoTask \in Task /\ NoTask.task = "none" /\ NoTask.todo = {}
      BY DEF NoTask, Task
  <1>2. EmbeddingsTypeOK
      BY <1>1 DEF EmbeddingsInit, EmbeddingsTypeOK
  <1>3. WritersKnowRows /\ VectorsFitTheirText
      BY <1>1 DEF EmbeddingsInit, WritersKnowRows, VectorsFitTheirText
  <1> QED
      BY <1>2, <1>3 DEF EInv

\* encode gives nothing, or the vector of the text it was asked for.
LEMMA EncodingsFit ==
    ASSUME NEW p \in Process, NEW text, NEW v \in Encodings(p, text)
    PROVE  v \in {Absent, text}
  BY DEF Encodings

\* What a transaction writes over the copy it loaded is what it has; if it
\* changed nothing, the row stays as it is.
LEMMA MergedValues ==
    ASSUME NEW current \in Text, NEW copy \in Text, NEW text \in Text
    PROVE  /\ Merged(current, copy, text) \in Text
           /\ current = copy => Merged(current, copy, text) = text
           /\ text = copy => Merged(current, copy, text) = current
  BY DEF Merged, Text

\* Loads: the session gets a task about a row that is there, or loses one.
LEMMA TasksKeepEInv ==
    ASSUME EInv, UNCHANGED <<texts, vectors, outdated>>,
           model' \in [Process -> {"not loaded", "loaded", "failed"}],
           writers' \in [Writer -> Task],
           \A w \in Writer :
              /\ writers'[w].task = "write" => texts[writers'[w].row] \in Text
              /\ \A r \in writers'[w].todo : texts[r] \in Text
    PROVE  EInv'
  <1>1. EmbeddingsTypeOK' /\ WritersKnowRows'
      BY DEF EInv, EmbeddingsTypeOK, WritersKnowRows
  <1>2. VectorsFitTheirText'
      BY DEF EInv, VectorsFitTheirText, OfItsText
  <1> QED
      BY <1>1, <1>2 DEF EInv

\* Loading a row of the database.
LEMMA LoadsKeepsEInv ==
    ASSUME EInv, NEW w \in Writer, NEW r \in Row, NEW text \in Text, NEW todo \in SUBSET Row,
           texts[r] # Absent, \A q \in todo : texts[q] # Absent,
           Loads(w, r, text, todo), UNCHANGED <<texts, vectors, model, outdated>>
    PROVE  EInv'
  <1>1. /\ texts[r] \in Text /\ vectors[r] \in Text \cup {Absent}
        /\ \A q \in todo : texts[q] \in Text
      BY DEF EInv, EmbeddingsTypeOK
  <1> DEFINE task == [task |-> "write", row |-> r, copy |-> Copy(r), text |-> text, todo |-> todo]
  <1>2. task \in Task
      BY <1>1 DEF Task, Copy
  <1>3. writers' = [writers EXCEPT ![w] = task]
      BY DEF Loads
  <1>4. task.task = "write" /\ task.row = r /\ task.todo = todo
      OBVIOUS
  <1> HIDE DEF task
  <1>5. writers' \in [Writer -> Task]
      BY <1>2, <1>3 DEF EInv, EmbeddingsTypeOK
  <1>6. \A v \in Writer :
           /\ writers'[v].task = "write" => texts[writers'[v].row] \in Text
           /\ \A q \in writers'[v].todo : texts[q] \in Text
      BY <1>1, <1>3, <1>4 DEF EInv, EmbeddingsTypeOK, WritersKnowRows
  <1> QED
      BY <1>5, <1>6, TasksKeepEInv DEF EInv, EmbeddingsTypeOK

\* A title where there is none.
LEMMA TitledIsText ==
    ASSUME NEW text \in Text
    PROVE  Titled(text) \in Text
  BY EmbeddingsAssumption DEF Titled, Text, Untitled

\* A new row, and what the writers know stays true.
LEMMA NewRowKeepsEInv ==
    ASSUME EInv, NEW r \in Row, NEW text \in Text, NEW vector \in Text \cup {Absent},
           texts[r] = Absent,
           texts' = [texts EXCEPT ![r] = text], vectors' = [vectors EXCEPT ![r] = vector],
           outdated' \in SUBSET Row, outdated \subseteq outdated',
           vector # Absent /\ r \notin outdated' => vector = text \/ (r \in EventRow /\ text = Titled(vector)),
           UNCHANGED <<model, writers>>
    PROVE  EInv'
  <1>1. EmbeddingsTypeOK'
      BY DEF EInv, EmbeddingsTypeOK
  <1>2. WritersKnowRows'
      <2>1. \A q \in Row : texts[q] \in Text => texts'[q] \in Text
          BY DEF EInv, EmbeddingsTypeOK
      <2>2. \A w \in Writer : /\ writers[w].task = "write" => writers[w].row \in Row
                              /\ writers[w].todo \subseteq Row
          BY DEF EInv, EmbeddingsTypeOK, Task
      <2> QED
          BY <2>1, <2>2 DEF EInv, WritersKnowRows
  <1>3. VectorsFitTheirText'
      <2>1. /\ texts'[r] = text /\ vectors'[r] = vector
            /\ \A q \in Row \ {r} : texts'[q] = texts[q] /\ vectors'[q] = vectors[q]
          BY DEF EInv, EmbeddingsTypeOK
      <2> QED
          BY <2>1 DEF EInv, VectorsFitTheirText, OfItsText, Titled
  <1> QED
      BY <1>1, <1>2, <1>3 DEF EInv

\* The row that is saved: it gets text and vector together, or its text is what it
\* was, or it is outdated.
LEMMA SaveKeepsEInv ==
    ASSUME EInv, NEW w \in Writer, NEW vector \in Text \cup {Absent}, Save(w, vector)
    PROVE  EInv'
  <1> DEFINE c == writers[w]
             r == c.row
             old == texts[r]
             new == Merged(old, c.copy.text, c.text)
             rest == [NoTask EXCEPT !.todo = c.todo]
             kept == vector = Absent /\ c.text # c.copy.text /\ vectors[r] # Absent
             overtaken == vector # Absent /\ old # c.copy.text
  <1>1. /\ c.task = "write" /\ vector \in Encodings(ProcessOf[w], c.text)
        /\ texts' = [texts EXCEPT ![r] = new]
        /\ vectors' = [vectors EXCEPT ![r] = IF vector = Absent THEN vectors[r] ELSE vector]
        /\ outdated' = IF kept \/ overtaken THEN outdated \cup {r}
                       ELSE IF vector # Absent THEN outdated \ {r} ELSE outdated
        /\ writers' = [writers EXCEPT ![w] = rest]
        /\ UNCHANGED model
      BY DEF Save
  <1>2. c \in Task
      BY DEF EInv, EmbeddingsTypeOK
  <1>3. /\ r \in Row /\ c.text \in Text /\ c.copy.text \in Text
        /\ c.todo \in SUBSET Row /\ old \in Text
      BY <1>1, <1>2 DEF Task, EInv, WritersKnowRows
  <1>4. vector = Absent \/ vector = c.text
      <2>1. ProcessOf[w] \in Process
          BY EmbeddingsAssumption
      <2> QED
          BY <1>1, <2>1, EncodingsFit
  <1>5. /\ new \in Text
        /\ old = c.copy.text => new = c.text
        /\ c.text = c.copy.text => new = old
      BY <1>3, MergedValues
  <1>6. outdated' \subseteq Row
      BY <1>1, <1>3 DEF EInv, EmbeddingsTypeOK
  <1>7. rest \in Task /\ rest.task = "none" /\ rest.todo = c.todo
      BY <1>3 DEF NoTask, Task
  <1> HIDE DEF c, r, old, new, rest, kept, overtaken
  <1>8. EmbeddingsTypeOK'
      BY <1>1, <1>3, <1>5, <1>6, <1>7 DEF EInv, EmbeddingsTypeOK
  <1>9. WritersKnowRows'
      <2>1. \A q \in Row : texts[q] \in Text => texts'[q] \in Text
          BY <1>1, <1>5 DEF EInv, EmbeddingsTypeOK
      <2>2. \A v \in Writer : /\ writers[v].task = "write" => writers[v].row \in Row
                              /\ writers[v].todo \subseteq Row
          BY DEF EInv, EmbeddingsTypeOK, Task
      <2>3. \A q \in c.todo : texts[q] \in Text
          BY DEF EInv, WritersKnowRows, c
      <2>4. SUFFICES ASSUME NEW v \in Writer
                     PROVE  /\ writers'[v].task = "write" => texts'[writers'[v].row] \in Text
                            /\ \A q \in writers'[v].todo : texts'[q] \in Text
          BY DEF WritersKnowRows
      <2>5. CASE v = w
          <3>1. writers'[v] = rest
              BY <1>1, <2>5 DEF EInv, EmbeddingsTypeOK
          <3> QED
              BY <1>3, <1>7, <2>1, <2>3, <3>1
      <2>6. CASE v # w
          <3>1. writers'[v] = writers[v]
              BY <1>1, <2>6 DEF EInv, EmbeddingsTypeOK
          <3> QED
              BY <2>1, <2>2, <3>1 DEF EInv, WritersKnowRows
      <2> QED
          BY <2>5, <2>6
  <1>10. VectorsFitTheirText'
      <2>1. SUFFICES ASSUME NEW q \in Row, vectors'[q] # Absent, q \notin outdated'
                     PROVE  OfItsText(q)'
          BY DEF VectorsFitTheirText
      <2>2. CASE q # r
          <3>1. texts'[q] = texts[q] /\ vectors'[q] = vectors[q] /\ q \notin outdated
              BY <1>1, <2>1, <2>2 DEF EInv, EmbeddingsTypeOK
          <3> QED
              BY <2>1, <3>1 DEF EInv, VectorsFitTheirText, OfItsText, Titled
      <2>3. CASE q = r
          <3>1. texts'[q] = new /\ vectors'[q] = IF vector = Absent THEN vectors[r] ELSE vector
              BY <1>1, <1>3, <2>3 DEF EInv, EmbeddingsTypeOK
          <3>2. ~kept /\ ~overtaken
              BY <1>1, <2>1, <2>3
          <3>3. CASE vector = Absent
              <4>1. vectors'[q] = vectors[q] /\ outdated' = outdated
                  BY <1>1, <2>3, <3>1, <3>2, <3>3
              <4>2. c.text = c.copy.text
                  BY <2>1, <2>3, <3>2, <3>3, <4>1 DEF kept
              <4>3. texts'[q] = texts[q]
                  BY <1>5, <2>3, <3>1, <4>2 DEF old
              <4> QED
                  BY <2>1, <4>1, <4>3 DEF EInv, VectorsFitTheirText, OfItsText, Titled
          <3>4. CASE vector # Absent
              <4>1. texts'[q] = c.text /\ vectors'[q] = c.text
                  BY <1>4, <1>5, <3>1, <3>2, <3>4 DEF overtaken
              <4> QED
                  BY <4>1 DEF OfItsText
          <3> QED
              BY <3>3, <3>4
      <2> QED
          BY <2>2, <2>3
  <1> QED
      BY <1>8, <1>9, <1>10 DEF EInv

\* No step leaves a row that is not outdated with another text's vector.
LEMMA NextEInv == EInv /\ [EmbeddingsNext]_embeddingsVars => EInv'
  <1> SUFFICES ASSUME EInv, [EmbeddingsNext]_embeddingsVars PROVE EInv'
      OBVIOUS
  <1>t. /\ texts \in [Row -> Text \cup {Absent}] /\ vectors \in [Row -> Text \cup {Absent}]
        /\ model \in [Process -> {"not loaded", "loaded", "failed"}]
        /\ writers \in [Writer -> Task] /\ outdated \in SUBSET Row
      BY DEF EInv, EmbeddingsTypeOK
  <1>k. \A w \in Writer : /\ writers[w].task = "write" => texts[writers[w].row] \in Text
                          /\ \A r \in writers[w].todo : texts[r] \in Text /\ r \in Row
                          /\ writers[w].todo \in SUBSET Row
      BY <1>t DEF EInv, WritersKnowRows, Task
  <1>n. NoTask \in Task /\ NoTask.task = "none" /\ NoTask.todo = {}
      BY DEF NoTask, Task
  <1>1. ASSUME NEW p \in Process, Restart(p) PROVE EInv'
      <2>1. /\ model' \in [Process -> {"not loaded", "loaded", "failed"}]
            /\ writers' \in [Writer -> Task]
            /\ \A w \in Writer : writers'[w] \in {NoTask, writers[w]}
            /\ UNCHANGED <<texts, vectors, outdated>>
          BY <1>1, <1>t, <1>n DEF Restart
      <2>2. \A w \in Writer : /\ writers'[w].task = "write" => texts[writers'[w].row] \in Text
                              /\ \A r \in writers'[w].todo : texts[r] \in Text
          BY <2>1, <1>k, <1>n
      <2> QED
          BY <2>1, <2>2, TasksKeepEInv
  <1>2. ASSUME NEW p \in Process, NEW succeeds \in BOOLEAN, LoadModel(p, succeeds) PROVE EInv'
      <2>1. /\ model' \in [Process -> {"not loaded", "loaded", "failed"}]
            /\ UNCHANGED <<texts, vectors, writers, outdated>>
          BY <1>2, <1>t DEF LoadModel
      <2> QED
          BY <2>1, <1>t, <1>k, TasksKeepEInv
  <1>3. ASSUME NEW w \in Writer, NEW r \in Row, LoadForPass(w, r) PROVE EInv'
      <2>1. texts[r] \in Text
          BY <1>3, <1>t DEF LoadForPass
      <2>2. {} \in SUBSET Row /\ \A q \in {} : texts[q] # Absent
          OBVIOUS
      <2> QED
          BY <1>3, <2>1, <2>2, LoadsKeepsEInv DEF LoadForPass
  <1>4. ASSUME NEW w \in Writer, NEW r \in Row, StartBackfill(w, r) PROVE EInv'
      <2> DEFINE todo == {q \in Row \ {r} : texts[q] # Absent /\ vectors[q] = Absent}
      <2>1. texts[r] \in Text
          BY <1>4, <1>t DEF StartBackfill
      <2>2. todo \in SUBSET Row /\ \A q \in todo : texts[q] # Absent
          OBVIOUS
      <2>3. texts[r] # Absent /\ Loads(w, r, texts[r], todo) /\ UNCHANGED <<texts, vectors, model, outdated>>
          BY <1>4 DEF StartBackfill
      <2> HIDE DEF todo
      <2> QED
          BY <2>1, <2>2, <2>3, LoadsKeepsEInv
  <1>5. ASSUME NEW w \in Writer, NEW r \in Row, BackfillNext(w, r) PROVE EInv'
      <2> DEFINE todo == writers[w].todo \ {r}
      <2>1. texts[r] \in Text /\ texts[r] # Absent
          BY <1>5, <1>k, AbsentIsNoText DEF BackfillNext
      <2>2. todo \in SUBSET Row /\ \A q \in todo : texts[q] # Absent
          BY <1>k, AbsentIsNoText
      <2>3. Loads(w, r, texts[r], todo) /\ UNCHANGED <<texts, vectors, model, outdated>>
          BY <1>5 DEF BackfillNext
      <2> HIDE DEF todo
      <2> QED
          BY <2>1, <2>2, <2>3, LoadsKeepsEInv
  <1>6. ASSUME NEW w \in Writer, NEW r \in Row, NEW text \in Text, LoadForUpdate(w, r, text) PROVE EInv'
      <2>1. {} \in SUBSET Row /\ \A q \in {} : texts[q] # Absent
          OBVIOUS
      <2> QED
          BY <1>6, <2>1, LoadsKeepsEInv DEF LoadForUpdate
  <1>7. ASSUME NEW w \in Writer, NEW r \in Row, NEW text \in Text, NEW v \in {Absent, text}, CreateRow(w, r, text, v)
        PROVE  EInv'
      <2>1. /\ texts[r] = Absent /\ texts' = [texts EXCEPT ![r] = text]
            /\ vectors' = [vectors EXCEPT ![r] = v] /\ UNCHANGED <<model, writers, outdated>>
          BY <1>7 DEF CreateRow
      <2>2. outdated' \in SUBSET Row /\ outdated \subseteq outdated'
          BY <1>t, <2>1
      <2>3. v \in Text \cup {Absent} /\ (v # Absent => v = text)
          OBVIOUS
      <2> QED
          BY <2>1, <2>2, <2>3, NewRowKeepsEInv
  <1>8. ASSUME NEW w \in Writer, NEW e \in EventRow, NEW s \in SignalRow, NEW v \in Text \cup {Absent},
               SeedEvent(w, e, s, v)
        PROVE  EInv'
      <2>1. e \in Row /\ s \in Row /\ texts[s] \in Text
          BY <1>8, <1>t DEF SeedEvent, Row
      <2>2. ProcessOf[w] \in Process
          BY EmbeddingsAssumption
      <2>3. outdated' \in SUBSET Row /\ outdated \subseteq outdated'
          BY <1>8, <1>t, <2>1 DEF SeedEvent
      <2>4. ASSUME v # Absent, e \notin outdated' PROVE v = Titled(texts[s]) \/ Titled(texts[s]) = Titled(v)
          <3>1. CASE vectors[s] # Absent
              <4>1. v = vectors[s] /\ s \notin outdated
                  BY <1>8, <2>4, <3>1 DEF SeedEvent
              <4>2. v = texts[s]
                  BY <2>1, <3>1, <4>1, EmbeddingsAssumption DEF EInv, VectorsFitTheirText, OfItsText
              <4> QED
                  BY <4>2
          <3>2. CASE vectors[s] = Absent
              <4>1. v \in Encodings(ProcessOf[w], Titled(texts[s]))
                  BY <1>8, <3>2 DEF SeedEvent
              <4> QED
                  BY <2>1, <2>2, <2>4, <4>1, EncodingsFit
          <3> QED
              BY <3>1, <3>2
      <2>5. Titled(texts[s]) \in Text
          BY <2>1, TitledIsText
      <2>6. /\ texts[e] = Absent /\ texts' = [texts EXCEPT ![e] = Titled(texts[s])]
            /\ vectors' = [vectors EXCEPT ![e] = v] /\ UNCHANGED <<model, writers>>
          BY <1>8 DEF SeedEvent
      <2> QED
          BY <2>1, <2>3, <2>4, <2>5, <2>6, NewRowKeepsEInv
  <1>9. ASSUME NEW w \in Writer, NEW v \in Text \cup {Absent}, Save(w, v) PROVE EInv'
      BY <1>9, SaveKeepsEInv
  <1>10. ASSUME NEW w \in Writer, GiveUp(w) PROVE EInv'
      <2>1. /\ writers' \in [Writer -> Task]
            /\ \A v \in Writer : writers'[v] \in {NoTask, writers[v]}
            /\ UNCHANGED <<texts, vectors, model, outdated>>
          BY <1>10, <1>t, <1>n DEF GiveUp
      <2>2. \A v \in Writer : /\ writers'[v].task = "write" => texts[writers'[v].row] \in Text
                              /\ \A r \in writers'[v].todo : texts[r] \in Text
          BY <2>1, <1>k, <1>n
      <2> QED
          BY <1>t, <2>1, <2>2, TasksKeepEInv
  <1>11. CASE UNCHANGED embeddingsVars
      BY <1>11, <1>t, <1>k, TasksKeepEInv DEF embeddingsVars
  <1> QED
      BY <1>1, <1>2, <1>3, <1>4, <1>5, <1>6, <1>7, <1>8, <1>9, <1>10, <1>11 DEF EmbeddingsNext

LEMMA SpecEInv == EmbeddingsSpec => []EInv
  BY InitEInv, NextEInv, PTL DEF EmbeddingsSpec

\* Rows, tasks and models keep their types, for every number of rows, sessions
\* and processes (models/event.py:63-69, :96-110).
THEOREM EmbeddingsTypes == EmbeddingsSpec => []EmbeddingsTypeOK
  <1>1. EInv => EmbeddingsTypeOK
      BY DEF EInv
  <1> QED
      BY <1>1, SpecEInv, PTL

\* A vector is that of the row's text, or of the text without the title an event was
\* given, unless an encoder without an answer left the vector of the text before, or
\* another session replaced the text the vector was computed from
\* (event_service.py:301, :317-320, embeddings.py:131-152).
THEOREM VectorsFit == EmbeddingsSpec => []VectorsFitTheirText
  <1>1. EInv => VectorsFitTheirText
      BY DEF EInv
  <1> QED
      BY <1>1, SpecEInv, PTL

-----------------------------------------------------------------------------
(* Matching.                                                               *)

EventRecords ==
    [id : Nat, title : Titles, category : {s.category : s \in Story} \cup {"general"},
     start : Int, venue : Venue \cup {"nowhere"}, vector : Titles \cup {"missing"}]

\* The types of the events: they are numbered in order.
MatchTypes ==
    /\ IsFiniteSet(events) /\ Cardinality(events) <= MaxEvents
    /\ \A e \in events : e \in EventRecords /\ e.id \in 1 .. Cardinality(events)
    /\ \A e, f \in events : e.id = f.id => e = f
    /\ points \in [Venue -> Points]
    /\ created \subseteq {e.id : e \in events}
    /\ decided.outcome \in {"none", "link", "review", "create"}

LEMMA StoryFields ==
    ASSUME NEW s \in Story
    PROVE  /\ s.start \in Int /\ s.place \in Int /\ s.title \in Titles /\ s.place \in Points
           /\ s.category \in {t.category : t \in Story} \cup {"general"}
  BY MatchingAssumption DEF Titles, Points

LEMMA ScoresAreIntegers ==
    ASSUME NEW s \in Story, NEW e \in EventRecords, NEW vector
    PROVE  ScoreOf(s, vector, e) \in Int
  <1>1. s.title \in Titles /\ e.title \in Titles /\ e.vector \in Titles \cup {"missing"}
      BY StoryFields DEF EventRecords
  <1>2. \A t, u \in Titles : Words[<<t, u>>] \in Int /\ Cosine[<<t, u>>] \in Int
      BY MatchingAssumption
  <1>3. TitleSimilarity(s, vector, e) \in Int
      BY <1>1, <1>2 DEF TitleSimilarity
  <1>4. TimeBoost(s, e) \in Int /\ CategoryBoost(s, e) \in Int /\ GeoBoost(s, e) \in Int
      BY DEF TimeBoost, CategoryBoost, GeoBoost
  <1> QED
      BY <1>3, <1>4 DEF ScoreOf

\* An event outside the window of candidates is vetoed: it has no score.
LEMMA OutsideIsVetoed ==
    ASSUME VetoTime <= CandidateWindow,
           NEW s \in Story, NEW e \in events, e \in EventRecords, e \notin InWindow(s), NEW vector
    PROVE  ScoreOf(s, vector, e) = 0
  <1>1. /\ Known(s.start, e.start)
        /\ ~(Between(s.start, e.start) <= CandidateWindow)
      BY DEF InWindow
  <1>2. s.start \in Int /\ e.start \in Int
      BY StoryFields DEF EventRecords
  <1>3. Between(s.start, e.start) > VetoTime
      BY <1>1, <1>2, MatchingAssumption DEF Between
  <1> QED
      BY <1>1, <1>3 DEF ScoreOf, Vetoed

\* Whatever the way, an event is a candidate, or has no score, or is one of those
\* the index overlooks.
LEMMA OthersAreOverlooked ==
    ASSUME VetoTime <= CandidateWindow,
           NEW s \in Story, NEW way \in {"scan", "index"}, NEW candidates \in Candidates(s, way),
           NEW e \in events, e \in EventRecords, NEW vector
    PROVE  e \in candidates \/ ScoreOf(s, vector, e) = 0 \/ Overlooked(s, way, e)
  <1>1. PICK found \in Found(s, way) : candidates = found \cup OfThisPass
      BY DEF Candidates
  <1>2. CASE way = "scan"
    <2>1. found = InWindow(s)
        BY <1>1, <1>2 DEF Found
    <2> QED
        BY <1>1, <2>1, OutsideIsVetoed
  <1>3. CASE way = "index"
    <2>1. SUFFICES ASSUME e \notin candidates PROVE Overlooked(s, way, e)
        OBVIOUS
    <2>2. /\ found \in SUBSET Indexed /\ (found = Indexed \/ Cardinality(found) = Nearest)
          /\ \A f \in Indexed \ found : Closer(s, found, f)
      <3>1. found \in Nearby(s)
          BY <1>1, <1>3 DEF Found
      <3> QED
          BY <3>1 DEF Nearby
    <2>3. e \notin found /\ e.id \notin created
        BY <1>1, <2>1 DEF OfThisPass
    <2>4. CASE e.vector = "missing"
        BY <1>3, <2>3, <2>4 DEF Overlooked
    <2>5. CASE e.vector # "missing"
      <3>1. e \in Indexed
          BY <2>5 DEF Indexed
      <3>2. found \in SUBSET (Indexed \ {e}) /\ Cardinality(found) = Nearest /\ Closer(s, found, e)
          BY <2>2, <2>3, <3>1
      <3> QED
          BY <1>3, <2>3, <3>2 DEF Overlooked
    <2> QED
        BY <2>4, <2>5
  <1> QED
      BY <1>2, <1>3

LEMMA CandidatesAreEvents ==
    ASSUME NEW s \in Story, NEW way \in {"scan", "index"}, NEW candidates \in Candidates(s, way)
    PROVE  candidates \subseteq events
  BY DEF Candidates, Found, InWindow, Nearby, Indexed, OfThisPass

\* What a match is.
LEMMA MatchIs ==
    ASSUME NEW s \in Story, NEW vector \in BOOLEAN, NEW way \in {"scan", "index"}, Match(s, vector, way)
    PROVE  \E candidates \in Candidates(s, way) : \E e \in Best(s, vector, candidates) :
              LET score == ScoreOf(s, vector, e)
              IN  /\ score >= Review
                  /\ Decide(s, vector, way, IF score >= Link THEN "link" ELSE "review", e.id, score)
                  /\ IF score >= Link THEN FillIn(e, s) ELSE UNCHANGED <<events, points>>
                  /\ UNCHANGED created
  BY DEF Match

\* The best candidate is as good as any event that is not overlooked.
LEMMA MatchIsBest ==
    ASSUME VetoTime <= CandidateWindow, MatchTypes,
           NEW s \in Story, NEW vector \in BOOLEAN, NEW way \in {"scan", "index"}, Match(s, vector, way)
    PROVE  BestOfAll
  <1> DEFINE Taken(e) == Decide(s, vector, way, IF ScoreOf(s, vector, e) >= Link THEN "link" ELSE "review",
                                 e.id, ScoreOf(s, vector, e))
  <1>a. PICK candidates \in Candidates(s, way) : \E e \in Best(s, vector, candidates) : Taken(e)
      BY MatchIs
  <1>1. PICK best \in Best(s, vector, candidates) : Taken(best)
      BY <1>a
  <1> DEFINE score == ScoreOf(s, vector, best)
             outcome == IF score >= Link THEN "link" ELSE "review"
  <1>2. /\ decided'.signal = s /\ decided'.vector = vector /\ decided'.way = way
        /\ decided'.outcome = outcome /\ decided'.score = score
      BY <1>1 DEF Decide
  <1>3. best \in EventRecords
      BY CandidatesAreEvents DEF Best, MatchTypes
  <1>4. score \in Int /\ score > 0
      BY <1>3, ScoresAreIntegers DEF Best
  <1>5. ASSUME NEW e \in events
        PROVE  Overlooked(s, way, e) \/ (ScoreOf(s, vector, e) \in Int /\ ScoreOf(s, vector, e) <= score)
    <2>1. e \in EventRecords
        BY DEF MatchTypes
    <2>2. e \in candidates \/ ScoreOf(s, vector, e) = 0 \/ Overlooked(s, way, e)
        BY <2>1, OthersAreOverlooked
    <2>3. e \in candidates => ScoreOf(s, vector, e) <= score
        BY DEF Best
    <2>4. ScoreOf(s, vector, e) \in Int
        BY <2>1, ScoresAreIntegers
    <2> QED
        BY <1>4, <2>2, <2>3, <2>4
  <1>6. /\ outcome \in {"review", "link"} /\ outcome # "create"
        /\ outcome = "review" => score < Link
      BY <1>4, MatchingAssumption
  <1> HIDE DEF score, outcome
  <1>7. ASSUME NEW e \in events
        PROVE  \/ Overlooked(s, way, e)
               \/ /\ outcome = "create" => TooLow(ScoreOf(s, vector, e))
                  /\ outcome \in {"review", "link"} => ScoreOf(s, vector, e) <= score
                  /\ outcome = "review" => ScoreOf(s, vector, e) < Link
      BY <1>4, <1>5, <1>6, MatchingAssumption
  <1> QED
      BY <1>2, <1>7 DEF BestOfAll

\* A signal that becomes an event had none that was near enough and not overlooked.
LEMMA SeedIsBest ==
    ASSUME VetoTime <= CandidateWindow, MatchTypes,
           NEW s \in Story, NEW vector \in BOOLEAN, NEW way \in {"scan", "index"}, Seed(s, vector, way)
    PROVE  BestOfAll
  <1>1. PICK candidates \in Candidates(s, way) : \A e \in candidates : TooLow(ScoreOf(s, vector, e))
      BY DEF Seed
  <1>2. /\ decided'.signal = s /\ decided'.vector = vector /\ decided'.way = way
        /\ decided'.outcome = "create"
      BY DEF Seed, Decide
  <1>3. ASSUME NEW e \in events
        PROVE  Overlooked(s, way, e) \/ TooLow(ScoreOf(s, vector, e))
    <2>1. e \in candidates \/ ScoreOf(s, vector, e) = 0 \/ Overlooked(s, way, e)
        BY OthersAreOverlooked DEF MatchTypes
    <2> QED
        BY <1>1, <2>1 DEF TooLow
  <1> QED
      BY <1>2, <1>3 DEF BestOfAll

LEMMA InitMatchTypes == MatchingInit => MatchTypes
  BY FS_EmptySet, MatchingAssumption DEF MatchingInit, MatchTypes, Undecided, Points

\* The event that is linked keeps its number.
LEMMA MatchKeepsMatchTypes ==
    ASSUME MatchTypes, NEW s \in Story, NEW vector \in BOOLEAN, NEW way \in {"scan", "index"},
           Match(s, vector, way)
    PROVE  MatchTypes'
  <1> DEFINE Taken(e) ==
                 /\ Decide(s, vector, way, IF ScoreOf(s, vector, e) >= Link THEN "link" ELSE "review",
                           e.id, ScoreOf(s, vector, e))
                 /\ FillIn(e, s) \/ UNCHANGED <<events, points>>
                 /\ UNCHANGED created
  <1>a. PICK candidates \in Candidates(s, way) : \E e \in Best(s, vector, candidates) : Taken(e)
      BY MatchIs
  <1>1. PICK best \in Best(s, vector, candidates) : Taken(best)
      BY <1>a
  <1>2. decided'.outcome \in {"link", "review"} /\ created' = created
      BY <1>1 DEF Decide
  <1>3. best \in events
      BY CandidatesAreEvents DEF Best
  <1>4. CASE UNCHANGED <<events, points>>
      BY <1>2, <1>4 DEF MatchTypes
  <1>5. CASE FillIn(best, s)
    <2> DEFINE begins == IF best.start = -1 THEN s.start ELSE best.start
               filled == [best EXCEPT !.start = begins]
               rest == events \ {best}
    <2>1. events' = rest \cup {filled}
        BY <1>5 DEF FillIn
    <2>2. points' \in [Venue -> Points]
        BY <1>5, StoryFields DEF FillIn, MatchTypes
    <2>3. best \in EventRecords /\ begins \in Int
        BY <1>3, StoryFields DEF MatchTypes, EventRecords
    <2> HIDE DEF begins
    <2>4. filled \in EventRecords /\ filled.id = best.id
        BY <2>3 DEF EventRecords
    <2> HIDE DEF filled
    <2>5. filled \notin rest /\ rest \subseteq events
        BY <1>3, <2>4 DEF MatchTypes
    <2>6. IsFiniteSet(events') /\ Cardinality(events') = Cardinality(events)
      <3>1. IsFiniteSet(rest) /\ Cardinality(rest) = Cardinality(events) - 1
          BY <1>3, FS_RemoveElement DEF MatchTypes
      <3>2. IsFiniteSet(rest \cup {filled}) /\ Cardinality(rest \cup {filled}) = Cardinality(rest) + 1
        <4> HIDE DEF rest
        <4> QED
            BY <2>5, <3>1, FS_AddElement
      <3>3. Cardinality(events) \in Nat
          BY FS_CardinalityType DEF MatchTypes
      <3> QED
          BY <2>1, <3>1, <3>2, <3>3
    <2>7. \A e \in events' : e \in EventRecords /\ e.id \in 1 .. Cardinality(events)
        BY <1>3, <2>1, <2>4, <2>5 DEF MatchTypes
    <2>8. \A e, f \in events' : e.id = f.id => e = f
        BY <1>3, <2>1, <2>4, <2>5 DEF MatchTypes
    <2>9. {e.id : e \in events} \subseteq {e.id : e \in events'}
        BY <2>1, <2>4
    <2> QED
        BY <1>2, <2>2, <2>6, <2>7, <2>8, <2>9 DEF MatchTypes
  <1> QED
      BY <1>1, <1>4, <1>5

\* create_event_from_signal numbers the event after the others.
LEMMA SeedKeepsMatchTypes ==
    ASSUME MatchTypes, NEW s \in Story, NEW vector \in BOOLEAN, NEW way \in {"scan", "index"}, Seed(s, vector, way)
    PROVE  MatchTypes'
  <1> DEFINE id == Cardinality(events) + 1
             number == Cardinality(events)
  <1>1. PICK venue \in Venue \cup {"nowhere"}, at \in Points :
            /\ points' = [v \in Venue |-> IF v = venue /\ points[v] = -1 THEN at ELSE points[v]]
            /\ \E own \in {"missing", EventOf(s, id, venue, "missing").title} :
                  events' = events \cup {EventOf(s, id, venue, IF vector THEN s.title ELSE own)}
      BY DEF Seed
  <1>2. PICK own \in {"missing", EventOf(s, id, venue, "missing").title} :
            events' = events \cup {EventOf(s, id, venue, IF vector THEN s.title ELSE own)}
      BY <1>1
  <1> DEFINE coded == IF vector THEN s.title ELSE own
             e == EventOf(s, id, venue, coded)
  <1>3. number \in Nat /\ number < MaxEvents /\ MaxEvents \in Nat /\ id = number + 1
      BY FS_CardinalityType, MatchingAssumption DEF MatchTypes, Seed
  <1>4. created' = created \cup {id} /\ decided'.outcome = "create"
      BY DEF Seed, Decide
  <1>5. points' \in [Venue -> Points]
      BY <1>1 DEF MatchTypes
  <1>6. coded \in Titles \cup {"missing"}
    <2>1. EventOf(s, id, venue, "missing").title \in Titles
        BY StoryFields DEF EventOf, Titles
    <2> QED
        BY <2>1, StoryFields
  <1> HIDE DEF coded
  <1>7. e \in EventRecords /\ e.id = id
      BY <1>3, <1>6, StoryFields DEF EventOf, EventRecords, Titles
  <1>8. events' = events \cup {e}
      BY <1>2 DEF coded
  <1>9. /\ \A f \in events : f \in EventRecords /\ f.id \in 1 .. number
        /\ \A f, g \in events : f.id = g.id => f = g
        /\ created \subseteq {f.id : f \in events}
      BY DEF MatchTypes
  <1> HIDE DEF e, id
  <1>10. \A f \in events : f.id # id
      BY <1>3, <1>9
  <1>11. e \notin events
      BY <1>7, <1>10
  <1>12. IsFiniteSet(events') /\ Cardinality(events') = id
      BY <1>3, <1>8, <1>11, FS_AddElement DEF MatchTypes
  <1> HIDE DEF number
  <1>13. \A f \in events' : f \in EventRecords /\ f.id \in 1 .. id
      BY <1>3, <1>7, <1>8, <1>9
  <1>14. \A f, g \in events' : f.id = g.id => f = g
      BY <1>7, <1>8, <1>9, <1>10
  <1>15. created' \subseteq {f.id : f \in events'}
      BY <1>4, <1>7, <1>8, <1>9
  <1> QED
      BY <1>3, <1>4, <1>5, <1>12, <1>13, <1>14, <1>15 DEF MatchTypes

LEMMA NextMatchTypes == MatchTypes /\ [MatchingNext]_matchingVars => MatchTypes'
  <1> SUFFICES ASSUME MatchTypes, [MatchingNext]_matchingVars PROVE MatchTypes'
      OBVIOUS
  <1>1. ASSUME NEW s \in Story, NEW vector \in BOOLEAN, NEW way \in {"scan", "index"}, Match(s, vector, way)
        PROVE  MatchTypes'
      BY <1>1, MatchKeepsMatchTypes
  <1>2. ASSUME NEW s \in Story, NEW vector \in BOOLEAN, NEW way \in {"scan", "index"}, Seed(s, vector, way)
        PROVE  MatchTypes'
      BY <1>2, SeedKeepsMatchTypes
  <1>3. CASE EndPass
      BY <1>3 DEF EndPass, MatchTypes, Undecided
  <1>4. CASE Clear
      BY <1>4, FS_EmptySet, MatchingAssumption DEF Clear, MatchTypes, Undecided
  <1>5. CASE UNCHANGED matchingVars
      BY <1>5 DEF matchingVars, MatchTypes
  <1> QED
      BY <1>1, <1>2, <1>3, <1>4, <1>5 DEF MatchingNext

LEMMA MatchTypesAreTypes == MatchTypes => MatchingTypeOK
  <1> SUFFICES ASSUME MatchTypes PROVE MatchingTypeOK
      OBVIOUS
  <1>1. Cardinality(events) \in Nat /\ Cardinality(events) <= MaxEvents /\ MaxEvents \in Nat
      BY FS_CardinalityType, MatchingAssumption DEF MatchTypes
  <1>2. \A e \in events : e.id \in 1 .. MaxEvents
      BY <1>1 DEF MatchTypes
  <1>3. \A e \in events : /\ e.title \in Titles /\ e.vector \in Titles \cup {"missing"}
                          /\ e.venue \in Venue \cup {"nowhere"}
      BY DEF MatchTypes, EventRecords
  <1> QED
      BY <1>2, <1>3 DEF MatchTypes, MatchingTypeOK

\* Narrowing the candidates loses no match but those the index overlooks, for all
\* thresholds, similarities, stories and venues, if events that the window of the
\* scan leaves out are vetoed: the settings do not enforce that, their defaults fit
\* it (config.py, clustering.py:121-136, :205-235).
THEOREM NoMatchIsLost ==
    ASSUME VetoTime <= CandidateWindow
    PROVE  MatchingSpec => NoBetterMatch
  <1>1. MatchTypes /\ [MatchingNext]_matchingVars => [BestOfAll]_matchingVars
    <2> SUFFICES ASSUME MatchTypes, MatchingNext PROVE BestOfAll
        BY Zenon
    <2>1. ASSUME NEW s \in Story, NEW vector \in BOOLEAN, NEW way \in {"scan", "index"}, Match(s, vector, way)
          PROVE  BestOfAll
        BY <2>1, MatchIsBest
    <2>2. ASSUME NEW s \in Story, NEW vector \in BOOLEAN, NEW way \in {"scan", "index"}, Seed(s, vector, way)
          PROVE  BestOfAll
        BY <2>2, SeedIsBest
    <2>3. CASE EndPass \/ Clear
      <3>1. decided'.outcome = "none"
          BY <2>3 DEF EndPass, Clear, Undecided
      <3> QED
          BY <3>1 DEF BestOfAll
    <2> QED
        BY <2>1, <2>2, <2>3 DEF MatchingNext
  <1> QED
      BY <1>1, InitMatchTypes, NextMatchTypes, PTL DEF MatchingSpec, NoBetterMatch

-----------------------------------------------------------------------------
(* The components beside each other.                                         *)

Parts == {"coverage", "sources", "venues", "access", "places", "embeddings", "matching"}

\* A behaviour of the whole is one of each component, since a step of one leaves
\* the others as they are: what is proved of a component holds of the whole.
THEOREM PartsStandAlone ==
    ServicesSpec => /\ Spec /\ SourcesSpec /\ VenuesSpec /\ AccessSpec
                    /\ PlacesSpec /\ EmbeddingsSpec /\ MatchingSpec
  <1>1. ServicesInit => /\ Init /\ SourcesInit /\ VenuesInit /\ AccessInit
                        /\ PlacesInit /\ EmbeddingsInit /\ MatchingInit
      BY DEF ServicesInit
  <1> DEFINE all == <<part, vars, sourcesVars, venuesVars, accessVars, placesVars, embeddingsVars, matchingVars>>
  <1>2. [ServicesNext]_all => /\ [Next]_vars /\ [SourcesNext]_sourcesVars /\ [VenuesNext]_venuesVars
                              /\ [AccessNext]_accessVars /\ [PlacesNext]_placesVars
                              /\ [EmbeddingsNext]_embeddingsVars /\ [MatchingNext]_matchingVars
    <2> SUFFICES ASSUME [ServicesNext]_all
                 PROVE  /\ [Next]_vars /\ [SourcesNext]_sourcesVars /\ [VenuesNext]_venuesVars
                        /\ [AccessNext]_accessVars /\ [PlacesNext]_placesVars
                        /\ [EmbeddingsNext]_embeddingsVars /\ [MatchingNext]_matchingVars
        OBVIOUS
    <2>1. CASE ServicesNext
        BY <2>1 DEF ServicesNext
    <2>2. CASE UNCHANGED all
        BY <2>2
    <2> QED
        BY <2>1, <2>2
  <1> QED
      BY <1>1, <1>2, PTL DEF ServicesSpec, Spec, SourcesSpec, VenuesSpec, AccessSpec, PlacesSpec, EmbeddingsSpec, MatchingSpec

\* Every component keeps its types, for all values of the constants
\* (models/event.py:14-90).
THEOREM ServicesTypes == ServicesSpec => []ServicesTypeOK
  <1>1. ServicesInit => part \in Parts
      BY DEF ServicesInit, Parts
  <1>2. part \in Parts /\ [ServicesNext]_<<part, vars, sourcesVars, venuesVars, accessVars, placesVars, embeddingsVars, matchingVars>>
        => (part \in Parts)'
      BY DEF ServicesNext
  <1>3. Spec => []TypeOK
      BY SpecCoverageInv, BoundsAreTypes, PTL
  <1>4. VenuesSpec => []VenuesTypeOK
      BY InitVInv, NextVInv, InitVenueBounds, NextVenueBounds, VenueBoundsAreTypes, PTL DEF VenuesSpec
  <1>5. PlacesSpec => []PlacesTypeOK
      BY InitPInv, NextPInv, InitPlacesBounds, NextPlacesBounds, PlacesBoundsAreTypes, PTL DEF PlacesSpec
  <1>6. MatchingSpec => []MatchingTypeOK
      BY InitMatchTypes, NextMatchTypes, MatchTypesAreTypes, PTL DEF MatchingSpec
  <1>7. LimiterInv => AccessTypeOK
      BY DEF LimiterInv
  <1>8. part \in Parts /\ TypeOK /\ SourcesTypeOK /\ VenuesTypeOK /\ AccessTypeOK
        /\ PlacesTypeOK /\ EmbeddingsTypeOK /\ MatchingTypeOK => ServicesTypeOK
      BY DEF Parts, ServicesTypeOK
  <1> QED
      BY <1>1, <1>2, <1>3, <1>4, <1>5, <1>6, <1>7, <1>8, PartsStandAlone, SourcesTypes, SpecLimiterInv, EmbeddingsTypes,
         PTL DEF ServicesSpec
=============================================================================
