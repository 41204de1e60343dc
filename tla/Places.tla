------------------------------- MODULE Places -------------------------------
(***************************************************************************)
(* Places: the proxies of external services behind the location API, and   *)
(* what each remembers in a process.  The location picker has a chain of   *)
(* providers with circuit breakers; the directory of Luma cities, MapKit   *)
(* tokens and the places of addresses are cached for a term.               *)
(*                                                                         *)
(* A timer holds the ticks that are left of its term.                      *)
(***************************************************************************)
EXTENDS Integers, FiniteSets

CONSTANTS
    Client,         \* threads that serve requests
    GoogleKey,      \* settings.google_maps_api_key is set
    PhotonEnabled,  \* settings.geocoding_enabled
    DownTime,       \* 120 s: how long a provider that failed is skipped
    Snapshot,       \* the built-in directory of Luma cities
    Newer,          \* cities the live directory adds
    DirectoryTerm,  \* CACHE_SECONDS
    Origin,         \* origins that ask for a MapKit token
    TokenTtl,       \* settings.apple_mapkit_token_ttl_seconds
    LeastTtl,       \* 300 s
    Margin,         \* 120 s: a token is reissued so long before it expires
    MaxLockWait,    \* bound: ticks a call waits for the lock of the tokens
    Visitor,        \* addresses that are located
    LocateTerm,     \* _TTL of located addresses
    MaxLocated      \* addresses kept (5000)

ASSUME PlacesAssumption ==
    /\ {GoogleKey, PhotonEnabled} \subseteq BOOLEAN
    /\ {DownTime, DirectoryTerm, TokenTtl, LeastTtl, Margin, MaxLockWait, LocateTerm, MaxLocated} \subseteq Nat
    /\ MaxLockWait <= Margin /\ Margin < LeastTtl

VARIABLES
    googleDown, photonDown,  \* timers of the breakers
    directory,      \* _cache of luma_places: places, left
    quiet,          \* ticks since the live directory was last asked, up to its term
    tokens,         \* by origin, ticks until the cached token expires
    served,         \* the token served last: ticks it had left, ticks its call waited
    located,        \* by address: whether it is kept, was found, ticks left
    request         \* what each client waits for

caches == <<directory, quiet, tokens, served, located>>
placesVars == <<googleDown, photonDown, caches, request>>

Idle == [at |-> "idle"]
At(c, step) == request[c].at = step
Goes(c, r) == request' = [request EXCEPT ![c] = r]

NotKept == [kept |-> FALSE, found |-> FALSE, left |-> 0]

PlacesInit ==
    /\ googleDown = 0 /\ photonDown = 0
    /\ directory = [places |-> {}, left |-> 0]
    /\ quiet = DirectoryTerm
    /\ tokens = [o \in Origin |-> 0]
    /\ served = [left |-> LeastTtl, waited |-> 0]
    /\ located = [v \in Visitor |-> NotKept]
    /\ request = [c \in Client |-> Idle]

-----------------------------------------------------------------------------
(* autocomplete and resolve.                                               *)

AsksGoogle == GoogleKey /\ googleDown = 0

\* Photon, or at once the gazetteer.
AfterGoogle == IF PhotonEnabled /\ photonDown = 0 THEN [at |-> "photon"] ELSE Idle

Autocomplete(c) ==
    /\ At(c, "idle")
    /\ Goes(c, IF AsksGoogle THEN [at |-> "google"] ELSE AfterGoogle)
    /\ UNCHANGED <<googleDown, photonDown, caches>>

GoogleEnds(c, fails) ==
    /\ At(c, "google")
    /\ googleDown' = IF fails THEN DownTime ELSE googleDown
    /\ Goes(c, IF fails THEN AfterGoogle ELSE Idle)
    /\ UNCHANGED <<photonDown, caches>>

\* Without an answer, or with an empty one, the gazetteer answers.
PhotonEnds(c, fails) ==
    /\ At(c, "photon")
    /\ photonDown' = IF fails THEN DownTime ELSE photonDown
    /\ Goes(c, Idle)
    /\ UNCHANGED <<googleDown, caches>>

\* The details of a suggestion of Google are asked for whatever the breaker says.
Resolve(c) ==
    /\ At(c, "idle") /\ GoogleKey
    /\ Goes(c, [at |-> "details"])
    /\ UNCHANGED <<googleDown, photonDown, caches>>

DetailsEnd(c, fails) ==
    /\ At(c, "details")
    /\ googleDown' = IF fails THEN DownTime ELSE googleDown
    /\ Goes(c, Idle)
    /\ UNCHANGED <<photonDown, caches>>

-----------------------------------------------------------------------------
(* all_places: the lock is held while the live directory is asked.         *)

DirectoryLocked == \E c \in Client : At(c, "directory")

AskDirectory(c) ==
    /\ At(c, "idle") /\ ~DirectoryLocked /\ directory.left = 0
    /\ Goes(c, [at |-> "directory"])
    /\ UNCHANGED <<googleDown, photonDown, caches>>

DirectoryEndsUncached(c, fails) ==
    /\ At(c, "directory")
    /\ directory' = IF fails THEN [directory EXCEPT !.places = Snapshot]
                    ELSE [places |-> Snapshot \cup Newer, left |-> DirectoryTerm]
    /\ quiet' = 0
    /\ Goes(c, Idle)
    /\ UNCHANGED <<googleDown, photonDown, tokens, served, located>>

\* A failure is remembered as long as an answer, and takes its cities away.
DirectoryEnds(c, fails) ==
    /\ At(c, "directory")
    /\ directory' = [places |-> IF fails THEN Snapshot ELSE Snapshot \cup Newer, left |-> DirectoryTerm]
    /\ quiet' = 0
    /\ Goes(c, Idle)
    /\ UNCHANGED <<googleDown, photonDown, tokens, served, located>>

-----------------------------------------------------------------------------
(* mapkit.token: the clock is read before the lock is taken.               *)

AskToken(c, o) ==
    /\ At(c, "idle")
    /\ Goes(c, [at |-> "token", origin |-> o, waited |-> 0])
    /\ UNCHANGED <<googleDown, photonDown, caches>>

ConfiguredTtl == TokenTtl
Ttl == IF TokenTtl < LeastTtl THEN LeastTtl ELSE TokenTtl

TakeToken(c) ==
    /\ At(c, "token")
    /\ LET r == request[c]
           left == IF tokens[r.origin] + r.waited > Margin THEN tokens[r.origin] ELSE Ttl - r.waited
       IN  /\ tokens' = [tokens EXCEPT ![r.origin] = left]
           /\ served' = [left |-> left, waited |-> r.waited]
    /\ Goes(c, Idle)
    /\ UNCHANGED <<googleDown, photonDown, directory, quiet, located>>

-----------------------------------------------------------------------------
(* ip_geo.locate: no lock; a failure is kept like an answer.               *)

AskLocation(c, v) ==
    /\ At(c, "idle") /\ located[v].left = 0
    /\ Goes(c, [at |-> "location", visitor |-> v])
    /\ UNCHANGED <<googleDown, photonDown, caches>>

LocationEnds(c, found) ==
    /\ At(c, "location")
    /\ LET kept == [located EXCEPT ![request[c].visitor] = [kept |-> TRUE, found |-> found, left |-> LocateTerm]]
           crowded == Cardinality({v \in Visitor : kept[v].kept}) > MaxLocated
       IN  located' = IF crowded THEN [v \in Visitor |-> NotKept] ELSE kept
    /\ Goes(c, Idle)
    /\ UNCHANGED <<googleDown, photonDown, directory, quiet, tokens, served>>

-----------------------------------------------------------------------------
Sooner(t) == IF t > 0 THEN t - 1 ELSE 0

PlacesTick ==
    /\ \A c \in Client : At(c, "token") => request[c].waited < MaxLockWait
    /\ googleDown' = Sooner(googleDown) /\ photonDown' = Sooner(photonDown)
    /\ directory' = [directory EXCEPT !.left = Sooner(@)]
    /\ quiet' = IF quiet < DirectoryTerm THEN quiet + 1 ELSE quiet
    /\ tokens' = [o \in Origin |-> Sooner(tokens[o])]
    /\ located' = [v \in Visitor |-> [located[v] EXCEPT !.left = Sooner(@)]]
    /\ request' = [c \in Client |-> IF At(c, "token") THEN [request[c] EXCEPT !.waited = @ + 1] ELSE request[c]]
    /\ UNCHANGED served

PlacesNext ==
    \/ \E c \in Client :
          \/ Autocomplete(c) \/ Resolve(c)
          \/ \E fails \in BOOLEAN :
                GoogleEnds(c, fails) \/ PhotonEnds(c, fails) \/ DetailsEnd(c, fails) \/ DirectoryEnds(c, fails)
          \/ AskDirectory(c)
          \/ \E o \in Origin : AskToken(c, o)
          \/ TakeToken(c)
          \/ \E v \in Visitor : AskLocation(c, v)
          \/ \E found \in BOOLEAN : LocationEnds(c, found)
    \/ PlacesTick

PlacesSpec == PlacesInit /\ [][PlacesNext]_placesVars

-----------------------------------------------------------------------------
(* Properties.                                                             *)

PlacesTypeOK ==
    /\ {googleDown, photonDown} \subseteq 0 .. DownTime
    /\ directory.left \in 0 .. DirectoryTerm /\ quiet \in 0 .. DirectoryTerm
    /\ directory.places \in {{}, Snapshot, Snapshot \cup Newer}
    /\ \A o \in Origin : tokens[o] \in 0 .. Ttl
    /\ \A v \in Visitor : located[v].left \in 0 .. LocateTerm
    /\ Cardinality({v \in Visitor : located[v].kept}) <= MaxLocated
    /\ \A c \in Client : At(c, "token") => request[c].waited \in 0 .. MaxLockWait

\* Luma is asked for its directory by one thread at a time and once per term,
\* though threads race for it and the answer be a failure
\* (luma_places.py:162-178).
DirectoryAskedOncePerTerm ==
    \A c, d \in Client : At(c, "directory") => quiet = DirectoryTerm /\ (At(d, "directory") => d = c)

\* "Tokens are cached and reissued shortly before expiry" (mapkit.py:11): a token
\* that is served has more than the margin left, less the wait for the lock, also
\* when the configured lifetime is shorter than the margin (mapkit.py:43-54).
TokensOutlastTheMargin ==
    served.left + served.waited > Margin
=============================================================================
