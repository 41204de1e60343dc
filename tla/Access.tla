------------------------------- MODULE Access -------------------------------
(***************************************************************************)
(* Access: who may start a live scan.  The middleware lets a request pass  *)
(* or not; GET /discover of a visitor without the key asks the sliding-    *)
(* window limiter, by address, before it scans.                            *)
(*                                                                         *)
(* A call reads the clock before it takes the limiter's lock, so stamps may*)
(* enter a deque out of order.  Times are kept as ages, in ticks.          *)
(***************************************************************************)
EXTENDS Integers, Sequences, FiniteSets

CONSTANTS
    Thread,      \* threads that serve requests
    Request,     \* what arrives: path, hasKey, addresses
    IsGlobal,    \* the addresses that are public ones
    ApiKeySet,   \* settings.api_key is set
    PublicRead,  \* settings.public_read
    Limit,       \* settings.public_scans_per_hour
    Window,      \* window_seconds, in ticks
    MaxKeys,     \* keys the limiter keeps (20000)
    MaxWait      \* bound: ticks a call waits for the lock

ASSUME AccessAssumption ==
    /\ {ApiKeySet, PublicRead} \subseteq BOOLEAN
    /\ {Limit, Window, MaxKeys, MaxWait} \subseteq Nat
    /\ MaxWait <= Window

VARIABLES
    hits,     \* _hits: the ages of the stamps of each key
    calls,    \* the call of allow() of each thread: key, waited
    granted   \* by key, the ages of the last scans that were granted since _hits
              \* was last cleared: one more than the limit

accessVars == <<hits, calls, granted>>

NoCall == [key |-> "no key", waited |-> 0]

-----------------------------------------------------------------------------
(* The middleware and the key of a visitor.                                *)

PublicGet == {"/discover", "/events", "/stats"}
Exempt == {"/", "/health", "/ready"}

IsAdmin(request) == ~ApiKeySet \/ request.hasKey

Passes(request) ==
    \/ IsAdmin(request)
    \/ request.path \in Exempt
    \/ PublicRead /\ request.path \in PublicGet

\* client_ip: the first public address the request came by.
ClientKey(request) ==
    LET public == SelectSeq(request.addresses, LAMBDA a : a \in IsGlobal)
    IN  IF public = <<>> THEN "unknown" ELSE Head(public)

Keys == {ClientKey(request) : request \in Request}

AccessInit ==
    /\ hits = [k \in Keys |-> <<>>]
    /\ calls = [t \in Thread |-> NoCall]
    /\ granted = [k \in Keys |-> <<>>]

-----------------------------------------------------------------------------
(* allow().                                                                *)

\* A visitor asks for an area that is not fresh: the call reads the clock.
AskToScan(t, request) ==
    /\ calls[t] = NoCall
    /\ request.path = "/discover" /\ Passes(request) /\ ~IsAdmin(request)
    /\ Limit > 0
    /\ calls' = [calls EXCEPT ![t] = [key |-> ClientKey(request), waited |-> 0]]
    /\ UNCHANGED <<hits, granted>>

\* The deque without the stamps at its head that are too old for a call; the
\* loop stops at the first that is not.
Live(stamps, waited) ==
    LET TooOld(i) == stamps[i] - waited > Window
        heads == {n \in 0 .. Len(stamps) : /\ \A i \in 1 .. n : TooOld(i)
                                           /\ n < Len(stamps) => ~TooOld(n + 1)}
    IN  {SubSeq(stamps, n + 1, Len(stamps)) : n \in heads}

FullPastLimit(stamps) == Len(stamps) > Limit
Full(stamps) == Len(stamps) >= Limit

Refuse(t) ==
    LET c == calls[t]
    IN  /\ c # NoCall
        /\ \E live \in Live(hits[c.key], c.waited) :
              Full(live) /\ hits' = [hits EXCEPT ![c.key] = live]
        /\ calls' = [calls EXCEPT ![t] = NoCall]
        /\ UNCHANGED granted

Latest(ages) == IF Len(ages) > Limit THEN Tail(ages) ELSE ages

\* The scan is granted.  A table with too many keys is cleared, the stamp that
\* was just added too.
Grant(t) ==
    LET c == calls[t]
    IN  /\ c # NoCall
        /\ \E live \in Live(hits[c.key], c.waited) :
              LET added == [hits EXCEPT ![c.key] = Append(live, c.waited)]
                  crowded == Cardinality({k \in Keys : added[k] # <<>>}) > MaxKeys
              IN  /\ ~Full(live)
                  /\ hits' = IF crowded THEN [k \in Keys |-> <<>>] ELSE added
                  /\ granted' = IF crowded THEN [k \in Keys |-> <<>>]
                                ELSE [granted EXCEPT ![c.key] = Append(Latest(@), 0)]
        /\ calls' = [calls EXCEPT ![t] = NoCall]

\* Time passes.  What is old enough grows no older: a stamp that is too old for
\* every call, a scan that is older than the window less a wait.
Older(age, enough) == IF age > enough THEN age ELSE age + 1
Aged(ages, enough) == [i \in DOMAIN ages |-> Older(ages[i], enough)]

AccessTick ==
    /\ \A t \in Thread : calls[t] # NoCall => calls[t].waited < MaxWait
    /\ hits' = [k \in Keys |-> Aged(hits[k], Window + MaxWait)]
    /\ calls' = [t \in Thread |-> IF calls[t] = NoCall THEN NoCall ELSE [calls[t] EXCEPT !.waited = @ + 1]]
    /\ granted' = [k \in Keys |-> Aged(granted[k], Window - MaxWait)]

AccessNext ==
    \/ \E t \in Thread :
          \/ \E request \in Request : AskToScan(t, request)
          \/ Refuse(t) \/ Grant(t)
    \/ AccessTick

AccessSpec == AccessInit /\ [][AccessNext]_accessVars

-----------------------------------------------------------------------------
(* Properties.                                                             *)

AccessTypeOK ==
    /\ hits \in [Keys -> Seq(0 .. Window + MaxWait + 1)] /\ \A k \in Keys : Len(hits[k]) <= Limit
    /\ granted \in [Keys -> Seq(0 .. Window - MaxWait + 1)] /\ \A k \in Keys : Len(granted[k]) <= Limit + 1
    /\ calls \in [Thread -> [key : Keys, waited : 0 .. MaxWait] \cup {NoCall}]

\* Calls whose stamps enter out of order, stamps that are only dropped at the
\* head and a key that asks while it is refused do not let a visitor start more
\* than the limit of scans in a window, less the wait for the lock: the scan
\* before the last so many is older, unless the table was cleared in between
\* (ratelimit.py:14-24, discover.py:181-183).
ScansPerWindow ==
    \A k \in Keys : Len(granted[k]) > Limit => Head(granted[k]) > Window - MaxWait
=============================================================================
