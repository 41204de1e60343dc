----------------------------- MODULE MCServices -----------------------------
(* The components that share no variable, each on a small instance: a       *)
(* behaviour is one of Coverage, Sources, Venues, Access, Places, Embeddings*)
(* or Matching, the others stand still.                                     *)
EXTENDS MCCoverage, Sources, Venues, Access, Places, Embeddings, Matching, TLC

CONSTANTS s1, s2   \* sessions, threads and clients

VARIABLE part

Sessions == {s1, s2}
Alike == Permutations(Sessions)

(* Sources.  "calendar" lists two events, one without an id; "page" one with a *)
(* page of its own and one without.                                            *)
MCFormat == [calendar |-> "ics", cityfeed |-> "ics", page |-> "page", feed |-> "feed",
             posting |-> "event", answer1 |-> "api", answer2 |-> "api"]
MCDocument == DOMAIN MCFormat
About(uid, page, title, hit, where, valid) ==
    [uid |-> uid, page |-> page, title |-> title, hit |-> hit, where |-> where, valid |-> valid]
MCPublished ==
    [talk |-> About("u1", "none", "talk", TRUE, "inside", TRUE),
     show |-> About("none", "none", "show", TRUE, "unknown", TRUE),
     gig  |-> About("u2", "gigs/1", "gig", FALSE, "outside", TRUE),
     bad  |-> About("u3", "none", "bad", TRUE, "inside", FALSE)]
MCListing == DOMAIN MCPublished
MCLists == [calendar |-> <<"talk", "show">>, cityfeed |-> <<"talk", "gig">>, page |-> <<"gig", "show">>,
            feed |-> <<"gig", "show">>, posting |-> <<"show", "gig">>,
            answer1 |-> <<"talk">>, answer2 |-> <<"gig", "bad">>]
MCTextHits == {"page"}
MCAnswers == [luma |-> <<>>, eventbrite |-> <<"answer1">>, telegram |-> <<>>, linkedin |-> <<>>,
              x |-> <<"answer1">>, ticketmaster |-> <<"answer1", "answer2">>, seatgeek |-> <<>>]
MCConfiguredUrls == [s \in DOMAIN MCAnswers |-> CASE s = "linkedin" -> <<"feed">> [] s = "x" -> <<"feed">> [] OTHER -> <<>>]
MCNearbyFeeds == <<"cityfeed">>
MCGeoSources == <<"luma", "ticketmaster", "seatgeek">>
J(source, query, urls, geo) == [source |-> source, query |-> query, urls |-> urls, geo |-> geo]
MCJob == {J("luma", FALSE, <<"calendar", "page">>, FALSE), J("luma", TRUE, <<"page">>, TRUE),
          J("luma", FALSE, <<>>, FALSE),
          J("eventbrite", FALSE, <<"page">>, FALSE), J("telegram", TRUE, <<"feed">>, FALSE),
          J("linkedin", FALSE, <<"feed", "posting">>, FALSE), J("x", TRUE, <<>>, FALSE), J("x", FALSE, <<>>, FALSE),
          J("seatgeek", FALSE, <<>>, FALSE)}

(* Venues.  Lagos lies at 0 to 4, Nairobi at 5 to 9.                           *)
Says(n, c, p) == [name |-> n, city |-> c, at |-> p]
MCAsk == {Says("ihub", NoCity, -1), Says("ihub hall", NoCity, 7), Says("ihub hall", "nairobi", -1), Says("lagos", "lagos", 7)}
MCNames == {"ihub", "ihub hall", "lagos"}
MCRatio == [p \in MCNames \X MCNames |-> IF p[1] = p[2] \/ "lagos" \notin {p[1], p[2]} THEN 100 ELSE 0]
MCCityAt == [p \in 0 .. 9 |-> IF p < 5 THEN "lagos" ELSE "nairobi"]
MCPinOf == [p \in MCNames \X {NoCity, "lagos", "nairobi"} |->
               IF p[2] = "nairobi" THEN 7 ELSE 4]

(* Access.                                                                     *)
Arrives(p, k, a) == [path |-> p, hasKey |-> k, addresses |-> a]
MCRequest == {Arrives("/discover", FALSE, <<"proxy", "lagos">>), Arrives("/discover", FALSE, <<"accra">>),
              Arrives("/discover", FALSE, <<"proxy">>), Arrives("/discover", TRUE, <<"accra">>)}

(* Embeddings.                                                                 *)
MCProcessOf == [w \in Sessions |-> "api"]

(* Matching, with the default settings.                                        *)
Tells(t, h, km, c) == [title |-> t, start |-> h, place |-> km, category |-> c]
MCStory == {Tells("gala", 1000, 100, "music"), Tells("gala", 1073, 151, "music"),
            Tells("gala night", 1400, -1, "music"), Tells("gala night", -1, 100, "none"), Tells("none", 1000, -1, "none")}
MCTitles == {"gala", "gala night", "none", "untitled"}
Similar(p, same, near, far) ==
    IF p[1] = p[2] THEN same ELSE IF p \in {"gala", "gala night"} \X {"gala", "gala night"} THEN near ELSE far
MCWords == [p \in MCTitles \X MCTitles |-> Similar(p, 100, 30, 0)]
MCCosine == [p \in MCTitles \X MCTitles |-> Similar(p, 100, 40, -10)]

-----------------------------------------------------------------------------
ServicesInit ==
    /\ part \in {"coverage", "sources", "venues", "access", "places", "embeddings", "matching"}
    /\ Init /\ SourcesInit /\ VenuesInit /\ AccessInit /\ PlacesInit /\ EmbeddingsInit /\ MatchingInit

ServicesNext ==
    /\ UNCHANGED part
    /\ \/ part = "coverage" /\ Next
          /\ UNCHANGED <<sourcesVars, venuesVars, accessVars, placesVars, embeddingsVars, matchingVars>>
       \/ part = "sources" /\ SourcesNext
          /\ UNCHANGED <<vars, venuesVars, accessVars, placesVars, embeddingsVars, matchingVars>>
       \/ part = "venues" /\ VenuesNext
          /\ UNCHANGED <<vars, sourcesVars, accessVars, placesVars, embeddingsVars, matchingVars>>
       \/ part = "access" /\ AccessNext
          /\ UNCHANGED <<vars, sourcesVars, venuesVars, placesVars, embeddingsVars, matchingVars>>
       \/ part = "places" /\ PlacesNext
          /\ UNCHANGED <<vars, sourcesVars, venuesVars, accessVars, embeddingsVars, matchingVars>>
       \/ part = "embeddings" /\ EmbeddingsNext
          /\ UNCHANGED <<vars, sourcesVars, venuesVars, accessVars, placesVars, matchingVars>>
       \/ part = "matching" /\ MatchingNext
          /\ UNCHANGED <<vars, sourcesVars, venuesVars, accessVars, placesVars, embeddingsVars>>

ServicesSpec == ServicesInit /\ [][ServicesNext]_<<part, vars, sourcesVars, venuesVars, accessVars, placesVars, embeddingsVars, matchingVars>>

\* Every component that runs keeps its types (models/event.py:14-90).
ServicesTypeOK ==
    CASE part = "coverage" -> TypeOK
      [] part = "sources" -> SourcesTypeOK
      [] part = "venues" -> VenuesTypeOK
      [] part = "access" -> AccessTypeOK
      [] part = "places" -> PlacesTypeOK
      [] part = "embeddings" -> EmbeddingsTypeOK
      [] part = "matching" -> MatchingTypeOK
=============================================================================
