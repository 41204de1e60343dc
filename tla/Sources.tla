------------------------------ MODULE Sources ------------------------------
(***************************************************************************)
(* Sources: an adapter asks an external source for documents and turns     *)
(* them into items; the caller, POST /ingest, a job of the scheduler or a  *)
(* scan of /discover, stores them one by one and closes the row of the run.*)
(*                                                                         *)
(* A document is a calendar, a feed, a page, or a page of an API's answer. *)
(* It lists events; what an event carries is what tells its item apart: a  *)
(* native id, a page of its own, a title ("none" if absent).  A request    *)
(* answers, fails (httpx.HTTPError), or answers with something unreadable. *)
(***************************************************************************)
EXTENDS Integers, Sequences, SequencesExt

CONSTANTS
    Document,     \* addresses of documents
    Format,       \* what each is: "ics", "feed", "page", "event" or "api"
    Lists,        \* the events each lists, in order
    Listing,      \* the events that are listed
    Published,    \* what each carries: uid, page, title, hit, where, valid
    TextHits,     \* pages whose own text contains the query
    ConfiguredUrls,  \* the documents the settings name for a source
    NearbyFeeds,  \* the calendars of the Luma cities near a scanned point
    Answers,      \* the pages of a source's API, up to the adapter's cap
    Mocks,        \* settings.enable_mock_adapters
    Job,          \* what /ingest is asked for: source, query, urls, geo
    GeoSources,   \* the usable sources of a scan, in order
    MaxRequests   \* bound: ingests and scans

Source == DOMAIN Answers
GeoAble == {"luma", "ticketmaster", "seatgeek"}
JobRow == [source : Source, query : BOOLEAN, urls : Seq(Document), geo : BOOLEAN]

\* The formats of the addresses an adapter is given.  The others ignore them.
Reads(s) == CASE s = "luma" -> {"ics", "page"}
              [] s = "eventbrite" -> {"page"}
              [] s = "linkedin" -> {"feed", "event"}
              [] s \in {"telegram", "x"} -> {"feed"}
              [] OTHER -> {Format[d] : d \in Document}

ASSUME SourcesAssumption ==
    /\ Format \in [Document -> {"ics", "feed", "page", "event", "api"}]
    /\ Lists \in [Document -> Seq(Listing)]
    /\ Listing \cap (Document \cup {"mock"}) = {}
    /\ Source \subseteq GeoAble \cup {"eventbrite", "telegram", "linkedin", "x"} /\ "luma" \in Source
    /\ DOMAIN ConfiguredUrls = Source
    /\ \A s \in Source : ConfiguredUrls[s] \in Seq(Document) /\ Answers[s] \in Seq(Document)
    /\ NearbyFeeds \in Seq(Document)
    /\ Mocks \in BOOLEAN
    /\ Job \subseteq JobRow
    /\ GeoSources \in Seq(Source \cap GeoAble)
    /\ MaxRequests \in Nat

\* What a document is asked as, it is; what an API lists has a native id.
ASSUME FormatsFit ==
    /\ \A s \in Source, d \in Document :
          (\/ d \in ToSet(ConfiguredUrls[s])
           \/ \E j \in Job : j.source = s /\ d \in ToSet(j.urls)) => Format[d] \in Reads(s)
    /\ \A d \in ToSet(NearbyFeeds) : Format[d] = "ics"
    /\ \A s \in Source : \A d \in ToSet(Answers[s]) :
          Format[d] = "api" /\ \A e \in ToSet(Lists[d]) : Published[e].uid # "none"

VARIABLES
    start,     \* the start times the events are announced with
    rows,      \* raw_signals: source, id, and what the row is about
    phase,     \* the next step: "idle", "next" (source), "fetch", "store"
    requests,  \* ingests and scans so far
    queue,     \* sources the scan has still to ask
    job,       \* the job of the run
    got,       \* how its requests ended
    fetched,   \* what fetch() returned: items, errors, raised
    stored,    \* items of the run stored so far
    run        \* its source_runs row: status, created

sourcesVars == <<start, rows, phase, requests, queue, job, got, fetched, stored, run>>

-----------------------------------------------------------------------------
(* Items.  The external id is what create_signal looks a row up by.        *)

FlatMap(F(_), s) == FlattenSeq([i \in DOMAIN s |-> F(s[i])])
\* The members of s that are in S, in their order: SelectSeq takes an operator,
\* and no lemma can say what it returns for all of them.
Only(s, S) == FlattenSeq([i \in DOMAIN s |-> IF s[i] \in S THEN <<s[i]>> ELSE <<>>])
Items(MakeItem(_), s) == [i \in DOMAIN s |-> MakeItem(s[i])]

\* stable_id with and without the start time, build_external_id of an address
\* (without its query string) and of a title.
Hash(d, e) == <<"hash", d, Published[e].title, start>>
Slug(e) == <<"slug", Published[e].title>>
Path(address) == <<"path", address>>
Native(e) == <<"id", Published[e].uid>>

ApiItem(e) == [id |-> Native(e), about |-> e]

\* _parse_ics
VEvent(d, e) == [id |-> IF Published[e].uid # "none" THEN Native(e) ELSE Hash(d, e), about |-> e]

\* jsonld_event_to_signal
JsonLdHashed(d, e) == [id |-> Hash(d, e), about |-> e]
JsonLd(d, e) ==
    [id |-> IF Published[e].page \notin {"none", d} THEN Path(Published[e].page) ELSE Hash(d, e),
     about |-> e]

\* FeedAdapter.fetch
Entry(d, e) ==
    [id |-> IF Published[e].uid # "none" THEN Native(e)
            ELSE IF Published[e].page # "none" THEN Path(Published[e].page)
            ELSE IF Published[e].title # "none" THEN Slug(e)
            ELSE <<"hash", d>>,
     about |-> e]

\* html_to_signal of a page that lists nothing.
PageText(d) == [id |-> Path(d), about |-> d]

Mock(j) == [id |-> <<"mock", j.query>>, about |-> "mock"]

Named == {e \in Listing : Published[e].title # "none"}
Hits(j) == {e \in Listing : j.query => Published[e].hit}
Inside == {e \in Listing : Published[e].where # "outside"}
Valid(item) == item.about \in Listing => Published[item.about].valid

-----------------------------------------------------------------------------
(* What the requests of an adapter answer: outcome[d] is "answers", "fails"*)
(* or "garbage".                                                           *)

Answered(ds, outcome) == Only(ds, {d \in Document : outcome[d] # "fails"})
FailuresOfAll(ds, outcome) == {d \in ToSet(ds) : \A c \in ToSet(ds) : outcome[c] = "fails"}
Failures(ds, outcome) == {d \in ToSet(ds) : outcome[d] = "fails"}
Readable(d, outcome) == IF outcome[d] = "garbage" THEN <<>> ELSE Lists[d]

\* A calendar that cannot be parsed has no events, a page no JSON-LD.
Calendar(d, outcome) == Items(LAMBDA e : VEvent(d, e), Readable(d, outcome))

JsonLdOrText(d, outcome) ==
    IF Readable(d, outcome) = <<>> THEN <<PageText(d)>>
    ELSE Items(LAMBDA e : JsonLd(d, e), Only(Readable(d, outcome), Named))

FirstJsonLdOrText(d, outcome) ==
    LET named == Only(Readable(d, outcome), Named)
    IN  IF named = <<>> THEN <<PageText(d)>> ELSE <<JsonLd(d, Head(named))>>

\* The pages of an API up to the first one that fails or is unreadable.
Unread(ds, outcome) == {i \in DOMAIN ds : outcome[ds[i]] # "answers"}
AllPagesRead(ds, outcome) == Unread(ds, outcome) = {}
ReadPages(ds, outcome) ==
    IF AllPagesRead(ds, outcome) THEN ds ELSE SubSeq(ds, 1, Min(Unread(ds, outcome)) - 1)

\* response.json() raises.
ApiGarbage(ds, outcome) ==
    ~AllPagesRead(ds, outcome) /\ outcome[ds[Min(Unread(ds, outcome))]] = "garbage"

-----------------------------------------------------------------------------
(* The adapters: the items they build, those they keep, their errors.  An  *)
(* item that is not valid raises when it is built.                         *)

Result(built, kept, errors, garbage) ==
    [items |-> kept, errors |-> errors,
     raised |-> garbage \/ \E i \in DOMAIN built : ~Valid(built[i])]

\* A mock stands in when there is neither an item nor an error.
OrMock(j, r) == IF Mocks /\ r.items = <<>> /\ r.errors = {} THEN [r EXCEPT !.items = <<Mock(j)>>] ELSE r

UrlsOf(j) == IF j.urls # <<>> THEN j.urls ELSE ConfiguredUrls[j.source]
GeoMode(j) == j.geo /\ j.urls = <<>>

LumaAddresses(j) == IF GeoMode(j) THEN NearbyFeeds ELSE UrlsOf(j)

FetchLuma(j, outcome) ==
    LET ds == LumaAddresses(j)
        built == FlatMap(LAMBDA d : IF GeoMode(j) \/ Format[d] = "ics" THEN Calendar(d, outcome)
                                    ELSE JsonLdOrText(d, outcome), Answered(ds, outcome))
        kept == {item \in ToSet(built) :
                    IF item.about \in Listing
                    THEN item.about \in Hits(j) /\ (GeoMode(j) => item.about \in Inside)
                    ELSE j.query => item.about \in TextHits}
        r == Result(built, Only(built, kept), Failures(ds, outcome), FALSE)
    IN  IF GeoMode(j) \/ ds # <<>> THEN r ELSE OrMock(j, r)

\* The events of the organization come all or not at all.
FetchEventbrite(j, outcome) ==
    LET api == Answers[j.source]
        own == IF AllPagesRead(api, outcome)
               THEN FlatMap(LAMBDA d : Items(ApiItem, Only(Lists[d], Hits(j))), api)
               ELSE <<>>
        built == own \o FlatMap(LAMBDA d : JsonLdOrText(d, outcome), Answered(j.urls, outcome))
        down == IF AllPagesRead(api, outcome) THEN {} ELSE {"api"}
    IN  OrMock(j, Result(built, built, down \cup Failures(j.urls, outcome), ApiGarbage(api, outcome)))

FetchFeeds(j, ds, outcome) ==
    LET built == FlatMap(LAMBDA d : Items(LAMBDA e : Entry(d, e),
                                          Only(Readable(d, outcome), Hits(j))),
                         Answered(ds, outcome))
        unparseable == {d \in ToSet(ds) : outcome[d] = "garbage"}
    IN  OrMock(j, Result(built, built, unparseable \cup Failures(ds, outcome), FALSE))

FetchLinkedIn(j, outcome) ==
    LET eventPages == {d \in Document : Format[d] = "event"}
        feeds == Only(UrlsOf(j), Document \ eventPages)
        pages == Only(UrlsOf(j), eventPages)
        fed == FetchFeeds(j, feeds, outcome)
        first == IF feeds = <<>> THEN <<>> ELSE fed.items
        built == first \o FlatMap(LAMBDA d : FirstJsonLdOrText(d, outcome), Answered(pages, outcome))
    IN  OrMock(j, Result(built, built, fed.errors \cup Failures(pages, outcome), fed.raised))

\* The API, asked first when there is a token and a query, answers alone.
AsksX(j) == Answers[j.source] # <<>> /\ j.query /\ j.urls = <<>>

FetchX(j, outcome) ==
    LET api == Answers[j.source]
    IN  IF ~AsksX(j) THEN FetchFeeds(j, UrlsOf(j), outcome)
        ELSE IF AllPagesRead(api, outcome)
             THEN LET built == FlatMap(LAMBDA d : Items(ApiItem, Lists[d]), api)
                  IN  Result(built, built, {}, FALSE)
             ELSE Result(<<>>, <<>>, {"api"}, ApiGarbage(api, outcome))

\* Ticketmaster and SeatGeek keep the pages before the one that failed.
FetchTickets(j, outcome) ==
    LET api == Answers[j.source]
        read == ReadPages(api, outcome)
        built == FlatMap(LAMBDA d : Items(ApiItem, Only(Lists[d], Named)), read)
    IN  IF api = <<>> THEN IF Mocks THEN Result(<<Mock(j)>>, <<Mock(j)>>, {}, FALSE)
                           ELSE Result(<<>>, <<>>, {"keyless"}, FALSE)
        ELSE Result(built, built, IF AllPagesRead(api, outcome) THEN {} ELSE {"api"}, ApiGarbage(api, outcome))

\* ingest_from_source
Fetch(j, outcome) ==
    CASE j.source = "luma" -> FetchLuma(j, outcome)
      [] j.source = "eventbrite" -> FetchEventbrite(j, outcome)
      [] j.source = "telegram" -> FetchFeeds(j, UrlsOf(j), outcome)
      [] j.source = "linkedin" -> FetchLinkedIn(j, outcome)
      [] j.source = "x" -> FetchX(j, outcome)
      [] j.source \in {"ticketmaster", "seatgeek"} -> FetchTickets(j, outcome)

-----------------------------------------------------------------------------
(* The caller.                                                             *)

Nothing == [items |-> <<>>, errors |-> {}, raised |-> FALSE]
NoJob == [by |-> "nobody", source |-> "luma", query |-> FALSE, urls |-> <<>>, geo |-> FALSE]

\* What a scan asks of a source: around its point, no addresses.
ScanOf(s, query) == [by |-> "scan", source |-> s, query |-> query, urls |-> <<>>, geo |-> TRUE]

NoRun == [status |-> "none", created |-> 0]

SourcesInit ==
    /\ start = 0
    /\ rows = {}
    /\ phase = "idle" /\ requests = 0 /\ queue = <<>>
    /\ job = NoJob
    /\ got = [d \in Document |-> "answers"] /\ fetched = Nothing /\ stored = 0
    /\ run = NoRun

\* create_source_run
BeginRun(j) ==
    /\ job' = j
    /\ run' = [status |-> "started", created |-> 0]
    /\ fetched' = Nothing /\ stored' = 0
    /\ phase' = "fetch"

\* finish_source_run, and what the caller does next.
EndRun(status, created) ==
    /\ run' = [status |-> status, created |-> created]
    /\ phase' = IF job.by = "scan" THEN "next" ELSE "idle"

StartRun(by, j) ==
    /\ phase = "idle" /\ requests < MaxRequests
    /\ requests' = requests + 1
    /\ BeginRun([by |-> by, source |-> j.source, query |-> j.query, urls |-> j.urls, geo |-> j.geo])
    /\ UNCHANGED <<start, rows, queue, got>>

\* ingest_signals
Ingest(j) == StartRun("ingest", j)

\* run_ingest_job: a job that asks a source around a point is a scan.
IngestJob(j) == ~(GeoMode(j) /\ j.source \in GeoAble) /\ StartRun("job", j)

\* scan_area: the loop over the sources.
Scan(query) ==
    /\ phase = "idle" /\ requests < MaxRequests
    /\ requests' = requests + 1
    /\ queue' = GeoSources
    /\ job' = ScanOf(NoJob.source, query)
    /\ run' = NoRun /\ fetched' = Nothing /\ stored' = 0
    /\ phase' = "next"
    /\ UNCHANGED <<start, rows, got>>

NextSource ==
    /\ phase = "next" /\ queue # <<>>
    /\ queue' = Tail(queue)
    /\ BeginRun(ScanOf(Head(queue), job.query))
    /\ UNCHANGED <<start, rows, requests, got>>

\* The time budget is used up (the remaining sources are skipped), or every
\* source had its turn.
EndScan(late) ==
    /\ phase = "next"
    /\ late \/ queue = <<>>
    /\ queue' = <<>>
    /\ phase' = "idle"
    /\ UNCHANGED <<start, rows, requests, job, got, fetched, stored, run>>

FetchDocuments(outcome) ==
    /\ phase = "fetch"
    /\ got' = outcome
    /\ fetched' = Fetch(job, outcome)
    /\ IF Fetch(job, outcome).raised THEN EndRun("failed", 0) ELSE phase' = "store" /\ UNCHANGED run
    /\ UNCHANGED <<start, rows, requests, queue, job, stored>>

\* create_signal commits each item: a row with the id is updated.
StoreSignal ==
    /\ phase = "store" /\ stored < Len(fetched.items)
    /\ LET item == fetched.items[stored + 1]
           Same(row) == row.source = job.source /\ row.id = item.id
       IN  rows' = {row \in rows : ~Same(row)} \cup {[source |-> job.source, id |-> item.id, about |-> item.about]}
    /\ stored' = stored + 1
    /\ UNCHANGED <<start, phase, requests, queue, job, got, fetched, run>>

StoreFailsPlanned ==
    /\ phase = "store" /\ stored < Len(fetched.items)
    /\ EndRun("failed", Len(fetched.items))
    /\ UNCHANGED <<start, rows, requests, queue, job, got, fetched, stored>>

\* An item cannot be stored.  Scans and jobs forget those they stored before.
StoreFails ==
    /\ phase = "store" /\ stored < Len(fetched.items)
    /\ EndRun("failed", IF job.by = "ingest" THEN stored ELSE 0)
    /\ UNCHANGED <<start, rows, requests, queue, job, got, fetched, stored>>

FinishRun ==
    /\ phase = "store" /\ stored = Len(fetched.items)
    /\ EndRun(IF fetched.errors = {} THEN "completed" ELSE IF stored > 0 THEN "partial" ELSE "failed",
              stored)
    /\ UNCHANGED <<start, rows, requests, queue, job, got, fetched, stored>>

\* The process dies: the row of the run stays as it is.
Die ==
    /\ phase # "idle"
    /\ phase' = "idle" /\ queue' = <<>>
    /\ UNCHANGED <<start, rows, requests, job, got, fetched, stored, run>>

\* Organizers announce other start times.
Reschedule ==
    /\ phase = "idle"
    /\ start' = 1 - start
    /\ UNCHANGED <<rows, phase, requests, queue, job, got, fetched, stored, run>>

-----------------------------------------------------------------------------
\* The documents a fetch asks for.
Asked(j) ==
    ToSet(CASE j.source = "luma" -> LumaAddresses(j)
            [] j.source = "eventbrite" -> Answers[j.source] \o j.urls
            [] j.source \in {"telegram", "linkedin"} -> UrlsOf(j)
            [] j.source = "x" -> IF AsksX(j) THEN Answers[j.source] ELSE UrlsOf(j)
            [] j.source \in {"ticketmaster", "seatgeek"} -> Answers[j.source])

\* Something tells the events of a run apart: native ids and pages differ, and
\* titles where one of these is missing.  No document it asks for is the page of
\* an event that another one lists.
TellsApart(j) ==
    \A d, c \in Asked(j) : \A e \in ToSet(Lists[d]), f \in ToSet(Lists[c]) :
        /\ Published[e].page \in Asked(j) => Published[e].page = d
        /\ e # f => /\ Published[e].uid # "none" => Published[f].uid # Published[e].uid
                    /\ Published[e].page # "none" => Published[f].page # Published[e].page
                    /\ Published[e].uid = "none" \/ Published[e].page = "none" =>
                           Published[f].title # Published[e].title

ASSUME EventsDiffer ==
    /\ \A j \in Job : TellsApart(j)
    /\ \A s \in ToSet(GeoSources), query \in BOOLEAN : TellsApart(ScanOf(s, query))

Outcome(j) ==
    {[d \in Document |-> IF d \in Asked(j) THEN f[d] ELSE "answers"] :
        f \in [Asked(j) -> {"answers", "fails", "garbage"}]}

SourcesNext ==
    \/ \E j \in Job : Ingest(j) \/ IngestJob(j)
    \/ \E query \in BOOLEAN : Scan(query)
    \/ NextSource
    \/ \E late \in BOOLEAN : EndScan(late)
    \/ \E outcome \in Outcome(job) : FetchDocuments(outcome)
    \/ StoreSignal \/ StoreFails \/ FinishRun
    \/ Die \/ Reschedule

SourcesSpec == SourcesInit /\ [][SourcesNext]_sourcesVars

-----------------------------------------------------------------------------
(* Properties.                                                             *)

SourcesTypeOK ==
    /\ start \in {0, 1}
    /\ phase \in {"idle", "next", "fetch", "store"}
    /\ requests \in 0 .. MaxRequests /\ queue \in Seq(Source)
    /\ job.source \in Source /\ job.by \in {"nobody", "ingest", "job", "scan"}
    /\ stored \in 0 .. Len(fetched.items)
    /\ run.status \in {"none", "started", "completed", "partial", "failed"}
    /\ \A row \in rows : row.source \in Source

\* Every event a run must keep: it is listed by a document the job names, that
\* answered, and passes the filters of the source.  LinkedIn takes the first
\* event of an event page.
OwedEvents(j, outcome) ==
    LET Filtered(d) == \/ j.source \in {"luma", "telegram"} \/ Format[d] = "feed"
                       \/ j.source = "eventbrite" /\ Format[d] = "api"
    IN  UNION {{e \in ToSet(Lists[d]) :
            /\ Format[d] = "ics" \/ e \in Named
            /\ Filtered(d) => e \in Hits(j)
            /\ GeoMode(j) => e \in Inside
            /\ Format[d] = "event" => e = Head(Only(Lists[d], Named))} :
                d \in {c \in Asked(j) : outcome[c] = "answers"}}

\* A page that came without events to be read, or as something unreadable, is kept
\* as its own text.
Wordy(d, outcome) ==
    /\ outcome[d] # "fails"
    /\ \/ Format[d] = "page" /\ Readable(d, outcome) = <<>>
       \/ Format[d] = "event" /\ Only(Readable(d, outcome), Named) = <<>>

OwedTexts(j, outcome) ==
    {d \in Asked(j) : Wordy(d, outcome) /\ (j.source = "luma" /\ j.query => d \in TextHits)}

Owed(j, outcome) == OwedEvents(j, outcome) \cup OwedTexts(j, outcome)

\* Documents that cannot be read and are no error: the events of such a calendar
\* are lost without a trace, those of such a page in its text.
Unreported(d, outcome) == outcome[d] = "garbage" /\ Format[d] \in {"ics", "page", "event"}

\* A run called completed: no request of it failed, none of its feeds and APIs was
\* unreadable, and every event it had to keep, and every page it took for a text,
\* has a row that no other one of the source has taken, the events of one calendar
\* and of one page too.  What it may have lost is in calendars and pages that came
\* unreadable, nowhere else (adapters.py:187-203, :242-244, :387-405,
\* parsing.py:368-369, signals.py:101-112).
CompletedRunsKeepEveryEvent ==
    run.status = "completed" =>
        /\ \A d \in Asked(job) : got[d] = "answers" \/ Unreported(d, got)
        /\ \A e \in Owed(job, got) : \E row \in rows : row.source = job.source /\ row.about = e

\* The row of a run tells what became of it, also when storing fails half way or
\* the process dies: it never claims more than was committed, an ingest's claims
\* exactly that, and "partial" and "failed" differ in whether something was
\* (signals.py:101-116, discovery.py:204-212, scheduler.py:152-163).
FinishedRunsCount ==
    /\ run.created <= stored
    /\ job.by = "ingest" /\ run.status \in {"completed", "partial", "failed"} => run.created = stored
    /\ run.status \in {"completed", "partial"} => stored = Len(fetched.items)
    /\ run.status = "partial" => fetched.errors # {} /\ stored > 0
    /\ run.status = "completed" => fetched.errors = {} /\ ~fetched.raised

\* Nothing but its start time tells an event from others of its document.
Nameless(d, e) == IF Format[d] = "ics" THEN Published[e].uid = "none" ELSE Published[e].page \in {"none", d}

\* Asking again updates: an event with a native id or a page of its own keeps
\* one row per kind of id through every fetch, crash and change of its start
\* time (adapters.py:13-15, event_service.py:386-388).
OneRowPerEvent ==
    \A r, q \in rows :
        r.about \in Listing /\ q.about = r.about /\ q.source = r.source /\ q.id[1] = r.id[1] /\ q # r
        => r.id[1] = "hash" /\ Nameless(r.id[2], r.about)
=============================================================================
