------------------------------ MODULE DocsMirror ------------------------------
(***************************************************************************)
(* The mirror of the documentation (server/services/docsCrawler.js,        *)
(* docsImporter.js, docsScheduler.js, routes/docs.js): DocsPage rows       *)
(* written by a crawl of the upstream pages, of which one runs at a time,  *)
(* and by imports of a local file, which nothing keeps apart.              *)
(*                                                                         *)
(* Both look a page's row up, compare its hash with the one of what they   *)
(* hold, and write.  The hash is of the HTML for one and of the Markdown   *)
(* for the other, so the same text has a hash of each kind.                *)
(***************************************************************************)
EXTENDS Naturals, FiniteSets

CONSTANTS
    PageBound,     \* pages of the source, 1, 2, ... in the registry's order
    Imports,       \* imports, each run at most once
    CrawlBound,    \* bound: crawls started
    VersionBound   \* bound: versions of the upstream pages; the file has version 1

ASSUME DocsAssumption ==
    PageBound \in Nat \ {0} /\ CrawlBound \in Nat /\ VersionBound \in Nat \ {0}

Pages == 1 .. PageBound

VARIABLES
    upstream,      \* version of the upstream pages
    page,          \* DocsPage rows: hash and text, or NoPage
    crawl,         \* the promise of the crawl under way: where it is, its page and copy
    crawls,        \* crawls started
    importing,     \* each import: where it is, its page and copy
    crossed        \* history: pages written over a row that was not the one read

docsVars == <<upstream, page, crawl, crawls, importing, crossed>>

NoHash == [of |-> "null", version |-> 0]
NoPage == [hash |-> NoHash, text |-> 0]
Content(kind, v) == [hash |-> [of |-> kind, version |-> v], text |-> v]
NoCrawl == [at |-> "idle", page |-> 1, force |-> FALSE, got |-> 0, copy |-> NoPage]

DocsInit ==
    /\ upstream = 1
    /\ page \in {[p \in Pages |-> NoPage], [p \in Pages |-> Content("file", 1)]}
    /\ crawl = NoCrawl /\ crawls = 0
    /\ importing = [i \in Imports |-> [at |-> "new", page |-> 1, copy |-> NoPage]]
    /\ crossed = {}

\* Mutant: of an existing row only the hash is brought up to date.
HashOnly(copy, new, old) == [new EXCEPT !.text = old.text]

\* existing.update(payload) writes the columns that differ from the copy; a hash that
\* is the copy's leaves the text alone.
Updated(copy, new, old) ==
    IF copy.hash = new.hash THEN old
    ELSE [hash |-> new.hash, text |-> IF copy.text = new.text THEN old.text ELSE new.text]

\* findOne, compared and written: a row that is there is updated; one that is not is
\* created, which the unique (source, slug) refuses when it has appeared since.
Refuses(p, copy) == copy = NoPage /\ page[p] # NoPage
Stores(p, copy, new) ==
    /\ page' = [page EXCEPT ![p] = IF copy = NoPage THEN (IF @ = NoPage THEN new ELSE @) ELSE Updated(copy, new, @)]
    /\ crossed' = IF page[p] # copy THEN crossed \union {p} ELSE crossed

\* refreshSource: a second caller gets the promise of the first, the route answers 409.
StartCrawl(force) ==
    /\ crawl.at = "idle" /\ crawls < CrawlBound
    /\ crawls' = crawls + 1
    /\ crawl' = [NoCrawl EXCEPT !.at = IF force THEN "forcing" ELSE "fetching", !.force = force]
    /\ UNCHANGED <<upstream, page, importing, crossed>>

\* force: the stored hash is cleared first; a failure of that is ignored.
ClearHash(failing) ==
    /\ crawl.at = "forcing"
    /\ page' = IF failing \/ page[crawl.page] = NoPage THEN page ELSE [page EXCEPT ![crawl.page].hash = NoHash]
    /\ crawl' = [crawl EXCEPT !.at = "fetching"]
    /\ UNCHANGED <<upstream, crawls, importing, crossed>>

\* The next page after the pause between requests, or the end of the promise.
Onwards == crawl' = IF crawl.page = PageBound THEN NoCrawl
                    ELSE [NoCrawl EXCEPT !.at = IF crawl.force THEN "forcing" ELSE "fetching", !.force = crawl.force,
                                         !.page = crawl.page + 1]

FetchDocs ==
    /\ crawl.at = "fetching"
    /\ crawl' = [crawl EXCEPT !.at = "finding", !.got = upstream]
    /\ UNCHANGED <<upstream, page, crawls, importing, crossed>>

FindDocs ==
    /\ crawl.at = "finding"
    /\ crawl' = [crawl EXCEPT !.at = "storing", !.copy = page[crawl.page]]
    /\ UNCHANGED <<upstream, page, crawls, importing, crossed>>

StoreDocs ==
    /\ crawl.at = "storing"
    /\ Stores(crawl.page, crawl.copy, Content("web", crawl.got))
    /\ Onwards
    /\ UNCHANGED <<upstream, crawls, importing>>

\* A fetch, a lookup or a write that fails is counted; the crawl goes on.
PageFails ==
    /\ crawl.at \in {"fetching", "finding", "storing"}
    /\ Onwards
    /\ UNCHANGED <<upstream, page, crawls, importing, crossed>>

\* importFromFile: by the scheduler when there is no page yet, or by the route.
FindForImport(i) ==
    /\ importing[i].at = "new"
    /\ importing' = [importing EXCEPT ![i].at = "found", ![i].copy = page[importing[i].page]]
    /\ UNCHANGED <<upstream, page, crawl, crawls, crossed>>

\* The first write that fails ends the import.
StoreImport(i, failing) ==
    /\ importing[i].at = "found"
    /\ LET p == importing[i].page
           copy == importing[i].copy
           ends == failing \/ Refuses(p, copy) \/ p = PageBound
       IN  /\ IF failing THEN UNCHANGED <<page, crossed>> ELSE Stores(p, copy, Content("file", 1))
           /\ importing' = [importing EXCEPT ![i] = [at |-> IF ends THEN "over" ELSE "new", copy |-> NoPage,
                                                     page |-> IF ends THEN p ELSE p + 1]]
    /\ UNCHANGED <<upstream, crawl, crawls>>

\* The source publishes.
Publish ==
    /\ upstream < VersionBound
    /\ upstream' = upstream + 1
    /\ UNCHANGED <<page, crawl, crawls, importing, crossed>>

\* The process dies; the promise of the crawl is gone with it.
DocsRestart ==
    /\ crawl.at # "idle"
    /\ crawl' = NoCrawl
    /\ importing' = [i \in Imports |-> [importing[i] EXCEPT !.at = IF @ = "found" THEN "over" ELSE @]]
    /\ UNCHANGED <<upstream, page, crawls, crossed>>

DocsNext ==
    \/ FetchDocs \/ FindDocs \/ StoreDocs \/ PageFails \/ Publish \/ DocsRestart
    \/ \E b \in BOOLEAN : StartCrawl(b) \/ ClearHash(b)
    \/ \E i \in Imports : FindForImport(i) \/ \E b \in BOOLEAN : StoreImport(i, b)

DocsSpec == DocsInit /\ [][DocsNext]_docsVars

(***************************************************************************)
(* Properties                                                              *)
(***************************************************************************)

Hashes == {NoHash} \union [of : {"file", "web"}, version : 1 .. VersionBound]
DocsTypeOK ==
    /\ upstream \in 1 .. VersionBound /\ crawls \in 0 .. CrawlBound
    /\ page \in [Pages -> [hash : Hashes, text : 0 .. VersionBound]]
    /\ crawl \in [at : {"idle", "forcing", "fetching", "finding", "storing"}, page : Pages, force : BOOLEAN,
                  got : 0 .. VersionBound, copy : [hash : Hashes, text : 0 .. VersionBound]]
    /\ importing \in [Imports -> [at : {"new", "found", "over"}, page : Pages,
                                  copy : [hash : Hashes, text : 0 .. VersionBound]]]
    /\ crossed \subseteq Pages

\* The hash of a row is the one of its text, so that a page reported unchanged shows what
\* is upstream: failures, restarts and forced crawls leave no row that a later run would
\* wrongly skip, except for a page two runs wrote at once.
HashTellsText ==
    \A p \in Pages : page[p].hash # NoHash => page[p].text = page[p].hash.version \/ p \in crossed
=============================================================================
