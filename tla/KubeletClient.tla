--------------------------- MODULE KubeletClient ----------------------------
(***************************************************************************)
(* The kubelet client that every worker shares                             *)
(* (pkg/kubeclient/kubelet_client.go, cpufrequency.go) and the part of a   *)
(* kubelet monitor that uses it (scrapeKubelet): the cache of node         *)
(* summaries and CPU frequencies, filled by full and sampling scrapes that *)
(* hold its lock only in between their requests, and cleaned up by the     *)
(* client at the start of a discovery.                                     *)
(*                                                                         *)
(* A summary is "fresh" when the kubelet answered this very request and    *)
(* "stale" when it comes from the cache.  Scrapers are the goroutines that *)
(* may be inside scrapeKubelet at a time; scrapes of one node overlap when *)
(* a sampling task, or a call whose task has timed out, meets a later one. *)
(***************************************************************************)
EXTENDS Naturals

CONSTANTS
  Hosts,         \* node IPs
  FullScrapers,  \* monitors of full workers (isFullDiscovery)
  Samplers,      \* monitors of sampling workers
  MaxScrapes,    \* bound: scrapes
  MaxFailures    \* bound: failures a backoff counts

Scrapers == FullScrapers \cup Samplers

NoEntry == [present |-> FALSE, summary |-> FALSE, freq |-> FALSE, used |-> FALSE]

VARIABLES
  cache,     \* KubeletClient.cache; summary and freq tell whether they are set
  failures,  \* backoffFailures: failed frequency jobs of each node
  at,        \* each scraper: where it is
  host,      \* each scraper: the node it scrapes
  had,       \* each scraper: entryPresent of GetNodeCpuFrequency
  got,       \* each scraper: the summary it holds
  disturbed, \* each scraper: did another call touch its entry since it looked?
  recorded,  \* each scraper: what it recorded at the end of its last scrape
  panicked,  \* the process died of a nil dereference
  scrapes

scraperVars == <<at, host, had, got, disturbed, recorded, scrapes>>
vars == <<cache, failures, scraperVars, panicked>>

Init ==
  /\ cache = [h \in Hosts |-> NoEntry]
  /\ failures = [h \in Hosts |-> 0]
  /\ at = [s \in Scrapers |-> "idle"]
  /\ host \in [Scrapers -> {CHOOSE h \in Hosts : TRUE}]
  /\ had = [s \in Scrapers |-> FALSE]
  /\ got = [s \in Scrapers |-> "none"]
  /\ disturbed = [s \in Scrapers |-> FALSE]
  /\ recorded = [s \in Scrapers |-> "none"]
  /\ panicked = FALSE /\ scrapes = 0

\* The other scrapers that hold something they read from the entry of h.
Disturb(s, h) ==
  disturbed' = [x \in Scrapers |->
    IF x # s /\ host[x] = h /\ at[x] \in {"discover", "store", "check"}
      THEN TRUE ELSE disturbed[x]]

GoTo(s, p) == at' = [at EXCEPT ![s] = p]

\* ExecuteRequest: the kubelet's own endpoint unless the proxy is forced, and
\* the API server's proxy when that fails for another reason than a 404.
\* callKubeletEndpoint and callAPIServerProxyEndpoint answer within their
\* timeout, with a body or an error.
ExecuteRequest(forceProxy, kubelet, proxy) ==
  IF forceProxy THEN proxy = "ok"
  ELSE kubelet = "ok" \/ (kubelet = "error" /\ proxy = "ok")

\* The outcomes a request may have.
RequestOutcomes ==
  {ExecuteRequest(f, k, p) : f \in BOOLEAN, k \in {"ok", "error", "notFound"},
                             p \in {"ok", "error", "notFound"}}

-----------------------------------------------------------------------------

StartScrape(s, h) ==
  /\ ~panicked /\ at[s] = "idle" /\ scrapes < MaxScrapes
  /\ scrapes' = scrapes + 1
  /\ host' = [host EXCEPT ![s] = h]
  /\ GoTo(s, IF s \in FullScrapers THEN "lookup" ELSE "summary")
  /\ recorded' = [recorded EXCEPT ![s] = "none"]
  /\ disturbed' = [disturbed EXCEPT ![s] = FALSE]
  /\ UNCHANGED <<cache, failures, had, got, panicked>>

\* GetNodeCpuFrequency, first lock: a cached frequency is all that is needed.
LookupFrequency(s) ==
  /\ ~panicked /\ at[s] = "lookup"
  /\ had' = [had EXCEPT ![s] = cache[host[s]].present]
  /\ GoTo(s, IF cache[host[s]].freq THEN "summary" ELSE "discover")
  /\ disturbed' = [disturbed EXCEPT ![s] = FALSE]
  /\ UNCHANGED <<cache, failures, host, got, recorded, scrapes, panicked>>

\* GetCpuFrequencyFromJob: nothing is tried on a node that is not eligible or
\* that is backing off; else GetFrequency runs the job, cleans it up, and
\* counts the failure or resets the count.
FrequencyJob(h, found) ==
  \/ ~found /\ UNCHANGED failures
  \/ /\ failures' = [failures EXCEPT ![h] =
           IF found THEN 0 ELSE IF @ < MaxFailures THEN @ + 1 ELSE @]

\* GetNodeCpuFrequency between its two locks: machine info from the kubelet,
\* else the job.  Without a frequency the default is returned.
DiscoverFrequency(s) ==
  /\ ~panicked /\ at[s] = "discover"
  /\ \E answered \in RequestOutcomes, found \in BOOLEAN :
       /\ answered => found
       /\ IF answered THEN UNCHANGED failures ELSE FrequencyJob(host[s], found)
       /\ GoTo(s, IF found THEN "store" ELSE "summary")
  /\ UNCHANGED <<cache, host, had, got, disturbed, recorded, scrapes, panicked>>

\* GetNodeCpuFrequency, second lock: it goes by what the first lock saw.
StoreFrequency(s) ==
  LET h == host[s] IN
  /\ ~panicked /\ at[s] = "store"
  /\ IF had[s] /\ ~cache[h].present
       THEN panicked' = TRUE /\ UNCHANGED <<cache, at, disturbed>>
       ELSE /\ cache' = [cache EXCEPT ![h] =
                 IF had[s] THEN [@ EXCEPT !.freq = TRUE]
                 ELSE [NoEntry EXCEPT !.present = TRUE, !.freq = TRUE]]
            /\ GoTo(s, "summary")
            /\ Disturb(s, h)
            /\ UNCHANGED panicked
  /\ UNCHANGED <<failures, host, had, got, recorded, scrapes>>

\* Mutant: a summary served from the cache is not marked.
SummaryEntryUnmarked(e, answered) ==
  IF answered THEN [e EXCEPT !.present = TRUE, !.summary = TRUE, !.used = FALSE] ELSE e

\* What GetSummary leaves of an entry.
SummaryEntry(e, answered) ==
  IF answered THEN [e EXCEPT !.present = TRUE, !.summary = TRUE, !.used = FALSE]
  ELSE IF e.present THEN [e EXCEPT !.used = TRUE] ELSE e

\* GetSummary: the request, then the cache under the lock.  A failed request
\* is served from the cache if there is a summary in it.
GetSummary(s) ==
  LET h == host[s] IN
  /\ ~panicked /\ at[s] = "summary"
  /\ \E answered \in RequestOutcomes :
       /\ cache' = [cache EXCEPT ![h] = SummaryEntry(@, answered)]
       /\ got' = [got EXCEPT ![s] =
            IF answered THEN "fresh" ELSE IF cache[h].summary THEN "stale" ELSE "none"]
       /\ IF answered \/ cache[h].summary
            THEN GoTo(s, "check") /\ UNCHANGED recorded
            ELSE GoTo(s, "idle") /\ recorded' = [recorded EXCEPT ![s] = "error"]
  /\ disturbed' = [x \in Scrapers |-> IF x = s THEN FALSE
                     ELSE IF host[x] = h /\ at[x] \in {"discover", "store", "check"}
                     THEN TRUE ELSE disturbed[x]]
  /\ UNCHANGED <<failures, host, had, scrapes, panicked>>

\* HasCacheBeenUsed, under the lock again: a sampling scrape gives up on a
\* cached summary, a full one marks the node and uses it.  Then the stats are
\* parsed into the monitor's sink.
FinishScrape(s) ==
  LET used == cache[host[s]].used IN
  /\ ~panicked /\ at[s] = "check"
  /\ GoTo(s, "idle")
  /\ recorded' = [recorded EXCEPT ![s] =
       IF ~used THEN got[s] ELSE IF s \in FullScrapers THEN "marked" ELSE "error"]
  /\ UNCHANGED <<cache, failures, host, had, got, disturbed, scrapes, panicked>>

\* CleanupCache: the entries of nodes that are no longer discovered go away.
CleanupCache(listed) ==
  /\ ~panicked
  /\ cache' = [h \in Hosts |-> IF h \in listed THEN cache[h] ELSE NoEntry]
  /\ disturbed' = [s \in Scrapers |->
       IF host[s] \notin listed /\ at[s] \in {"discover", "store", "check"}
         THEN TRUE ELSE disturbed[s]]
  /\ UNCHANGED <<failures, at, host, had, got, recorded, scrapes, panicked>>

ScrapeStep(s) ==
  \/ LookupFrequency(s) \/ DiscoverFrequency(s) \/ StoreFrequency(s)
  \/ GetSummary(s) \/ FinishScrape(s)

Next ==
  \/ \E s \in Scrapers, h \in Hosts : StartScrape(s, h)
  \/ \E s \in Scrapers : ScrapeStep(s)
  \/ \E listed \in SUBSET Hosts : CleanupCache(listed)
  \/ panicked /\ UNCHANGED vars

Spec == Init /\ [][Next]_vars

-----------------------------------------------------------------------------
(* Properties.                                                             *)

\* Only an overlap does harm.  The cached summary of a node whose kubelet does
\* not answer is recorded as a new reading, or a new one dropped, only if another
\* scrape of the node or a clean-up came between GetSummary and HasCacheBeenUsed;
\* the nil entry of StoreFrequency is met only when the node was removed from the
\* cache while its frequency was being discovered.
HarmNeedsOverlap ==
  /\ \A s \in Scrapers : at[s] = "idle" /\ ~disturbed[s] =>
       /\ recorded[s] # "stale"
       /\ got[s] = "fresh" => recorded[s] \in {"none", "fresh"}
  /\ panicked => \E s \in Scrapers : at[s] = "store" /\ disturbed[s]
=============================================================================
