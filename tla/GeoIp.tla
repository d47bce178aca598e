------------------------------- MODULE GeoIp -------------------------------
(***************************************************************************)
(* Split tunneling: geoip/cidr.rs, geoip/ripe.rs and geoip/mod.rs, the     *)
(* worker thread of ui/window.rs that refreshes the list, and when app.rs  *)
(* gives it to an engine.                                                  *)
(*                                                                         *)
(* The registry (external) publishes rows; a row delegates a range of      *)
(* addresses to a country.  The cache is a file for each country, replaced *)
(* by a rename.  Of the engine only its exclusions are kept.               *)
(***************************************************************************)
EXTENDS Naturals, FiniteSets

CONSTANTS AddrBits,   \* bits of an address (32 in the build)
          Countries,  \* values of geoip.country, with the registry it is under
          NoStart,    \* the start "*" of a row that delegates nothing
          Bodies,     \* sets of rows a registry may publish
          NoList,     \* no cache file, or no list yet
          NoEngine,   \* no engine runs
          GeoEvents   \* the optional happenings a run includes, by name

Row == [cc : Countries, type : {"ipv4", "ipv6", "summary"},
        start : Nat \cup {NoStart}, count : Nat]

ASSUME GeoAssumption ==
  /\ AddrBits \in Nat \ {0}
  /\ NoStart \notin Nat
  /\ Countries # {}
  /\ \A body \in Bodies : body \subseteq Row /\ IsFiniteSet(body)

\* Of a registry: a row delegates no more addresses than there are.
ASSUME RegistryAssumption ==
  \A body \in Bodies : \A r \in body :
    r.type = "ipv4" /\ r.start # NoStart => r.count <= 2^AddrBits

-----------------------------------------------------------------------------
(* Prefix arithmetic and parsing. *)

\* How often n is halved before it is at most 1.
halvings[n \in Nat] == IF n <= 1 THEN 0 ELSE 1 + halvings[n \div 2]

\* A mistake: the loop ends one halving early.
count_to_prefix_HalvesLess(n) ==
  IF n = 1 THEN AddrBits ELSE AddrBits - halvings[n] + 1

\* The prefix saturates at 0.
count_to_prefix(n) ==
  IF halvings[n] >= AddrBits THEN 0 ELSE AddrBits - halvings[n]

\* A mistake: rows of every country are taken.
parse_country_cidrs_AnyCountry(body, country) ==
  {[start |-> r.start, prefix |-> count_to_prefix(r.count)] :
     r \in {r \in body : r.type = "ipv4" /\ r.start # NoStart /\ r.count > 0}}

\* A comment or a line that is too short is a row of another type here.
parse_country_cidrs(body, country) ==
  {[start |-> r.start, prefix |-> count_to_prefix(r.count)] :
     r \in {r \in body : /\ r.cc = country /\ r.type = "ipv4"
                         /\ r.start # NoStart /\ r.count > 0}}

AddrRange(start, count) == start .. start + count - 1

\* The addresses a block in a list stands for, "start/prefix": all that have the
\* first bits in common with its start, which need not be the first of them.
Addrs(block) ==
  LET size == 2^(AddrBits - block.prefix)
  IN  AddrRange(block.start - (block.start % size), size)

-----------------------------------------------------------------------------
VARIABLES up,          \* the wrapper runs
          geoip,       \* cfg.geoip: enabled, country
          desired,     \* a connection is wanted
          engine,      \* the engine's exclusions; was it adopted or left behind
          cache,       \* the cache file of each country
          refreshing,  \* a refresh is in flight
          job,         \* the worker: next step, its country, what it parsed
          geoip_rx,    \* the result in the channel
          posted       \* the completion message is in the queue

uiVars == <<geoip, desired, engine>>
workerVars == <<job, geoip_rx, posted>>
geoVars == <<up, uiVars, cache, refreshing, workerVars>>

Steps == {"download", "rename", "send", "post", "done"}

Lists == {parse_country_cidrs(body, c) : body \in Bodies, c \in Countries} \ {{}}

\* Nothing is no list: neither a cached one nor the empty one.
ASSUME NoListAssumption == NoList \notin Lists \cup {{}}

NoJob == [step |-> "done", country |-> CHOOSE c \in Countries : TRUE, list |-> NoList]

GeoInit ==
  /\ up = FALSE
  /\ geoip \in [enabled : BOOLEAN, country : Countries]
  /\ desired = FALSE
  /\ engine = NoEngine
  /\ cache = [c \in Countries |-> NoList]
  /\ refreshing = FALSE /\ job = NoJob
  /\ geoip_rx = "none" /\ posted = FALSE

-----------------------------------------------------------------------------
(* The UI thread. *)

load_cached(c) == IF cache[c] = NoList THEN {} ELSE cache[c]

exclusions_for(g) == IF g.enabled THEN load_cached(g.country) ELSE {}

\* The engine that runs, if any, is not what the settings ask for.
LeftBehind == engine' = IF engine = NoEngine THEN NoEngine ELSE [engine EXCEPT !.stale = TRUE]

\* start_engine with the settings g.  If the config cannot be written the old
\* engine goes on; if the executable cannot be started, no engine runs.
StartEngine(g) ==
  \/ engine' = [exclusions |-> exclusions_for(g), stale |-> FALSE]
  \/ "start_err" \in GeoEvents /\ (LeftBehind \/ engine' = NoEngine)

\* apply_settings and set_split_enabled: settings that cannot be saved are in
\* memory all the same, and the engine is not told.
Apply ==
  /\ up
  /\ \E g \in [enabled : BOOLEAN, country : Countries] :
       /\ geoip' = g
       /\ \/ IF desired THEN StartEngine(g) ELSE UNCHANGED engine
          \/ "save_err" \in GeoEvents /\ LeftBehind
  /\ UNCHANGED <<up, desired, cache, refreshing, workerVars>>

\* connect, and a restart by the watchdog.
Connect ==
  /\ up
  /\ desired' = TRUE /\ StartEngine(geoip)
  /\ UNCHANGED <<up, geoip, cache, refreshing, workerVars>>

\* disconnect, and a give-up.
Disconnect ==
  /\ up /\ desired
  /\ desired' = FALSE /\ engine' = NoEngine
  /\ UNCHANGED <<up, geoip, cache, refreshing, workerVars>>

\* The engine ends by itself; the watchdog restarts it with Connect.
EngineExit ==
  /\ engine # NoEngine
  /\ engine' = NoEngine
  /\ UNCHANGED <<up, geoip, desired, cache, refreshing, workerVars>>

\* A mistake: one worker more with every click.
ClickRefresh_Unguarded ==
  /\ up
  /\ refreshing' = TRUE
  /\ job' = [step |-> "download", country |-> geoip.country, list |-> NoList]
  /\ geoip_rx' = "none"
  /\ UNCHANGED <<up, uiVars, cache, posted>>

\* begin_geoip_refresh; the worker gets a copy of the settings.
ClickRefresh ==
  /\ up /\ ~refreshing
  /\ refreshing' = TRUE
  /\ job' = [step |-> "download", country |-> geoip.country, list |-> NoList]
  /\ geoip_rx' = "none"
  /\ UNCHANGED <<up, uiVars, cache, posted>>

\* A mistake: a refresh that failed is not over.
FinishRefresh_OkOnly ==
  /\ posted
  /\ posted' = FALSE /\ geoip_rx' = "none"
  /\ refreshing' = (geoip_rx # "ok")
  /\ IF geoip_rx = "ok" /\ geoip.enabled /\ desired
     THEN StartEngine(geoip) ELSE UNCHANGED engine
  /\ UNCHANGED <<up, geoip, desired, cache, job>>

\* finish_geoip_refresh: try_recv finds the result or nothing.
FinishRefresh ==
  /\ posted
  /\ posted' = FALSE /\ geoip_rx' = "none"
  /\ refreshing' = FALSE
  /\ IF geoip_rx = "ok" /\ geoip.enabled /\ desired
     THEN StartEngine(geoip) ELSE UNCHANGED engine
  /\ UNCHANGED <<up, geoip, desired, cache, job>>

-----------------------------------------------------------------------------
(* The worker thread: refresh, then the result, then the message. *)

Goes(step) == job' = [job EXCEPT !.step = step]

SetsResult(r) == geoip_rx' = r /\ Goes("post")

\* An unknown registry, a failed download, a body that cannot be read.
DownloadFails ==
  /\ job.step = "download"
  /\ SetsResult("err")
  /\ UNCHANGED <<up, uiVars, cache, refreshing, posted>>

\* A mistake: an empty list replaces the cache.
Download_Empty ==
  /\ job.step = "download"
  /\ \E body \in Bodies :
       job' = [job EXCEPT !.step = "rename", !.list = parse_country_cidrs(body, job.country)]
  /\ UNCHANGED <<up, uiVars, cache, refreshing, geoip_rx, posted>>

\* A body without a row of the country is an error.
Download ==
  /\ job.step = "download"
  /\ \E body \in Bodies :
       LET cidrs == parse_country_cidrs(body, job.country) IN
       IF cidrs = {}
       THEN SetsResult("err")
       ELSE /\ job' = [job EXCEPT !.step = "rename", !.list = cidrs]
            /\ UNCHANGED geoip_rx
  /\ UNCHANGED <<up, uiVars, cache, refreshing, posted>>

\* The temporary file was written and replaces the cache.
RenameOver ==
  /\ job.step = "rename"
  /\ cache' = [cache EXCEPT ![job.country] = job.list]
  /\ Goes("send")
  /\ UNCHANGED <<up, uiVars, refreshing, geoip_rx, posted>>

\* The temporary file cannot be written, or not be renamed.
WriteFails ==
  /\ job.step = "rename" /\ "write_err" \in GeoEvents
  /\ SetsResult("err")
  /\ UNCHANGED <<up, uiVars, cache, refreshing, posted>>

\* A mistake: the message is posted before the result is sent.
Send_PostsFirst ==
  /\ job.step = "send"
  /\ posted' = TRUE /\ job' = NoJob
  /\ \/ geoip_rx' = "ok"
     \/ UNCHANGED geoip_rx   \* the message is handled before the result is there
  /\ UNCHANGED <<up, uiVars, cache, refreshing>>

Send ==
  /\ job.step = "send"
  /\ SetsResult("ok")
  /\ UNCHANGED <<up, uiVars, cache, refreshing, posted>>

\* PostMessageW; the thread ends.
Post ==
  /\ job.step = "post"
  /\ posted' = TRUE /\ job' = NoJob
  /\ UNCHANGED <<up, uiVars, cache, refreshing, geoip_rx>>

WorkerStep == Download \/ DownloadFails \/ RenameOver \/ WriteFails \/ Send \/ Post

-----------------------------------------------------------------------------
(* The life of the wrapper: its exit takes the worker along wherever it is. *)

Gone ==
  /\ up /\ up' = FALSE
  /\ desired' = FALSE /\ refreshing' = FALSE
  /\ job' = NoJob /\ geoip_rx' = "none" /\ posted' = FALSE
  /\ UNCHANGED <<geoip, cache>>

Exit == Gone /\ engine' = NoEngine

Crash == Gone /\ UNCHANGED engine

\* App::new: an engine that is found is adopted with what it was started with.
Launch ==
  /\ ~up /\ up' = TRUE
  /\ IF engine # NoEngine
     THEN engine' = [engine EXCEPT !.stale = TRUE] /\ desired' = TRUE
     ELSE UNCHANGED <<engine, desired>>
  /\ UNCHANGED <<geoip, cache, refreshing, workerVars>>

GeoNext ==
  \/ Launch \/ Exit \/ Crash
  \/ Apply \/ Connect \/ Disconnect \/ EngineExit
  \/ ClickRefresh \/ FinishRefresh
  \/ WorkerStep

\* The worker runs, its request has a timeout, and messages are dispatched.
GeoSpec ==
  /\ GeoInit /\ [][GeoNext]_geoVars
  /\ WF_geoVars(WorkerStep) /\ WF_geoVars(FinishRefresh)

-----------------------------------------------------------------------------
(* Properties. *)

\* The worker is at one of its steps only while a refresh is in flight, and the
\* caches hold parsed lists.
GeoTypeOK ==
  /\ up \in BOOLEAN /\ desired \in BOOLEAN
  /\ geoip \in [enabled : BOOLEAN, country : Countries]
  /\ engine \in [exclusions : Lists \cup {{}}, stale : BOOLEAN] \cup {NoEngine}
  /\ cache \in [Countries -> Lists \cup {NoList}]
  /\ refreshing \in BOOLEAN /\ posted \in BOOLEAN
  /\ job \in [step : Steps, country : Countries, list : Lists \cup {NoList}]
  /\ geoip_rx \in {"none", "ok", "err"}
  /\ (job # NoJob \/ posted) => refreshing
  /\ job # NoJob => ~posted

Delegations(body, c) ==
  {r \in body : r.cc = c /\ r.type = "ipv4" /\ r.start # NoStart /\ r.count > 0}

\* The row starts where a block of its size may start.  Registries also publish
\* rows that do not: 768 addresses from 10.0.1.0.
Aligned(r) == \A k \in 0 .. AddrBits : 2^k <= r.count => r.start % 2^k = 0

\* Every list in a cache sends direct what one edition of the registry delegates
\* to its country: neither rounding a count nor a change of country during the
\* download lets another address past the VPN (geoip/mod.rs).  The exception is a
\* row that is not aligned, whose block reaches back before the row, by less
\* than the row's count (geoip/ripe.rs).
CacheIsTheCountrys ==
  \A c \in Countries : cache[c] # NoList =>
    \E body \in Bodies : \A block \in cache[c] : \A a \in Addrs(block) :
      \E r \in Delegations(body, c) :
        \/ a \in AddrRange(r.start, r.count)
        \/ ~Aligned(r) /\ a < r.start /\ r.start < a + r.count

\* A list in a cache is one edition of the registry: a delegation is covered at
\* its start, an aligned one by more than one half, and to its last address if
\* its size is a power of two (geoip/cidr.rs).
ListCovers ==
  \A c \in Countries : cache[c] # NoList =>
    \E body \in Bodies :
      /\ {r.start : r \in Delegations(body, c)} = {block.start : block \in cache[c]}
      /\ \A r \in Delegations(body, c) :
           LET all == AddrRange(r.start, r.count)
               hit == all \cap UNION {Addrs(block) : block \in cache[c]}
           IN  /\ r.start \in hit
               /\ Aligned(r) => /\ 2 * Cardinality(hit) > r.count
                                /\ (\E k \in 0 .. AddrBits : r.count = 2^k) => hit = all

\* With no refresh in flight, an engine the wrapper started bypasses exactly
\* what the settings and the newest list say, whichever of edit, toggle,
\* restart and completion came last, unless a save or a start failed since.
EngineExclusionsCurrent ==
  up /\ ~refreshing /\ engine # NoEngine /\ ~engine.stale =>
    engine.exclusions = exclusions_for(geoip)

\* A refresh that fails or finds nothing keeps the old list (geoip/mod.rs).
OldListKept ==
  [][\A c \in Countries : cache[c] # NoList =>
       /\ cache'[c] \notin {NoList, {}}
       /\ cache'[c] # cache[c] => refreshing /\ geoip_rx' # "err"]_geoVars

\* A refresh ends: the button is not blocked for ever by a failed one.
RefreshEnds == refreshing ~> ~refreshing
=============================================================================
