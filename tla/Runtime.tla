------------------------------- MODULE Runtime -------------------------------
(***************************************************************************)
(* The scrape loop and the metrics cache: core/runtime.py (class Runtime)  *)
(* and its callers in main.py.                                             *)
(*                                                                         *)
(* Three kinds of processes share this state:                              *)
(*   - the event loop, which runs scrape_once, serve, the handlers' phases *)
(*     and the web requests as coroutines, one step between two awaits;    *)
(*   - the worker threads of asyncio.to_thread that run _write_cache and   *)
(*     cannot be stopped once they run;                                    *)
(*   - the operating system, which starts and kills the program.           *)
(*                                                                         *)
(* The content of a file is the number of the cycle that rendered it, or   *)
(* one of the negative values below; content[k] is what cycle k rendered.  *)
(***************************************************************************)
EXTENDS Integers, FiniteSets

CONSTANTS Handlers,      \* the handlers activated at start (runtime.py:43-54)
          Builtin,       \* the one that reports the runtime's own counters
          Series,        \* the series names the config files may declare
          Clients,       \* the HTTP clients
          MaxCycles,     \* bound: calls of scrape_once over all processes
          MaxRequests,   \* bound: requests a process counts
          SlowDisk,      \* may a cache write outlast a whole interval?
          DiskFaults     \* may opening, writing or renaming a file fail?

ASSUME HandlersAssumption == Builtin \in Handlers
ASSUME BoundsAssumption   == MaxCycles \in Nat /\ MaxRequests \in Nat
ASSUME DiskAssumption     == SlowDisk \in BOOLEAN /\ DiskFaults \in BOOLEAN

Cycles   == 1..MaxCycles
NoFile   == 0            \* there is no such file
Empty    == -1           \* truncated by open(), or only partly written
Mixed    == -2           \* bytes of two cycles
NotAsked == -3           \* no response yet

VARIABLES
  proc,           \* "down", "starting" (main.startup) or "serving"
  loop,           \* where serve is: "none", "due", "scraping", "sleeping", "dead"
  stage,          \* where scrape_once is: "idle", "prepare", "collect", "write",
                  \* or "cancelling" while wait_for's cancellation is delivered
  task,           \* the phase each handler's task has reached
  metrics,        \* the series each handler's verified metrics export
  sample,         \* the counters the builtin handler read in this cycle
  cycle,          \* calls of scrape_once so far, over all processes
  born,           \* the first cycle of this process
  content,        \* what each cycle rendered: its counters and its series
  writer,         \* the thread that runs _write_cache for each cycle
  tmp,            \* content of metrics.cache.tmp
  cache,          \* content of metrics.cache
  request_count, scrape_count,
  last_timings,   \* the cycle whose timings are stored, 0 for None
  client,         \* "idle", or "waiting" inside render()
  body            \* the last response of each client: a content, NoFile for a 503

scrapeVars == <<stage, task, metrics, sample>>
runVars    == <<cycle, born>>
diskVars   == <<content, writer, tmp, cache>>
countVars  == <<scrape_count, last_timings>>
webVars    == <<request_count, client, body>>
vars == <<proc, loop, scrapeVars, runVars, diskVars, countVars, webVars>>

NoSample  == [scrapes |-> 0, requests |-> 0]
NoSeries  == [h \in Handlers |-> {}]
NoContent == [scrapes |-> 0, requests |-> 0, series |-> NoSeries]

\* What a finished or cancelled task can be.
Settled == {"verified", "done", "failed", "cancelled"}
AllIn(S) == \A h \in Handlers : task[h] \in S

\* A writer whose thread is still going to touch the disk.
Live  == {"queued", "open_tmp", "open_cache", "open_gone", "written"}

Awaited(k) == stage = "write" /\ k = cycle

Init ==
  /\ proc = "down" /\ loop = "none"
  /\ stage = "idle" /\ task = [h \in Handlers |-> "idle"]
  /\ metrics = NoSeries /\ sample = NoSample
  /\ cycle = 0 /\ born = 1
  /\ content = [k \in Cycles |-> NoContent]
  /\ writer = [k \in Cycles |-> "none"]
  /\ tmp = NoFile /\ cache = NoFile
  /\ request_count = 0 /\ scrape_count = 0 /\ last_timings = 0
  /\ client = [c \in Clients |-> "idle"]
  /\ body = [c \in Clients |-> NotAsked]

-----------------------------------------------------------------------------
\* scrape_once, called: every handler's prepare() task reads its config.
ScrapeOnce ==
  /\ cycle < MaxCycles
  /\ cycle' = cycle + 1
  /\ stage' = "prepare"
  /\ task' = [h \in Handlers |-> "read"]
  /\ UNCHANGED <<metrics, sample>>

Leave_StageKept ==
  /\ stage' = stage
  /\ task' = [h \in Handlers |-> "idle"]
  /\ metrics' = NoSeries /\ sample' = NoSample

\* scrape_once, left: its locals and its tasks are gone.
Leave ==
  /\ stage' = "idle"
  /\ task' = [h \in Handlers |-> "idle"]
  /\ metrics' = NoSeries /\ sample' = NoSample

\* scrape_once raises. startup() lets every exception end the program; serve()
\* logs the caught ones and sleeps, and any other one ends its task.
Raise(caught) ==
  /\ Leave
  /\ \/ /\ proc = "starting"
        /\ proc' = "down" /\ UNCHANGED loop
     \/ /\ proc = "serving"
        /\ loop' = IF caught THEN "sleeping" ELSE "dead"
        /\ UNCHANGED proc
  /\ UNCHANGED <<runVars, countVars, webVars>>

Start_NotAwaited ==
  /\ proc = "down"
  /\ proc' = "serving" /\ loop' = "scraping"
  /\ ScrapeOnce
  /\ born' = cycle + 1
  /\ UNCHANGED <<diskVars, countVars, webVars>>

\* The program starts and main.startup() awaits the first scrape.
Start ==
  /\ proc = "down"
  /\ proc' = "starting"
  /\ ScrapeOnce
  /\ born' = cycle + 1
  /\ UNCHANGED <<loop, diskVars, countVars, webVars>>

\* serve() calls wait_for(scrape_once(), interval).
BeginCycle ==
  /\ loop = "due"
  /\ loop' = "scraping"
  /\ ScrapeOnce
  /\ UNCHANGED <<proc, born, diskVars, countVars, webVars>>

\* prepare(handler): read() and verify(), or whatever they raise. The config
\* file may have changed since the last cycle, so any set of metrics may come.
Prepare(h) ==
  /\ stage = "prepare" /\ task[h] = "read"
  /\ \/ /\ task' = [task EXCEPT ![h] = "verified"]
        /\ \E ms \in SUBSET Series : metrics' = [metrics EXCEPT ![h] = ms]
     \/ /\ task' = [task EXCEPT ![h] = "failed"]
        /\ UNCHANGED metrics
  /\ UNCHANGED <<proc, loop, stage, sample, runVars, diskVars, countVars, webVars>>

Duplicates_SeenPerHandler(ms) == \E h \in Handlers : Cardinality(ms[h]) > Cardinality(Series)

\* _check_duplicate_names: a series that two handlers export.
Duplicates(ms) == \E g, h \in Handlers : g # h /\ ms[g] \intersect ms[h] # {}

\* gather() has every prepare() result: failures make an ExceptionGroup, a
\* duplicate series a plain ValueError; otherwise the collect() tasks start.
Gathered ==
  /\ stage = "prepare" /\ AllIn(Settled)
  /\ \/ /\ ~AllIn({"verified"})
        /\ Raise(TRUE) /\ UNCHANGED diskVars
     \/ /\ AllIn({"verified"}) /\ Duplicates(metrics)
        /\ Raise(FALSE) /\ UNCHANGED diskVars
     \/ /\ AllIn({"verified"}) /\ ~Duplicates(metrics)
        /\ stage' = "collect"
        /\ task' = [h \in Handlers |-> "ready"]
        /\ UNCHANGED <<proc, loop, metrics, sample, runVars, diskVars, countVars, webVars>>

Sampled_CountsItself(h) ==
  IF h = Builtin THEN [scrapes |-> scrape_count + 1, requests |-> request_count] ELSE sample

\* The builtin handler reads the runtime's counters before its first await.
Sampled(h) ==
  IF h = Builtin THEN [scrapes |-> scrape_count, requests |-> request_count] ELSE sample

\* collect(handler) enters handler.execute().
Execute(h) ==
  /\ stage = "collect" /\ task[h] = "ready"
  /\ task' = [task EXCEPT ![h] = "executing"]
  /\ sample' = Sampled(h)
  /\ UNCHANGED <<proc, loop, stage, metrics, runVars, diskVars, countVars, webVars>>

\* execute() and finalize() return the handler's block, or one of them raises.
Finalize(h) ==
  /\ stage = "collect" /\ task[h] = "executing"
  /\ \E outcome \in {"done", "failed"} : task' = [task EXCEPT ![h] = outcome]
  /\ UNCHANGED <<proc, loop, stage, metrics, sample, runVars, diskVars, countVars, webVars>>

\* gather() has every block. With no failure the joined text goes to a worker
\* thread, which scrape_once awaits.
Submit ==
  /\ stage = "collect" /\ AllIn(Settled)
  /\ \/ /\ ~AllIn({"done"})
        /\ Raise(TRUE) /\ UNCHANGED diskVars
     \/ /\ AllIn({"done"})
        /\ stage' = "write"
        /\ content' = [content EXCEPT ![cycle] =
                         [scrapes |-> sample.scrapes, requests |-> sample.requests,
                          series |-> metrics]]
        /\ writer' = [writer EXCEPT ![cycle] = "queued"]
        /\ UNCHANGED <<proc, loop, task, metrics, sample, runVars, tmp, cache, countVars, webVars>>

-----------------------------------------------------------------------------
\* _write_cache, in its thread: tmp.write_text opens (and truncates) the one
\* temporary file, writes and closes it; os.replace renames it over the cache.
\* A thread nobody awaits any more leaves no trace when it ends.

Ended(k, result) == IF Awaited(k) THEN result ELSE "none"

OpenTmp(k) ==
  /\ writer[k] = "queued"
  /\ writer' = [writer EXCEPT ![k] = "open_tmp"]
  /\ tmp' = Empty
  /\ UNCHANGED <<proc, loop, scrapeVars, runVars, content, cache, countVars, webVars>>

\* The text lands in the file that was opened, wherever that file is now. If
\* another thread wrote there since, either text may cover the other.
Written(k, old) == IF old = Empty THEN {k} ELSE {k, Mixed}

WriteTmp(k) ==
  /\ writer[k] \in {"open_tmp", "open_cache", "open_gone"}
  /\ IF writer[k] = "open_tmp" THEN tmp' \in Written(k, tmp) ELSE UNCHANGED tmp
  /\ IF writer[k] = "open_cache" THEN cache' \in Written(k, cache) ELSE UNCHANGED cache
  /\ writer' = [writer EXCEPT ![k] = "written"]
  /\ UNCHANGED <<proc, loop, scrapeVars, runVars, content, countVars, webVars>>

\* os.replace() comes after the temporary file is written and closed.
Closed_Early == {"open_tmp", "written"}
Closed == {"written"}

\* rename() moves the file other threads hold open, and drops the old cache.
Relinked(w) ==
  IF w = "open_tmp" THEN "open_cache" ELSE IF w = "open_cache" THEN "open_gone" ELSE w

Replace(k) ==
  /\ writer[k] \in Closed
  /\ IF tmp = NoFile
     THEN /\ writer' = [writer EXCEPT ![k] = Ended(k, "failed")]
          /\ UNCHANGED <<tmp, cache>>
     ELSE /\ writer' = [j \in Cycles |->
                          IF j = k THEN Ended(k, "replaced") ELSE Relinked(writer[j])]
          /\ cache' = tmp /\ tmp' = NoFile
  /\ UNCHANGED <<proc, loop, scrapeVars, runVars, content, countVars, webVars>>

\* open(), write() or rename() raises an OSError and leaves what is there.
DiskFault(k) ==
  /\ DiskFaults
  /\ writer[k] \in Live
  /\ writer' = [writer EXCEPT ![k] = Ended(k, "failed")]
  /\ UNCHANGED <<proc, loop, scrapeVars, runVars, content, tmp, cache, countVars, webVars>>

\* to_thread() hands back control when the thread has ended, not before.
Landed_NotAwaited(w) == w \in {"queued", "replaced"}
Landed(w) == w = "replaced"

\* scrape_once resumes after the write: it stores the timings, counts the cycle
\* and returns to startup(), which starts serve(), or to serve().
Published ==
  /\ Landed(writer[cycle])
  /\ writer' = [writer EXCEPT ![cycle] = "none"]
  /\ last_timings' = cycle
  /\ scrape_count' = scrape_count + 1
  /\ \/ /\ proc = "starting" /\ proc' = "serving" /\ loop' = "due"
     \/ /\ proc = "serving" /\ loop' = "sleeping" /\ UNCHANGED proc
  /\ Leave
  /\ UNCHANGED <<runVars, content, tmp, cache, webVars>>

Complete ==
  /\ stage = "write"
  /\ \/ Published
     \/ /\ writer[cycle] = "failed"
        /\ writer' = [writer EXCEPT ![cycle] = "none"]
        /\ Raise(FALSE)
        /\ UNCHANGED <<content, tmp, cache>>

-----------------------------------------------------------------------------
\* wait_for's timer: the await scrape_once is suspended at is cancelled. A
\* thread that has not begun is withdrawn; one that has begun goes on alone.
Abandoned(w) ==
  IF w = "queued" THEN {"queued", "none"} ELSE IF w \in Live THEN {w} ELSE {"none"}

Cancellable_NotCollect == {"prepare", "write"}
Cancellable == {"prepare", "collect", "write"}

Timeout ==
  /\ loop = "scraping" /\ stage \in Cancellable
  /\ stage' = "cancelling"
  /\ \E w \in Abandoned(writer[cycle]) : writer' = [writer EXCEPT ![cycle] = w]
  /\ UNCHANGED <<proc, loop, task, metrics, sample, runVars, content, tmp, cache, countVars, webVars>>

Cancelled_ReadShielded(h) ==
  /\ stage = "cancelling" /\ task[h] \notin Settled /\ task[h] # "read"
  /\ task' = [task EXCEPT ![h] = "cancelled"]
  /\ UNCHANGED <<proc, loop, stage, metrics, sample, runVars, diskVars, countVars, webVars>>

\* A task's own await is cancelled in turn; it ends when its clean-up has.
Cancelled(h) ==
  /\ stage = "cancelling" /\ task[h] \notin Settled
  /\ task' = [task EXCEPT ![h] = "cancelled"]
  /\ UNCHANGED <<proc, loop, stage, metrics, sample, runVars, diskVars, countVars, webVars>>

\* scrape_once is unwound; serve() logs the TimeoutError and sleeps.
AfterTimeout_NoSleep == "due"
AfterTimeout == "sleeping"

Aborted ==
  /\ stage = "cancelling" /\ AllIn(Settled)
  /\ Leave
  /\ loop' = AfterTimeout
  /\ UNCHANGED <<proc, runVars, diskVars, countVars, webVars>>

\* serve() has slept for the interval. Unless the disk is slow, a thread an
\* aborted cycle left behind has finished by then: this is the one assumption
\* about time the safety properties rest on.
Wake ==
  /\ loop = "sleeping"
  /\ SlowDisk \/ \A k \in Cycles : writer[k] = "none"
  /\ loop' = "due"
  /\ UNCHANGED <<proc, scrapeVars, runVars, diskVars, countVars, webVars>>

-----------------------------------------------------------------------------
\* A request is counted before it is routed, then metrics() awaits render().
Request(c) ==
  /\ proc = "serving" /\ client[c] = "idle" /\ request_count < MaxRequests
  /\ request_count' = request_count + 1
  /\ client' = [client EXCEPT ![c] = "waiting"]
  /\ UNCHANGED <<proc, loop, scrapeVars, runVars, diskVars, countVars, body>>

\* render() reads the cache file in a worker thread; metrics() turns a missing
\* file into a 503.
Render(c) ==
  /\ client[c] = "waiting"
  /\ client' = [client EXCEPT ![c] = "idle"]
  /\ body' = [body EXCEPT ![c] = cache]
  /\ UNCHANGED <<proc, loop, scrapeVars, runVars, diskVars, countVars, request_count>>

\* The program is killed or exits: its memory and its threads are gone, the
\* files stay as they are.
Crash ==
  /\ proc # "down"
  /\ proc' = "down" /\ loop' = "none"
  /\ Leave
  /\ writer' = [k \in Cycles |-> "none"]
  /\ request_count' = 0 /\ scrape_count' = 0 /\ last_timings' = 0
  /\ client' = [c \in Clients |-> "idle"]
  /\ body' = [c \in Clients |-> NotAsked]
  /\ UNCHANGED <<runVars, content, tmp, cache>>

-----------------------------------------------------------------------------
Scrape ==
  \/ BeginCycle \/ Gathered \/ Submit \/ Complete \/ Timeout \/ Aborted \/ Wake
  \/ \E h \in Handlers : Prepare(h) \/ Execute(h) \/ Finalize(h) \/ Cancelled(h)

WriterThread(k) == OpenTmp(k) \/ WriteTmp(k) \/ Replace(k) \/ DiskFault(k)

Next ==
  \/ Start \/ Crash \/ Scrape
  \/ \E k \in Cycles : WriterThread(k)
  \/ \E c \in Clients : Request(c) \/ Render(c)

Spec == Init /\ [][Next]_vars

\* The event loop runs what is ready, and a cancelled await ends: killed child
\* processes do not hold it up (RunManyEnds of ProcessRunner; what that property
\* excepts, a command of another user that is waited for, is assumed away here).
\* Nothing says that a handler's phase or a cache write ever ends, that the
\* program is started, or that anybody asks.
EventLoopFairness ==
  /\ WF_vars(BeginCycle) /\ WF_vars(Gathered) /\ WF_vars(Submit) /\ WF_vars(Complete)
  /\ WF_vars(Timeout) /\ WF_vars(Aborted) /\ WF_vars(Wake)
  /\ \A h \in Handlers : WF_vars(Cancelled(h))

FairSpec == Spec /\ EventLoopFairness

-----------------------------------------------------------------------------
Whole == Cycles \union {NoFile}
Texts == Whole \union {Empty, Mixed}

TaskStates   == {"idle", "read", "ready", "executing"} \union Settled
WriterStates == {"none", "replaced", "failed"} \union Live
Samples      == [scrapes : Nat, requests : Nat]
SeriesMaps   == [Handlers -> SUBSET Series]
Expositions  == [scrapes : Nat, requests : Nat, series : SeriesMaps]

\* Types, and the program counters of the nested coroutines agree: startup and
\* serve are in scrape_once exactly when scrape_once is running.
TypeOK ==
  /\ proc \in {"down", "starting", "serving"}
  /\ loop \in {"none", "due", "scraping", "sleeping", "dead"}
  /\ stage \in {"idle", "prepare", "collect", "write", "cancelling"}
  /\ task \in [Handlers -> TaskStates]
  /\ metrics \in SeriesMaps
  /\ sample \in Samples
  /\ cycle \in Cycles \union {0} /\ born \in 1..(MaxCycles + 1)
  /\ content \in [Cycles -> Expositions]
  /\ writer \in [Cycles -> WriterStates]
  /\ tmp \in Texts /\ cache \in Texts
  /\ request_count \in Nat /\ scrape_count \in Nat /\ last_timings \in Cycles \union {0}
  /\ client \in [Clients -> {"idle", "waiting"}]
  /\ body \in [Clients -> Texts \union {NotAsked}]
  /\ loop # "none" <=> proc = "serving"
  /\ stage # "idle" <=> (proc = "starting" \/ loop = "scraping")
  /\ stage = "cancelling" => loop = "scraping"
  /\ stage # "idle" => cycle \in Cycles

\* "The app never serves partial or broken exposition output": the cache is
\* missing or the complete text of one cycle in every state, with a write in
\* progress, after a timed-out write and after a crash in the middle of one.
CacheWhole == cache \in Whole

\* What a process serves is its own: never a 503, since startup() awaited a
\* scrape, and never the file an earlier process or a crash left behind.
ServesOwnScrapes == \A c \in Clients : body[c] = NotAsked \/ body[c] >= born

\* While a write ends within an interval, at most one thread is in _write_cache:
\* the current cycle's. It never meets another cycle's temporary file, and it
\* only ever replaces an older cycle.
OneWriter ==
  \A k \in Cycles : writer[k] # "none" =>
    /\ k = cycle /\ proc # "down" /\ loop # "due" /\ stage \notin {"prepare", "collect"}
    /\ writer[k] \notin {"open_cache", "open_gone"}
    /\ writer[k] = "open_tmp" => tmp = Empty
    /\ writer[k] = "written" => tmp = k
    /\ writer[k] \in Live => cache < k
    /\ writer[k] = "replaced" => cache = k

\* The cycle on display is never ahead of the loop, a serving process displays
\* one of its own, and no client holds a response newer than the display.
FreshCache ==
  /\ CacheWhole /\ cache <= cycle
  /\ stage \in {"prepare", "collect"} => cache < cycle
  /\ born <= IF proc = "down" THEN cycle + 1 ELSE cycle
  /\ proc = "serving" => born <= cache
  /\ \A c \in Clients :
       /\ body[c] # NotAsked => body[c] >= born /\ body[c] <= cache
       /\ proc # "serving" => body[c] = NotAsked /\ client[c] = "idle"

\* The exported scrape counter lags one cycle: a counted cycle on display
\* shows one less than the live counter, a cycle that is published but not
\* (or not yet) counted shows exactly the live counter.
ExportedLag ==
  proc = "serving" =>
    /\ last_timings <= cache
    /\ content[cache].scrapes =
         IF last_timings = cache THEN scrape_count - 1 ELSE scrape_count

\* No series is on display twice: the metrics that were checked for duplicates
\* are the ones that are collected and rendered, though the config files may
\* change while the cycle runs.
NoSeriesTwice ==
  cache \in Cycles =>
    \A g, h \in Handlers :
      g # h => content[cache].series[g] \intersect content[cache].series[h] = {}

\* A cycle is counted, and its timings stored, only while it is the one on
\* display: the counter never runs ahead of the file.
CountedIsPublished ==
  [][scrape_count' > scrape_count =>
       /\ scrape_count' = scrape_count + 1
       /\ last_timings' = cycle /\ cache' = cycle]_vars

\* Between two responses of one process no client sees a cycle, or one of the
\* exported counters, go back.
ServedNeverBack ==
  [][\A c \in Clients :
       (body[c] \in Cycles /\ body'[c] \in Cycles) =>
          /\ body'[c] >= body[c]
          /\ content[body'[c]].scrapes >= content[body[c]].scrapes
          /\ content[body'[c]].requests >= content[body[c]].requests]_vars

\* Runtime keeps the promise of the abstract cache, crashes included.
Contract == INSTANCE MetricsCache WITH file <- cache, replies <- body, floor <- born - 1
KeepsContract == Contract!Spec

\* "A stuck handler can never block the next cycle": a cycle that serve began
\* is left again, however long a handler's phases take ...
CycleEnds == loop = "scraping" ~> loop # "scraping"

\* ... and the next one begins, unless the loop's task or the program died.
NextCycleComes ==
  \A k \in Cycles :
    (loop = "scraping" /\ cycle = k /\ k < MaxCycles)
      ~> (cycle = k + 1 \/ loop = "dead" \/ proc = "down")

-----------------------------------------------------------------------------
\* What the documents say and the code does not do.

\* docs/architecture.md: on timeout "the cycle is aborted and the previous
\* cache is kept": an uncounted cycle that ended is not on display.
AbortedCycleKeepsCache ==
  (proc = "serving" /\ loop = "sleeping" /\ last_timings # cycle) => cache # cycle

\* serve: "Repeat scrape cycles on a fixed interval forever".
ServeRepeatsForever == loop # "dead"

\* README.md: the endpoint "never serves partial output", for any disk speed.
RepliesWhole == \A c \in Clients : body[c] \notin {Empty, Mixed}

=============================================================================
