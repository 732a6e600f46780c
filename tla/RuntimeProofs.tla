---------------------------- MODULE RuntimeProofs ----------------------------
(***************************************************************************)
(* Theorems about module Runtime, for any handlers, series, clients and    *)
(* bounds. Type correctness needs nothing; the others assume that a cache  *)
(* write ends within one scrape interval (~SlowDisk).                      *)
(***************************************************************************)
EXTENDS Runtime, TLAPS

-----------------------------------------------------------------------------
(* Small facts about the pieces the actions share. *)

LEMMA LeaveTypes ==
  ASSUME Leave
  PROVE  /\ stage' = "idle"
         /\ task' \in [Handlers -> TaskStates]
         /\ metrics' \in SeriesMaps
         /\ sample' \in Samples
BY DEF Leave, TaskStates, SeriesMaps, Samples, NoSeries, NoSample

LEMMA ScrapeOnceTypes ==
  ASSUME TypeOK, ScrapeOnce
  PROVE  /\ cycle' = cycle + 1 /\ cycle' \in Cycles
         /\ stage' = "prepare"
         /\ task' \in [Handlers -> TaskStates]
         /\ metrics' \in SeriesMaps
         /\ sample' \in Samples
BY BoundsAssumption DEF TypeOK, ScrapeOnce, TaskStates, Cycles

\* An exception leaves scrape_once with the program counters in agreement.
LEMMA RaiseTypes ==
  ASSUME TypeOK, stage \notin {"idle", "cancelling"},
         NEW caught \in BOOLEAN, Raise(caught),
         UNCHANGED <<content, tmp, cache>>, writer' \in [Cycles -> WriterStates]
  PROVE  TypeOK'
<1>1. UNCHANGED <<cycle, born, scrape_count, last_timings, request_count, client, body>>
  BY DEF Raise, runVars, countVars, webVars
<1>2. Leave
  BY DEF Raise
<1>3. /\ proc' \in {"down", "starting", "serving"}
      /\ loop' \in {"none", "due", "scraping", "sleeping", "dead"}
      /\ loop' # "none" <=> proc' = "serving"
      /\ proc' # "starting" /\ loop' # "scraping"
  BY DEF TypeOK, Raise
<1>4. QED
  BY <1>1, <1>2, <1>3, LeaveTypes DEF TypeOK, Texts, Whole

-----------------------------------------------------------------------------
\* Every step keeps the types and the agreement of the program counters of
\* startup(), serve() and scrape_once().
THEOREM TypeCorrect == Spec => []TypeOK
<1>1. Init => TypeOK
  BY BoundsAssumption
  DEF Init, TypeOK, NoSeries, NoSample, NoContent, Cycles, Texts, Whole,
      TaskStates, WriterStates, Samples, SeriesMaps, Expositions
<1>2. TypeOK /\ [Next]_vars => TypeOK'
  <2> SUFFICES ASSUME TypeOK, [Next]_vars PROVE TypeOK'
    OBVIOUS
  <2> USE DEF TypeOK, scrapeVars, runVars, diskVars, countVars, webVars
  <2>1. CASE Start
    <3>1. born' \in 1..(MaxCycles + 1)
      BY <2>1, BoundsAssumption DEF Start, ScrapeOnce, Cycles
    <3>2. QED
      BY <2>1, <3>1, ScrapeOnceTypes DEF Start
  <2>2. CASE Crash
    <3>1. writer' \in [Cycles -> WriterStates]
      BY <2>2 DEF Crash, WriterStates
    <3>2. body' \in [Clients -> Texts \union {NotAsked}]
      BY <2>2 DEF Crash
    <3>3. QED
      BY <2>2, <3>1, <3>2, LeaveTypes DEF Crash
  <2>3. CASE BeginCycle
    BY <2>3, ScrapeOnceTypes DEF BeginCycle
  <2>4. ASSUME NEW h \in Handlers, Prepare(h) PROVE TypeOK'
    BY <2>4 DEF Prepare, TaskStates, Settled, SeriesMaps
  <2>5. CASE Gathered
    <3>1. CASE Raise(TRUE) /\ UNCHANGED diskVars
      BY <2>5, <3>1, RaiseTypes DEF Gathered
    <3>2. CASE Raise(FALSE) /\ UNCHANGED diskVars
      BY <2>5, <3>2, RaiseTypes DEF Gathered
    <3>3. CASE /\ stage' = "collect" /\ task' = [h \in Handlers |-> "ready"]
               /\ UNCHANGED <<proc, loop, metrics, sample, runVars, diskVars, countVars, webVars>>
      BY <2>5, <3>3 DEF Gathered, TaskStates
    <3>4. QED
      BY <2>5, <3>1, <3>2, <3>3 DEF Gathered
  <2>6. ASSUME NEW h \in Handlers, Execute(h) PROVE TypeOK'
    BY <2>6 DEF Execute, Sampled, TaskStates, Samples
  <2>7. ASSUME NEW h \in Handlers, Finalize(h) PROVE TypeOK'
    BY <2>7 DEF Finalize, TaskStates, Settled
  <2>8. CASE Submit
    <3>1. CASE Raise(TRUE) /\ UNCHANGED diskVars
      BY <2>8, <3>1, RaiseTypes DEF Submit
    <3>2. CASE /\ stage' = "write"
               /\ content' = [content EXCEPT ![cycle] =
                                [scrapes |-> sample.scrapes, requests |-> sample.requests,
                                 series |-> metrics]]
               /\ writer' = [writer EXCEPT ![cycle] = "queued"]
               /\ UNCHANGED <<proc, loop, task, metrics, sample, runVars, tmp, cache,
                              countVars, webVars>>
      <4>1. [scrapes |-> sample.scrapes, requests |-> sample.requests,
             series |-> metrics] \in Expositions
        BY DEF Expositions, Samples
      <4>2. content' \in [Cycles -> Expositions]
        BY <3>2, <4>1
      <4>3. writer' \in [Cycles -> WriterStates]
        BY <3>2 DEF WriterStates, Live
      <4>4. QED
        BY <2>8, <3>2, <4>2, <4>3 DEF Submit
    <3>3. QED
      BY <2>8, <3>1, <3>2 DEF Submit
  <2>9. CASE Complete
    <3>1. CASE Published
      <4>1. writer' \in [Cycles -> WriterStates]
        BY <3>1 DEF Published, WriterStates
      <4>2. /\ proc' = "serving" /\ loop' \in {"due", "sleeping"}
            /\ cycle \in Cycles \union {0}
        BY <3>1 DEF Published
      <4>3. stage' = "idle" /\ cycle' = cycle
        BY <3>1, LeaveTypes DEF Published
      <4>4. QED
        BY <3>1, <4>1, <4>2, <4>3, LeaveTypes DEF Published
    <3>2. CASE ~Published
      <4>1. writer' \in [Cycles -> WriterStates]
        BY <2>9, <3>2 DEF Complete, WriterStates
      <4>2. QED
        BY <2>9, <3>2, <4>1, RaiseTypes DEF Complete
    <3>3. QED
      BY <3>1, <3>2
  <2>10. CASE Timeout
    <3>1. writer' \in [Cycles -> WriterStates]
      BY <2>10 DEF Timeout, Abandoned, WriterStates, Live
    <3>2. QED
      BY <2>10, <3>1 DEF Timeout
  <2>11. ASSUME NEW h \in Handlers, Cancelled(h) PROVE TypeOK'
    BY <2>11 DEF Cancelled, TaskStates, Settled
  <2>12. CASE Aborted
    BY <2>12, LeaveTypes DEF Aborted, AfterTimeout
  <2>13. CASE Wake
    BY <2>13 DEF Wake
  <2>14. ASSUME NEW k \in Cycles, WriterThread(k) PROVE TypeOK'
    <3> USE DEF WriterStates, Live, Texts, Whole
    <3>1. CASE OpenTmp(k)
      BY <3>1 DEF OpenTmp
    <3>2. CASE WriteTmp(k)
      BY <3>2 DEF WriteTmp, Written
    <3>3. CASE Replace(k)
      BY <3>3 DEF Replace, Ended, Relinked
    <3>4. CASE DiskFault(k)
      BY <3>4 DEF DiskFault, Ended
    <3>5. QED
      BY <2>14, <3>1, <3>2, <3>3, <3>4 DEF WriterThread
  <2>15. ASSUME NEW c \in Clients, Request(c) PROVE TypeOK'
    BY <2>15 DEF Request
  <2>16. ASSUME NEW c \in Clients, Render(c) PROVE TypeOK'
    BY <2>16 DEF Render
  <2>17. CASE UNCHANGED vars
    BY <2>17 DEF vars
  <2>18. QED
    BY <2>1, <2>2, <2>3, <2>4, <2>5, <2>6, <2>7, <2>8, <2>9, <2>10, <2>11,
       <2>12, <2>13, <2>14, <2>15, <2>16, <2>17 DEF Next, Scrape
<1>3. QED
  BY <1>1, <1>2, PTL DEF Spec

-----------------------------------------------------------------------------
(* The inductive invariant. CacheWhole alone is not inductive: that the      *)
(* text a thread renames over the cache is whole needs to be known of the    *)
(* temporary file (OneWriter), and that it is newer than the cache needs the *)
(* order of the cycles (FreshCache).                                         *)

IInv == TypeOK /\ OneWriter /\ FreshCache

LEMMA RaiseKeeps ==
  ASSUME IInv, stage \in {"prepare", "collect"}, NEW caught \in BOOLEAN,
         Raise(caught), UNCHANGED diskVars
  PROVE  OneWriter' /\ FreshCache'
<1>1. \A k \in Cycles : writer'[k] = "none"
  BY DEF IInv, OneWriter, diskVars
<1>2. UNCHANGED <<cycle, born, client, body, cache>> /\ stage' = "idle"
  BY DEF Raise, Leave, runVars, webVars, diskVars
<1>3. proc' = proc \/ (proc = "starting" /\ proc' = "down")
  BY DEF Raise
<1>4. cycle \in Int /\ born \in Int
  BY BoundsAssumption DEF IInv, TypeOK, Cycles
<1>5. OneWriter'
  BY <1>1 DEF OneWriter
<1>6. FreshCache'
  BY <1>2, <1>3, <1>4 DEF IInv, FreshCache, CacheWhole, Whole
<1>7. QED
  BY <1>5, <1>6

\* Without slow disks every step keeps the writer discipline and the order of
\* cycles, display and responses.
LEMMA StepKeeps ==
  ASSUME ~SlowDisk, IInv, [Next]_vars
  PROVE  OneWriter' /\ FreshCache'
<1> USE DEF IInv, scrapeVars, runVars, diskVars, countVars, webVars
<1>0. cycle \in Int /\ born \in Int /\ cache \in Int /\ MaxCycles \in Nat
  BY BoundsAssumption DEF TypeOK, FreshCache, CacheWhole, Whole, Cycles, NoFile
<1>1. CASE Start
  <2>1. \A k \in Cycles : writer'[k] = "none"
    BY <1>1 DEF Start, OneWriter
  <2>2. OneWriter'
    BY <2>1 DEF OneWriter
  <2>3. FreshCache'
    BY <1>1, <1>0 DEF Start, ScrapeOnce, FreshCache, CacheWhole, Whole
  <2>4. QED
    BY <2>2, <2>3
<1>2. CASE Crash
  <2>1. OneWriter'
    BY <1>2 DEF Crash, OneWriter
  <2>2. FreshCache'
    BY <1>2, <1>0 DEF Crash, Leave, FreshCache, CacheWhole, Whole
  <2>3. QED
    BY <2>1, <2>2
<1>3. CASE BeginCycle
  <2>1. \A k \in Cycles : writer'[k] = "none"
    BY <1>3 DEF BeginCycle, OneWriter
  <2>2. OneWriter'
    BY <2>1 DEF OneWriter
  <2>3. FreshCache'
    BY <1>3, <1>0 DEF BeginCycle, ScrapeOnce, FreshCache, CacheWhole, Whole, TypeOK
  <2>4. QED
    BY <2>2, <2>3
<1>4. ASSUME NEW h \in Handlers, Prepare(h) \/ Execute(h) \/ Finalize(h) \/ Cancelled(h)
      PROVE  OneWriter' /\ FreshCache'
  <2>1. UNCHANGED <<proc, loop, stage, cycle, born, diskVars, client, body>>
    BY <1>4 DEF Prepare, Execute, Finalize, Cancelled
  <2>2. QED
    BY <2>1 DEF OneWriter, FreshCache, CacheWhole, Whole
<1>5. CASE Gathered
  <2>1. CASE stage' = "collect" /\ UNCHANGED <<proc, loop, runVars, diskVars, webVars>>
    BY <1>5, <2>1 DEF Gathered, OneWriter, FreshCache, CacheWhole, Whole
  <2>2. QED
    BY <1>5, <2>1, RaiseKeeps DEF Gathered
<1>6. CASE Submit
  <2>1. CASE /\ stage' = "write"
             /\ writer' = [writer EXCEPT ![cycle] = "queued"]
             /\ UNCHANGED <<proc, loop, runVars, tmp, cache, webVars>>
    <3>1. \A k \in Cycles : writer'[k] # "none" => k = cycle /\ writer'[k] = "queued"
      BY <1>6, <2>1 DEF Submit, OneWriter, TypeOK
    <3>2. proc # "down" /\ loop # "due" /\ cache < cycle
      BY <1>6 DEF Submit, TypeOK, FreshCache
    <3>3. OneWriter'
      BY <2>1, <3>1, <3>2 DEF OneWriter, Live
    <3>4. FreshCache'
      BY <2>1 DEF FreshCache, CacheWhole, Whole
    <3>5. QED
      BY <3>3, <3>4
  <2>2. QED
    BY <1>6, <2>1, RaiseKeeps DEF Submit
<1>7. CASE Complete
  <2>1. writer' = [writer EXCEPT ![cycle] = "none"]
    BY <1>7 DEF Complete, Published
  <2>2. \A k \in Cycles : writer'[k] = "none"
    BY <2>1 DEF OneWriter, TypeOK
  <2>3. OneWriter'
    BY <2>2 DEF OneWriter
  <2>4. UNCHANGED <<cycle, born, client, body, cache>> /\ stage' = "idle"
    BY <1>7 DEF Complete, Published, Raise, Leave
  <2>5. CASE Published
    <3>1. cycle \in Cycles /\ cache = cycle
      <4>1. writer[cycle] = "replaced" /\ stage # "idle"
        BY <1>7, <2>5 DEF Complete, Published, Landed
      <4>2. cycle \in Cycles
        BY <4>1 DEF TypeOK
      <4>3. QED
        BY <4>1, <4>2 DEF OneWriter
    <3>2. proc' = "serving" /\ proc # "down"
      BY <2>5 DEF Published
    <3>3. QED
      BY <2>3, <2>4, <3>1, <3>2, <1>0 DEF FreshCache, CacheWhole, Whole
  <2>6. CASE ~Published
    <3>1. proc' = proc \/ (proc = "starting" /\ proc' = "down")
      BY <1>7, <2>6 DEF Complete, Raise
    <3>2. QED
      BY <2>3, <2>4, <3>1, <1>0 DEF FreshCache, CacheWhole, Whole
  <2>7. QED
    BY <2>5, <2>6
<1>8. CASE Timeout
  <2>1. UNCHANGED <<proc, loop, cycle, born, tmp, cache, client, body>> /\ stage' = "cancelling"
    BY <1>8 DEF Timeout
  <2>2. \A k \in Cycles : writer'[k] = writer[k] \/ writer'[k] = "none"
    BY <1>8 DEF Timeout, Abandoned, TypeOK
  <2>3. QED
    BY <2>1, <2>2 DEF OneWriter, FreshCache, CacheWhole, Whole
<1>9. CASE Aborted
  BY <1>9 DEF Aborted, Leave, AfterTimeout, OneWriter, FreshCache, CacheWhole, Whole
<1>10. CASE Wake
  BY <1>10 DEF Wake, OneWriter, FreshCache, CacheWhole, Whole
<1>11. ASSUME NEW k \in Cycles, WriterThread(k) PROVE OneWriter' /\ FreshCache'
  <2>1. UNCHANGED <<proc, loop, stage, cycle, born, client, body>>
    BY <1>11 DEF WriterThread, OpenTmp, WriteTmp, Replace, DiskFault
  <2>2. /\ writer[k] \in Live => k = cycle /\ cache < k
        /\ \A j \in Cycles \ {k} : writer[k] # "none" => writer[j] = "none"
    BY DEF OneWriter, Live
  <2>3. k \in Int /\ k # Empty /\ k # NoFile
    BY <1>0 DEF Cycles, Empty, NoFile
  <2> USE DEF Live
  <2>4. CASE OpenTmp(k)
    BY <2>1, <2>2, <2>4 DEF OpenTmp, OneWriter, FreshCache, CacheWhole, Whole, TypeOK
  <2>5. CASE WriteTmp(k)
    <3>1. writer[k] = "open_tmp" /\ tmp' = k /\ cache' = cache
      BY <2>5 DEF WriteTmp, OneWriter, Written
    <3>2. QED
      BY <2>1, <2>2, <2>5, <3>1 DEF WriteTmp, OneWriter, FreshCache, CacheWhole, Whole, TypeOK
  <2>6. CASE Replace(k)
    <3>1. writer[k] = "written" /\ tmp = k /\ cache' = k
      BY <2>3, <2>6 DEF Replace, Closed, OneWriter
    <3>2. /\ \A j \in Cycles \ {k} : writer'[j] = "none"
          /\ writer'[k] \in {"none", "replaced"}
      BY <2>2, <2>3, <2>6, <3>1 DEF Replace, Relinked, Ended
    <3>3. OneWriter'
      BY <2>1, <2>2, <3>1, <3>2 DEF OneWriter
    <3>4. cache < cache' /\ cache' = cycle /\ cache' \in Cycles
      BY <2>2, <3>1
    <3>5. stage \notin {"prepare", "collect"}
      BY <3>1 DEF OneWriter
    <3>6. \A c \in Clients : body[c] \in Int
      BY DEF TypeOK, Texts, Whole, Cycles, NoFile, Empty, Mixed, NotAsked
    <3>7. FreshCache'
      BY <2>1, <1>0, <3>1, <3>4, <3>5, <3>6 DEF FreshCache, CacheWhole, Whole
    <3>8. QED
      BY <3>3, <3>7
  <2>7. CASE DiskFault(k)
    <3>1. \A j \in Cycles : writer'[j] = writer[j] \/ writer'[j] \in {"none", "failed"}
      BY <2>7 DEF DiskFault, Ended, TypeOK
    <3>2. writer'[k] # "none" => writer[k] # "none"
      BY <2>7 DEF DiskFault
    <3>3. UNCHANGED <<tmp, cache>>
      BY <2>7 DEF DiskFault
    <3>4. OneWriter'
      BY <2>1, <2>7, <3>1, <3>2, <3>3 DEF DiskFault, OneWriter, TypeOK
    <3>5. FreshCache'
      BY <2>1, <3>3 DEF FreshCache, CacheWhole, Whole
    <3>6. QED
      BY <3>4, <3>5
  <2>8. QED
    BY <1>11, <2>4, <2>5, <2>6, <2>7 DEF WriterThread
<1>12. ASSUME NEW c \in Clients, Request(c) PROVE OneWriter' /\ FreshCache'
  BY <1>12 DEF Request, OneWriter, FreshCache, CacheWhole, Whole, TypeOK
<1>13. ASSUME NEW c \in Clients, Render(c) PROVE OneWriter' /\ FreshCache'
  <2>1. proc = "serving"
    BY <1>13 DEF Render, FreshCache
  <2>2. OneWriter'
    BY <1>13 DEF Render, OneWriter
  <2>3. FreshCache'
    BY <1>13, <1>0, <2>1 DEF Render, FreshCache, CacheWhole, Whole, TypeOK
  <2>4. QED
    BY <2>2, <2>3
<1>14. CASE UNCHANGED vars
  BY <1>14 DEF vars, OneWriter, FreshCache, CacheWhole, Whole
<1>15. QED
  BY <1>1, <1>2, <1>3, <1>4, <1>5, <1>6, <1>7, <1>8, <1>9, <1>10, <1>11,
     <1>12, <1>13, <1>14 DEF Next, Scrape

\* The inductive invariant is one: it holds initially and every step keeps it.
THEOREM Invariant == ASSUME ~SlowDisk PROVE Spec => []IInv
<1>1. Init => OneWriter /\ FreshCache
  BY BoundsAssumption DEF Init, OneWriter, FreshCache, CacheWhole, Whole, NoFile
<1>2. TypeOK' /\ IInv /\ [Next]_vars => IInv'
  BY StepKeeps DEF IInv
<1>3. Spec => [](TypeOK /\ OneWriter /\ FreshCache)
  BY <1>1, <1>2, TypeCorrect, PTL DEF Spec, IInv
<1>4. QED
  BY <1>3, PTL DEF IInv

\* In every state, between any two steps of the event loop, a writer thread and
\* a crash, metrics.cache is missing or the complete text of one cycle.
THEOREM CacheAlwaysWhole == ASSUME ~SlowDisk PROVE Spec => []CacheWhole
<1>1. IInv => CacheWhole
  BY DEF IInv, FreshCache
<1>2. QED
  BY <1>1, Invariant, PTL

\* At most one thread is inside _write_cache, for the newest cycle.
THEOREM AtMostOneWriter == ASSUME ~SlowDisk PROVE Spec => []OneWriter
BY Invariant, PTL DEF IInv

\* No client of a process gets a 503 or a response of an earlier process.
THEOREM RepliesAreOwn == ASSUME ~SlowDisk PROVE Spec => []ServesOwnScrapes
<1>1. IInv => ServesOwnScrapes
  BY DEF IInv, FreshCache, ServesOwnScrapes
<1>2. QED
  BY <1>1, Invariant, PTL

\* The cycle on display is older than the one being scraped, a serving process
\* displays one of its own, and no client holds a response newer than the display.
THEOREM CacheIsFresh == ASSUME ~SlowDisk PROVE Spec => []FreshCache
BY Invariant, PTL DEF IInv

-----------------------------------------------------------------------------
(* Runtime implements MetricsCache. Only three actions are not stutters of   *)
(* the abstract cache: Replace publishes, Render replies, Start restarts;    *)
(* Crash stops.                                                              *)

LEMMA StepRefines ==
  ASSUME ~SlowDisk, IInv, IInv', [Next]_vars
  PROVE  [Contract!Next]_(Contract!vars)
<1> USE DEF Contract!vars, Contract!Next, Contract!NoReplies, scrapeVars, runVars, diskVars,
            countVars, webVars
<1>0. /\ cycle \in Int /\ born \in Int /\ cache \in Int /\ MaxCycles \in Nat
      /\ Contract!Versions = Cycles /\ Contract!NotAsked = NotAsked
  BY BoundsAssumption
  DEF IInv, TypeOK, FreshCache, CacheWhole, Whole, Cycles, NoFile, Contract!Versions,
      Contract!NotAsked, NotAsked
<1>1. CASE Start
  <2>1. body = [c \in Clients |-> NotAsked]
    BY <1>1 DEF Start, IInv, FreshCache, TypeOK
  <2>2. cycle \in Cycles \union {0} /\ cycle >= cache /\ born' - 1 = cycle
    BY <1>0, <1>1 DEF Start, IInv, FreshCache, TypeOK
  <2>3. Contract!Restart
    BY <1>0, <1>1, <2>1, <2>2 DEF Start, Contract!Restart
  <2>4. QED
    BY <2>3
<1>2. CASE Crash
  <2>1. Contract!Stop
    BY <1>0, <1>2 DEF Crash, Contract!Stop
  <2>2. QED
    BY <2>1
<1>3. ASSUME NEW k \in Cycles, Replace(k) PROVE [Contract!Next]_(Contract!vars)
  <2>1. tmp = k /\ cache < k /\ k # NoFile
    BY <1>0, <1>3 DEF Replace, Closed, IInv, OneWriter, Live, Cycles, NoFile
  <2>2. cache' = k /\ UNCHANGED <<born, body>>
    BY <1>3, <2>1 DEF Replace
  <2>3. Contract!Publish
    BY <1>0, <2>1, <2>2 DEF Contract!Publish
  <2>4. QED
    BY <2>3
<1>4. ASSUME NEW c \in Clients, Render(c) PROVE [Contract!Next]_(Contract!vars)
  <2>1. cache > born - 1
    BY <1>0, <1>4 DEF Render, IInv, FreshCache
  <2>2. Contract!Reply(c)
    BY <1>4, <2>1 DEF Render, Contract!Reply
  <2>3. QED
    BY <2>2
<1>5. ASSUME NEW k \in Cycles, OpenTmp(k) \/ WriteTmp(k) \/ DiskFault(k)
      PROVE  UNCHANGED <<cache, body, born>>
  <2>1. writer[k] # "open_cache"
    BY DEF IInv, OneWriter
  <2>2. QED
    BY <1>5, <2>1 DEF OpenTmp, WriteTmp, DiskFault
<1>6. CASE Scrape
  <2>1. UNCHANGED <<cache, body, born>>
    BY <1>6 DEF Scrape, BeginCycle, Gathered, Submit, Complete, Published, Timeout, Aborted,
                Wake, Prepare, Execute, Finalize, Cancelled, Raise
  <2>2. QED
    BY <2>1
<1>7. ASSUME NEW c \in Clients, Request(c) PROVE UNCHANGED <<cache, body, born>>
  BY <1>7 DEF Request
<1>8. CASE UNCHANGED vars
  BY <1>8 DEF vars
<1>9. QED
  BY <1>1, <1>2, <1>3, <1>4, <1>5, <1>6, <1>7, <1>8 DEF Next, WriterThread

\* Every behaviour of the runtime is a behaviour of the abstract cache: one
\* register, published atomically and in order, never read before it is fresh.
THEOREM Refinement == ASSUME ~SlowDisk PROVE Spec => KeepsContract
<1>1. Init => Contract!Init
  BY DEF Init, Contract!Init, Contract!NoReplies, Contract!NoFile, Contract!NotAsked,
         NoFile, NotAsked
<1>2. IInv /\ IInv' /\ [Next]_vars => [Contract!Next]_(Contract!vars)
  BY StepRefines
<1>3. QED
  BY <1>1, <1>2, Invariant, PTL DEF Spec, KeepsContract, Contract!Spec

-----------------------------------------------------------------------------
(* The exported counters. What a cycle samples is carried by its task, then  *)
(* by the content its writer holds, until it is on display: at each of these *)
(* places it equals, or bounds, the live counter.                            *)

HasSampled == stage = "collect" /\ task[Builtin] \in {"executing", "done", "failed"}

\* The live counters belong to this process.
CountersFresh ==
  proc # "serving" => scrape_count = 0 /\ last_timings = 0 /\ request_count = 0

\* A sample on its way to the display is the live counter, and not older than
\* what is on display.
SampleInv ==
  HasSampled =>
    /\ sample.scrapes = scrape_count /\ sample.requests <= request_count
    /\ proc = "serving" => sample.requests >= content[cache].requests

WriterInv ==
  \A k \in Cycles : writer[k] \in Live \union {"replaced"} =>
    /\ content[k].scrapes = scrape_count /\ content[k].requests <= request_count
    /\ proc = "serving" => content[k].requests >= content[cache].requests

DisplayInv ==
  /\ ExportedLag
  /\ proc = "serving" => content[cache].requests <= request_count
  /\ \A c \in Clients : body[c] \in Cycles =>
       /\ content[body[c]].scrapes <= content[cache].scrapes
       /\ content[body[c]].requests <= content[cache].requests

CInv == IInv /\ CountersFresh /\ SampleInv /\ WriterInv /\ DisplayInv

\* The series on their way to the display are free of duplicates.
SeriesInv ==
  /\ stage = "collect" => ~Duplicates(metrics)
  /\ \A k \in Cycles : writer[k] \in Live => ~Duplicates(content[k].series)
  /\ NoSeriesTwice

LEMMA CountersStep ==
  ASSUME ~SlowDisk, CInv, IInv', [Next]_vars
  PROVE  (CountersFresh /\ SampleInv /\ WriterInv /\ DisplayInv)'
<1> USE DEF CInv, scrapeVars, runVars, diskVars, countVars, webVars
<1>0. /\ TypeOK /\ OneWriter /\ FreshCache
      /\ cycle \in Int /\ cache \in Int /\ born \in Int
      /\ \A k \in Cycles : content[k].scrapes \in Nat /\ content[k].requests \in Nat
      /\ scrape_count \in Nat /\ request_count \in Nat /\ last_timings \in Nat
  <2>1. TypeOK /\ OneWriter /\ FreshCache
    BY DEF IInv
  <2>2. \A k \in Cycles : content[k] \in Expositions
    BY <2>1 DEF TypeOK
  <2>3. \A k \in Cycles : content[k].scrapes \in Nat /\ content[k].requests \in Nat
    BY <2>2 DEF Expositions
  <2>4. /\ cycle \in Int /\ cache \in Int /\ born \in Int
        /\ scrape_count \in Nat /\ request_count \in Nat /\ last_timings \in Nat
    BY <2>1, BoundsAssumption DEF TypeOK, FreshCache, CacheWhole, Whole, Cycles, NoFile
  <2>5. QED
    BY <2>1, <2>3, <2>4
<1>01. proc = "serving" => cache \in Cycles /\ proc # "starting"
  BY <1>0, BoundsAssumption DEF TypeOK, FreshCache, CacheWhole, Whole, Cycles, NoFile
<1>02. \A c \in Clients : body[c] \in Cycles => body[c] <= cache /\ proc = "serving"
  BY <1>0, BoundsAssumption DEF FreshCache, Cycles, NotAsked
<1>1. CASE Start
  <2>1. /\ \A k \in Cycles : writer'[k] = "none"
        /\ stage' = "prepare" /\ proc' = "starting" /\ proc = "down"
        /\ UNCHANGED <<content, cache, body, request_count, scrape_count, last_timings>>
    BY <1>0, <1>1 DEF Start, ScrapeOnce, OneWriter
  <2>2. QED
    BY <2>1, <1>02 DEF CountersFresh, SampleInv, HasSampled, WriterInv, Live, DisplayInv, ExportedLag
<1>2. CASE Crash
  <2>1. \A c \in Clients : body'[c] \notin Cycles
    BY <1>2, BoundsAssumption DEF Crash, NotAsked, Cycles
  <2>2. /\ proc' = "down" /\ stage' = "idle" /\ \A k \in Cycles : writer'[k] = "none"
        /\ request_count' = 0 /\ scrape_count' = 0 /\ last_timings' = 0
    BY <1>2 DEF Crash, Leave
  <2>3. QED
    BY <2>1, <2>2 DEF CountersFresh, SampleInv, HasSampled, WriterInv, Live, DisplayInv, ExportedLag
<1>3. CASE BeginCycle \/ (\E h \in Handlers : Prepare(h) \/ Cancelled(h)) \/ Aborted \/ Wake
  <2>1. stage' # "collect"
    BY <1>3 DEF BeginCycle, ScrapeOnce, Prepare, Cancelled, Aborted, Leave, Wake, TypeOK, IInv
  <2>2. UNCHANGED <<proc, diskVars, countVars, webVars>>
    BY <1>3 DEF BeginCycle, Prepare, Cancelled, Aborted, Wake
  <2>3. QED
    BY <2>1, <2>2 DEF CountersFresh, SampleInv, HasSampled, WriterInv, DisplayInv, ExportedLag
<1>4. CASE Gathered
  <2>1. stage' \in {"idle", "collect"} /\ ~HasSampled'
    BY <1>4, HandlersAssumption DEF Gathered, Raise, Leave, HasSampled
  <2>2. UNCHANGED <<diskVars, countVars, webVars>>
    BY <1>4 DEF Gathered, Raise
  <2>3. proc' = proc \/ (proc = "starting" /\ proc' = "down")
    BY <1>4 DEF Gathered, Raise
  <2>4. QED
    BY <2>1, <2>2, <2>3 DEF CountersFresh, SampleInv, WriterInv, DisplayInv, ExportedLag
<1>5. ASSUME NEW h \in Handlers, Execute(h)
      PROVE  (CountersFresh /\ SampleInv /\ WriterInv /\ DisplayInv)'
  <2>1. UNCHANGED <<proc, diskVars, countVars, webVars>>
    BY <1>5 DEF Execute
  <2>2. SampleInv'
    <3>1. CASE h = Builtin
      BY <1>0, <1>01, <1>5, <2>1, <3>1 DEF Execute, Sampled, SampleInv, DisplayInv
    <3>2. CASE h # Builtin
      BY <1>0, <1>5, <2>1, <3>2, HandlersAssumption
      DEF Execute, Sampled, SampleInv, HasSampled, TypeOK
    <3>3. QED
      BY <3>1, <3>2
  <2>3. QED
    BY <2>1, <2>2 DEF CountersFresh, WriterInv, DisplayInv, ExportedLag
<1>6. ASSUME NEW h \in Handlers, Finalize(h)
      PROVE  (CountersFresh /\ SampleInv /\ WriterInv /\ DisplayInv)'
  <2>1. UNCHANGED <<proc, stage, sample, diskVars, countVars, webVars>>
    BY <1>6 DEF Finalize
  <2>2. HasSampled' => HasSampled
    BY <1>0, <1>6, HandlersAssumption DEF Finalize, HasSampled, TypeOK
  <2>3. QED
    BY <2>1, <2>2 DEF CountersFresh, SampleInv, WriterInv, DisplayInv, ExportedLag
<1>7. CASE Submit
  <2>1. CASE Raise(TRUE) /\ UNCHANGED diskVars
    <3>1. /\ UNCHANGED <<diskVars, countVars, webVars>> /\ stage' = "idle"
          /\ proc' = proc \/ (proc = "starting" /\ proc' = "down")
      BY <2>1 DEF Raise, Leave
    <3>2. QED
      BY <3>1 DEF CountersFresh, SampleInv, HasSampled, WriterInv, DisplayInv, ExportedLag
  <2>2. CASE /\ AllIn({"done"}) /\ stage' = "write"
             /\ content' = [content EXCEPT ![cycle] =
                              [scrapes |-> sample.scrapes, requests |-> sample.requests,
                               series |-> metrics]]
             /\ writer' = [writer EXCEPT ![cycle] = "queued"]
             /\ UNCHANGED <<proc, loop, task, metrics, sample, runVars, tmp, cache,
                            countVars, webVars>>
    <3>1. HasSampled /\ cache < cycle /\ cycle \in Cycles
      BY <1>0, <1>7, <2>2, HandlersAssumption DEF Submit, HasSampled, AllIn, TypeOK, FreshCache
    <3>2. \A k \in Cycles : content'[k] = IF k = cycle
                                          THEN [scrapes |-> sample.scrapes,
                                                requests |-> sample.requests,
                                                series |-> metrics]
                                          ELSE content[k]
      BY <1>0, <2>2 DEF TypeOK
    <3>3. proc = "serving" => content'[cache] = content[cache]
      BY <1>0, <1>01, <3>1, <3>2
    <3>4. \A c \in Clients : body[c] \in Cycles => content'[body[c]] = content[body[c]]
      BY <1>0, <1>02, <3>1, <3>2, BoundsAssumption DEF Cycles
    <3>5. \A k \in Cycles : writer'[k] \in Live \union {"replaced"} => k = cycle
      BY <1>0, <1>7, <2>2, <3>1 DEF Submit, OneWriter, TypeOK, Live
    <3>6. /\ content'[cycle].scrapes = sample.scrapes
          /\ content'[cycle].requests = sample.requests
      BY <3>1, <3>2
    <3>7. CountersFresh' /\ SampleInv'
      BY <2>2 DEF CountersFresh, SampleInv, HasSampled
    <3>8. WriterInv'
      BY <2>2, <3>1, <3>3, <3>5, <3>6 DEF WriterInv, SampleInv
    <3>9. DisplayInv'
      BY <1>02, <2>2, <3>3, <3>4 DEF DisplayInv, ExportedLag
    <3>10. QED
      BY <3>7, <3>8, <3>9
  <2>3. QED
    BY <1>7, <2>1, <2>2 DEF Submit
<1>8. CASE Complete
  <2>1. writer' = [writer EXCEPT ![cycle] = "none"] /\ cycle \in Cycles
    BY <1>0, <1>8 DEF Complete, Published, TypeOK
  <2>2. \A k \in Cycles : writer'[k] = "none"
    BY <1>0, <2>1 DEF OneWriter, TypeOK
  <2>3. UNCHANGED <<content, cache, webVars>> /\ stage' = "idle"
    BY <1>8 DEF Complete, Published, Raise, Leave
  <2>4. SampleInv' /\ WriterInv'
    BY <2>2, <2>3 DEF SampleInv, HasSampled, WriterInv, Live
  <2>5. CASE Published
    <3>1. cache = cycle /\ writer[cycle] = "replaced" /\ proc' = "serving"
      BY <1>0, <2>1, <2>5 DEF Published, Landed, OneWriter
    <3>2. scrape_count' = scrape_count + 1 /\ last_timings' = cycle
      BY <2>5 DEF Published
    <3>3. content[cache].scrapes = scrape_count /\ content[cache].requests <= request_count
      BY <2>1, <3>1 DEF WriterInv
    <3>4. CountersFresh' /\ ExportedLag'
      BY <1>0, <2>3, <3>1, <3>2, <3>3 DEF CountersFresh, ExportedLag
    <3>5. DisplayInv'
      BY <2>3, <3>3, <3>4 DEF DisplayInv
    <3>6. QED
      BY <2>4, <3>4, <3>5
  <2>6. CASE ~Published
    <3>1. UNCHANGED countVars /\ (proc' = proc \/ (proc = "starting" /\ proc' = "down"))
      BY <1>8, <2>6 DEF Complete, Raise
    <3>2. QED
      BY <2>3, <2>4, <3>1 DEF CountersFresh, DisplayInv, ExportedLag
  <2>7. QED
    BY <2>5, <2>6
<1>9. CASE Timeout
  <2>1. \A k \in Cycles : writer'[k] = writer[k] \/ writer'[k] = "none"
    BY <1>0, <1>9 DEF Timeout, Abandoned, TypeOK
  <2>2. UNCHANGED <<proc, content, cache, countVars, webVars>> /\ stage' = "cancelling"
    BY <1>9 DEF Timeout
  <2>3. QED
    BY <2>1, <2>2 DEF CountersFresh, SampleInv, HasSampled, WriterInv, Live, DisplayInv, ExportedLag
<1>10. ASSUME NEW k \in Cycles, OpenTmp(k) \/ WriteTmp(k) \/ DiskFault(k)
       PROVE  (CountersFresh /\ SampleInv /\ WriterInv /\ DisplayInv)'
  <2>1. writer[k] # "open_cache" /\ writer[k] \in Live
    BY <1>0, <1>10 DEF OpenTmp, WriteTmp, DiskFault, OneWriter, Live
  <2>2. UNCHANGED <<proc, scrapeVars, content, cache, countVars, webVars>>
    BY <1>10, <2>1 DEF OpenTmp, WriteTmp, DiskFault
  <2>3. \A j \in Cycles : writer'[j] \in Live \union {"replaced"} => writer[j] \in Live \union {"replaced"}
    BY <1>0, <1>10, <2>1 DEF OpenTmp, WriteTmp, DiskFault, Ended, TypeOK, Live
  <2>4. QED
    BY <2>2, <2>3 DEF CountersFresh, SampleInv, HasSampled, WriterInv, DisplayInv, ExportedLag
<1>11. ASSUME NEW k \in Cycles, Replace(k)
       PROVE  (CountersFresh /\ SampleInv /\ WriterInv /\ DisplayInv)'
  <2>1. /\ writer[k] = "written" /\ tmp = k /\ k = cycle /\ cache < k
        /\ stage \notin {"prepare", "collect"}
    BY <1>0, <1>11 DEF Replace, Closed, OneWriter, Live
  <2>2. k # NoFile /\ k \in Int
    BY BoundsAssumption DEF Cycles, NoFile
  <2>3. cache' = k /\ UNCHANGED <<proc, scrapeVars, content, countVars, webVars>>
    BY <1>11, <2>1, <2>2 DEF Replace
  <2>4. /\ content[k].scrapes = scrape_count /\ content[k].requests <= request_count
        /\ proc = "serving" => content[k].requests >= content[cache].requests
    BY <2>1 DEF WriterInv, Live
  <2>5. \A j \in Cycles : writer'[j] \in Live \union {"replaced"} => j = k
    BY <1>0, <1>11, <2>1, <2>2 DEF Replace, OneWriter, Relinked, Live
  <2>6. CountersFresh' /\ SampleInv'
    BY <2>1, <2>3 DEF CountersFresh, SampleInv, HasSampled
  <2>7. WriterInv'
    BY <1>0, <2>3, <2>4, <2>5 DEF WriterInv
  <2>8. ExportedLag'
    BY <1>0, <2>1, <2>2, <2>3, <2>4 DEF DisplayInv, ExportedLag
  <2>9. proc = "serving" => content[cache].scrapes <= scrape_count
    BY <1>0 DEF DisplayInv, ExportedLag
  <2>10. \A c \in Clients : body[c] \in Cycles =>
           /\ content[body[c]].scrapes <= content[k].scrapes
           /\ content[body[c]].requests <= content[k].requests
    BY <1>0, <1>01, <1>02, <2>4, <2>9 DEF DisplayInv
  <2>11. QED
    BY <2>3, <2>4, <2>6, <2>7, <2>8, <2>10 DEF DisplayInv
<1>12. ASSUME NEW c \in Clients, Request(c)
       PROVE  (CountersFresh /\ SampleInv /\ WriterInv /\ DisplayInv)'
  <2>1. /\ UNCHANGED <<proc, scrapeVars, content, writer, cache, body, countVars>>
        /\ request_count' = request_count + 1 /\ proc = "serving"
    BY <1>12 DEF Request
  <2>2. sample.requests \in Nat
    BY <1>0 DEF TypeOK, Samples
  <2>3. CountersFresh' /\ SampleInv'
    BY <1>0, <2>1, <2>2 DEF CountersFresh, SampleInv, HasSampled
  <2>4. WriterInv'
    BY <1>0, <2>1 DEF WriterInv
  <2>5. DisplayInv'
    BY <1>0, <1>01, <2>1 DEF DisplayInv, ExportedLag
  <2>6. QED
    BY <2>3, <2>4, <2>5
<1>13. ASSUME NEW c \in Clients, Render(c)
       PROVE  (CountersFresh /\ SampleInv /\ WriterInv /\ DisplayInv)'
  <2>1. UNCHANGED <<proc, scrapeVars, content, writer, cache, countVars, request_count>>
    BY <1>13 DEF Render
  <2>2. \A d \in Clients : body'[d] = body[d] \/ body'[d] = cache
    BY <1>0, <1>13 DEF Render, TypeOK
  <2>3. \A d \in Clients : body'[d] \in Cycles =>
          /\ content[body'[d]].scrapes <= content[cache].scrapes
          /\ content[body'[d]].requests <= content[cache].requests
    BY <1>0, <2>2 DEF DisplayInv
  <2>4. QED
    BY <2>1, <2>3 DEF CountersFresh, SampleInv, HasSampled, WriterInv, DisplayInv, ExportedLag
<1>14. CASE UNCHANGED vars
  BY <1>14 DEF vars, CountersFresh, SampleInv, HasSampled, WriterInv, DisplayInv, ExportedLag
<1>15. QED
  BY <1>1, <1>2, <1>3, <1>4, <1>5, <1>6, <1>7, <1>8, <1>9, <1>10, <1>11,
     <1>12, <1>13, <1>14 DEF Next, Scrape, WriterThread

\* What CInv says of the counters is true of every reachable state, as long as
\* a cache write ends within one interval.
THEOREM Counters == ASSUME ~SlowDisk PROVE Spec => []CInv
<1>1. Init => CountersFresh /\ SampleInv /\ WriterInv /\ DisplayInv
  BY BoundsAssumption
  DEF Init, CountersFresh, SampleInv, HasSampled, WriterInv, Live, DisplayInv, ExportedLag,
      Cycles, NotAsked
<1>2. CInv /\ IInv' /\ [Next]_vars => (CountersFresh /\ SampleInv /\ WriterInv /\ DisplayInv)'
  BY CountersStep
<1>3. QED
  BY <1>1, <1>2, Invariant, PTL DEF Spec, CInv

\* The exported scrape counter lags exactly one cycle behind the live one, and
\* the timings on display are those of the cycle before (docs/architecture.md).
THEOREM Lag == ASSUME ~SlowDisk PROVE Spec => []ExportedLag
<1>1. CInv => ExportedLag
  BY DEF CInv, DisplayInv
<1>2. QED
  BY <1>1, Counters, PTL

LEMMA NeverBackStep ==
  ASSUME ~SlowDisk, CInv, [Next]_vars, NEW c \in Clients,
         body[c] \in Cycles, body'[c] \in Cycles
  PROVE  /\ body'[c] >= body[c]
         /\ content[body'[c]].scrapes >= content[body[c]].scrapes
         /\ content[body'[c]].requests >= content[body[c]].requests
<1> USE DEF scrapeVars, runVars, diskVars, countVars, webVars
<1>1. TypeOK /\ FreshCache /\ DisplayInv /\ proc = "serving"
  BY BoundsAssumption DEF CInv, IInv, FreshCache, Cycles, NotAsked
<1>2. cache \in Cycles /\ body[c] <= cache /\ body[c] \in Int /\ cache \in Int
  BY <1>1, BoundsAssumption
  DEF TypeOK, FreshCache, CacheWhole, Whole, Cycles, NoFile, NotAsked
<1>3. \A k \in Cycles : content[k].scrapes \in Nat /\ content[k].requests \in Nat
  <2>1. \A k \in Cycles : content[k] \in Expositions
    BY <1>1 DEF TypeOK
  <2>2. QED
    BY <2>1 DEF Expositions
<1>4. body'[c] = body[c] \/ body'[c] = cache
  <2>1. CASE \E d \in Clients : Render(d)
    BY <1>1, <2>1 DEF Render, TypeOK
  <2>2. ~Crash
    BY BoundsAssumption DEF Crash, Cycles, NotAsked
  <2>3. CASE Start \/ Scrape
    BY <2>3 DEF Start, Scrape, BeginCycle, Gathered, Submit, Complete, Published, Timeout,
                Aborted, Wake, Prepare, Execute, Finalize, Cancelled, Raise
  <2>4. ASSUME NEW k \in Cycles, WriterThread(k) PROVE body' = body
    BY <2>4 DEF WriterThread, OpenTmp, WriteTmp, Replace, DiskFault
  <2>5. ASSUME NEW d \in Clients, Request(d) PROVE body' = body
    BY <2>5 DEF Request
  <2>6. CASE UNCHANGED vars
    BY <2>6 DEF vars
  <2>7. QED
    BY <2>1, <2>2, <2>3, <2>4, <2>5, <2>6 DEF Next
<1>5. QED
  BY <1>1, <1>2, <1>3, <1>4 DEF DisplayInv

\* Between two responses of one process a client never sees a cycle, or an
\* exported counter, go back: neither an abandoned write nor a restart reaches it.
THEOREM NeverBack == ASSUME ~SlowDisk PROVE Spec => ServedNeverBack
<1>1. CInv /\ [Next]_vars =>
        [\A c \in Clients :
          (body[c] \in Cycles /\ body'[c] \in Cycles) =>
            /\ body'[c] >= body[c]
            /\ content[body'[c]].scrapes >= content[body[c]].scrapes
            /\ content[body'[c]].requests >= content[body[c]].requests]_vars
  BY NeverBackStep
<1>2. QED
  BY <1>1, Counters, PTL DEF Spec, ServedNeverBack

\* A cycle is counted, and its timings stored, only while it is on display.
THEOREM CountedOnDisplay == ASSUME ~SlowDisk PROVE Spec => CountedIsPublished
<1>1. IInv /\ [Next]_vars =>
        [scrape_count' > scrape_count =>
           /\ scrape_count' = scrape_count + 1
           /\ last_timings' = cycle /\ cache' = cycle]_vars
  <2> SUFFICES ASSUME IInv, [Next]_vars, scrape_count' > scrape_count
               PROVE  /\ scrape_count' = scrape_count + 1
                      /\ last_timings' = cycle /\ cache' = cycle
    OBVIOUS
  <2> USE DEF scrapeVars, runVars, diskVars, countVars, webVars
  <2>1. scrape_count \in Nat /\ OneWriter /\ TypeOK
    BY DEF IInv, TypeOK
  <2>2. scrape_count' # scrape_count /\ scrape_count' # 0
    BY <2>1
  <2>3. CASE Complete
    <3>1. Published
      BY <2>2, <2>3 DEF Complete, Raise
    <3>2. cycle \in Cycles
      BY <2>1, <2>3 DEF Complete, TypeOK
    <3>3. cache = cycle
      BY <2>1, <3>1, <3>2 DEF Published, Landed, OneWriter
    <3>4. QED
      BY <3>1, <3>3 DEF Published
  <2>4. ~Start /\ ~Crash
    BY <2>2 DEF Start, Crash
  <2>5. ASSUME Scrape, ~Complete PROVE FALSE
    BY <2>2, <2>5 DEF Scrape, BeginCycle, Gathered, Submit, Timeout, Aborted,
                      Wake, Prepare, Execute, Finalize, Cancelled, Raise
  <2>6. ASSUME NEW k \in Cycles, WriterThread(k) PROVE FALSE
    BY <2>2, <2>6 DEF WriterThread, OpenTmp, WriteTmp, Replace, DiskFault
  <2>7. ASSUME NEW c \in Clients, Request(c) \/ Render(c) PROVE FALSE
    BY <2>2, <2>7 DEF Request, Render
  <2>8. ~UNCHANGED vars
    BY <2>2 DEF vars
  <2>9. QED
    BY <2>3, <2>4, <2>5, <2>6, <2>7, <2>8 DEF Next
<1>2. QED
  BY <1>1, Invariant, PTL DEF Spec, CountedIsPublished

LEMMA SeriesStep ==
  ASSUME ~SlowDisk, IInv, SeriesInv, [Next]_vars PROVE SeriesInv'
<1> USE DEF scrapeVars, runVars, diskVars, countVars, webVars
<1> DEFINE Collected == stage = "collect" => ~Duplicates(metrics)
           Carried   == \A k \in Cycles : writer[k] \in Live => ~Duplicates(content[k].series)
           OnDisplay == cache \in Cycles => ~Duplicates(content[cache].series)
<1>1. SeriesInv <=> Collected /\ Carried /\ OnDisplay
  BY DEF SeriesInv, NoSeriesTwice, Duplicates
<1>2. SeriesInv' <=> Collected' /\ Carried' /\ OnDisplay'
  BY DEF SeriesInv, NoSeriesTwice, Duplicates
<1>3. TypeOK /\ OneWriter /\ FreshCache /\ Collected /\ Carried /\ OnDisplay
  BY <1>1 DEF IInv
<1> HIDE DEF SeriesInv
<1> SUFFICES Collected' /\ Carried' /\ OnDisplay'
  BY <1>2
<1>4. ASSUME UNCHANGED <<content, cache>>,
             stage' = "collect" => (stage = "collect" \/ ~Duplicates(metrics)) /\ metrics' = metrics,
             \A k \in Cycles : writer'[k] \in Live => writer[k] \in Live
      PROVE  Collected' /\ Carried' /\ OnDisplay'
  BY <1>3, <1>4 DEF Duplicates
<1>5. CASE Start
  <2>1. \A k \in Cycles : writer'[k] = writer[k]
    BY <1>5 DEF Start
  <2>2. QED
    BY <1>4, <1>5, <2>1 DEF Start, ScrapeOnce
<1>6. CASE Crash
  <2>1. \A k \in Cycles : writer'[k] = "none"
    BY <1>6 DEF Crash
  <2>2. QED
    BY <1>4, <1>6, <2>1 DEF Crash, Leave, Live
<1>7. CASE BeginCycle \/ Aborted \/ Wake
  <2>1. stage' # "collect"
    BY <1>3, <1>7 DEF BeginCycle, ScrapeOnce, Aborted, Leave, Wake, TypeOK
  <2>2. QED
    BY <1>4, <1>7, <2>1 DEF BeginCycle, Aborted, Wake
<1>8. ASSUME NEW h \in Handlers, Prepare(h) \/ Execute(h) \/ Finalize(h) \/ Cancelled(h)
      PROVE  Collected' /\ Carried' /\ OnDisplay'
  BY <1>4, <1>8 DEF Prepare, Execute, Finalize, Cancelled
<1>9. CASE Gathered
  <2>1. UNCHANGED diskVars
    BY <1>9 DEF Gathered
  <2>2. stage' = "collect" => ~Duplicates(metrics) /\ metrics' = metrics
    BY <1>9 DEF Gathered, Raise, Leave
  <2>3. QED
    BY <1>4, <2>1, <2>2
<1>10. CASE Submit
  <2>1. stage' # "collect" /\ cache' = cache
    BY <1>10 DEF Submit, Raise, Leave
  <2>2. CASE UNCHANGED diskVars
    BY <1>4, <2>1, <2>2
  <2>3. CASE /\ content' = [content EXCEPT ![cycle] =
                              [scrapes |-> sample.scrapes, requests |-> sample.requests,
                               series |-> metrics]]
             /\ writer' = [writer EXCEPT ![cycle] = "queued"]
    <3>1. cycle \in Cycles /\ cache # cycle /\ ~Duplicates(metrics)
      BY <1>3, <1>10, BoundsAssumption DEF Submit, TypeOK, FreshCache, CacheWhole, Whole, Cycles, NoFile
    <3>2. content'[cycle].series = metrics
      BY <1>3, <2>3, <3>1 DEF TypeOK
    <3>3. \A k \in Cycles : k # cycle => content'[k] = content[k] /\ writer'[k] = writer[k]
      BY <1>3, <2>3 DEF TypeOK
    <3>4. Carried'
      BY <1>3, <3>1, <3>2, <3>3 DEF Duplicates
    <3>5. OnDisplay'
      BY <1>3, <2>1, <3>1, <3>3 DEF Duplicates
    <3>6. QED
      BY <2>1, <3>4, <3>5
  <2>4. QED
    BY <1>10, <2>2, <2>3 DEF Submit
<1>11. CASE Complete
  <2>1. \A k \in Cycles : writer'[k] \in Live => writer[k] \in Live
    BY <1>3, <1>11 DEF Complete, Published, Live, TypeOK
  <2>2. stage' = "idle" /\ UNCHANGED <<content, cache>>
    BY <1>11 DEF Complete, Published, Raise, Leave
  <2>3. QED
    BY <1>4, <2>1, <2>2
<1>12. CASE Timeout
  <2>1. \A k \in Cycles : writer'[k] \in Live => writer[k] \in Live
    BY <1>3, <1>12 DEF Timeout, Abandoned, Live, TypeOK
  <2>2. QED
    BY <1>4, <1>12, <2>1 DEF Timeout
<1>13. ASSUME NEW k \in Cycles, OpenTmp(k) \/ WriteTmp(k) \/ DiskFault(k)
       PROVE  Collected' /\ Carried' /\ OnDisplay'
  <2>1. writer[k] # "open_cache" /\ writer[k] \in Live
    BY <1>3, <1>13 DEF OpenTmp, WriteTmp, DiskFault, OneWriter, Live
  <2>2. UNCHANGED <<content, cache, stage, metrics>>
    BY <1>13, <2>1 DEF OpenTmp, WriteTmp, DiskFault
  <2>3. \A j \in Cycles : writer'[j] \in Live => writer[j] \in Live
    BY <1>3, <1>13, <2>1 DEF OpenTmp, WriteTmp, DiskFault, Ended, TypeOK, Live
  <2>4. QED
    BY <1>4, <2>2, <2>3
<1>14. ASSUME NEW k \in Cycles, Replace(k)
       PROVE  Collected' /\ Carried' /\ OnDisplay'
  <2>1. writer[k] = "written" /\ tmp = k /\ k # NoFile
    BY <1>3, <1>14, BoundsAssumption DEF Replace, Closed, OneWriter, Cycles, NoFile
  <2>2. cache' = k /\ UNCHANGED <<content, stage, metrics>>
    BY <1>14, <2>1 DEF Replace
  <2>3. ~Duplicates(content[k].series)
    BY <1>3, <2>1 DEF Live
  <2>4. \A j \in Cycles : writer'[j] \in Live => writer[j] \in Live
    BY <1>3, <1>14, <2>1 DEF Replace, Ended, Relinked, Live, OneWriter
  <2>5. QED
    BY <1>3, <2>2, <2>3, <2>4 DEF Duplicates
<1>15. ASSUME NEW c \in Clients, Request(c) \/ Render(c)
       PROVE  Collected' /\ Carried' /\ OnDisplay'
  BY <1>4, <1>15 DEF Request, Render
<1>16. CASE UNCHANGED vars
  BY <1>4, <1>16 DEF vars
<1>17. QED
  BY <1>5, <1>6, <1>7, <1>8, <1>9, <1>10, <1>11, <1>12, <1>13, <1>14, <1>15, <1>16
  DEF Next, Scrape, WriterThread

\* No series is on display twice, however the config files change between the
\* duplicate check of a cycle and its publication.
THEOREM SeriesOnce == ASSUME ~SlowDisk PROVE Spec => []NoSeriesTwice
<1>1. Init => SeriesInv
  BY BoundsAssumption DEF Init, SeriesInv, NoSeriesTwice, Live, Cycles, NoFile
<1>2. IInv /\ SeriesInv /\ [Next]_vars => SeriesInv'
  BY SeriesStep
<1>3. SeriesInv => NoSeriesTwice
  BY DEF SeriesInv
<1>4. QED
  BY <1>1, <1>2, <1>3, Invariant, PTL DEF Spec

=============================================================================
