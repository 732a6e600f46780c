-------------------------------- MODULE Builtin --------------------------------
(***************************************************************************)
(* verify() and execute() of the builtin handler (handlers/builtin.py and  *)
(* collect() of core/builtin.py): one step per source, and an await at     *)
(* every source but the first and the processor count. The host changes    *)
(* between any two steps, so a step takes whatever its source holds then.  *)
(*                                                                         *)
(* A text is a sequence of the lines its parser looks at, None a command   *)
(* or file that failed. Numbers are integers; a number None is a field     *)
(* that does not parse.                                                    *)
(***************************************************************************)
EXTENDS Integers, FiniteSets, SequencesExt

CONSTANTS Configs,   \* the configs read() returns: metric names to metrics
          Active,    \* the classes of the active handlers
          Users, Numbers,
          None,
          MaxLines   \* bound: lines of a text

VARIABLES
  phase,     \* "verify", the next source, "done" or "raised"
  input,     \* what execute() is given: [name -> [source, item, scalar]]
  readings,  \* the sources read so far, with what they held
  results    \* the dict collect() fills

vars == <<phase, input, readings, results>>

Option(S) == S \union {None}
Positive(n) == IF n < 0 THEN 0 ELSE n

\* The commands, and the order in which collect() visits their sources.
Sources == <<"runtime", "users", "uids", "processes", "packages", "reboot",
             "cpus", "load", "memory", "disk", "network">>

Of(source) == {n \in DOMAIN input : input[n].source = source}
Item(n) == input[n].item

\* A source is read if a metric asks for it; uids belong to the users, and the
\* item of a timings metric is the handler it is about.
Wanted_Always(source) == TRUE
Wanted(source) ==
  IF source = "runtime" THEN Of("runtime") \union Of("timings") # {}
  ELSE IF source = "uids" THEN \E n \in Of("users") : Item(n) = "by_user"
  ELSE Of(source) # {}

\* The next source to visit, from the i-th on.
From(i) ==
  LET ahead == {j \in i..Len(Sources) : Wanted(Sources[j])}
  IN IF ahead = {} THEN "done" ELSE Sources[CHOOSE j \in ahead : \A k \in ahead : j <= k]
After(source) == From((CHOOSE i \in DOMAIN Sources : Sources[i] = source) + 1)

Init == /\ phase = "verify" /\ input \in Configs
        /\ readings = <<>> /\ results = <<>>

\* is_known_command, the active handlers' names, and scalar types only. No command
\* asks for the uids alone.
Known == (ToSet(Sources) \ {"uids"}) \union {"timings"}
Verified_AnyHandler(ms) == \A n \in DOMAIN ms : ms[n].scalar /\ ms[n].source \in Known
Verified(ms) ==
  \A n \in DOMAIN ms :
    /\ ms[n].scalar
    /\ ms[n].source \in Known
    /\ ms[n].source = "timings" => ms[n].item \in Active

Verify ==
  /\ phase = "verify"
  /\ phase' = IF Verified(input) THEN From(1) ELSE "raised"
  /\ UNCHANGED <<input, readings, results>>

-----------------------------------------------------------------------------
Visit(source, text, samples) ==
  /\ phase = source
  /\ phase' = After(source)
  /\ readings' = Append(readings, [source |-> source, text |-> text])
  /\ results' = [n \in DOMAIN samples \union DOMAIN results |->
                   IF n \in DOMAIN samples THEN samples[n] ELSE results[n]]
  /\ UNCHANGED input

\* What a source held when it was read, and the lines of it that there are.
Held(source) == readings[CHOOSE i \in DOMAIN readings : readings[i].source = source].text
Lines(text) == IF text = None THEN <<>> ELSE text

\* The providers read the runtime in one go, before the first await. The timings
\* are those of the last counted cycle, with an entry per active handler; the time a
\* cycle took is not zero.
Unrecorded(n, timings) == timings # None /\ Item(n) \notin Active
Provided(n, rt) ==
  IF Item(n) = "requests" THEN rt.requests
  ELSE IF Item(n) = "scrapes" THEN rt.scrapes
  ELSE IF rt.timings = None THEN 0 ELSE rt.timings

Providers(rt) ==
  IF \E n \in Of("timings") : Unrecorded(n, rt.timings)
  THEN phase = "runtime" /\ phase' = "raised" /\ UNCHANGED <<input, readings, results>>
  ELSE Visit("runtime", rt, [n \in Of("runtime") \union Of("timings") |-> Provided(n, rt)])

\* _collect_who, and _user_sample for the two totals.
CollectWho(who) ==
  Visit("users", who,
    [n \in {m \in Of("users") : Item(m) # "by_user"} |->
       IF Item(n) = "count" THEN Cardinality(ToSet(Lines(who))) ELSE Len(Lines(who))])

\* _user_uids, in another thread: an account may be gone by then.
UserUids_Resolved(passwd) ==
  Visit("uids", passwd,
    [n \in {m \in Of("users") : Item(m) = "by_user"} |->
       [u \in {w \in ToSet(Lines(Held("users"))) : passwd[w] # None} |-> passwd[u]]])
UserUids(passwd) ==
  Visit("uids", passwd,
    [n \in {m \in Of("users") : Item(m) = "by_user"} |->
       [u \in ToSet(Lines(Held("users"))) |-> IF passwd[u] = None THEN 0 ELSE passwd[u]]])

\* ps prints a header first.
CountProcesses(ps) ==
  Visit("processes", ps, [n \in Of("processes") |-> Positive((IF ps = None THEN 0 ELSE ps) - 1)])

-----------------------------------------------------------------------------
\* _package_manager: the first tool found of those the distribution may have.
Candidates(family) ==
  IF family = "debian" THEN <<"apt-get">>
  ELSE IF family = "rhel" THEN <<"dnf", "yum">> ELSE <<"apt-get", "dnf", "yum">>
PackageManager(family, tools) ==
  LET found == SelectSeq(Candidates(family), LAMBDA t : t \in tools)
  IN IF found = <<>> THEN None ELSE Head(found)

\* _count_check_update, line by line: a blank line ends a block of obsoleting packages.
\* Counts(lines)[i] is what its locals are after i lines.
Counts_BlockToEnd(lines) ==
  LET at[i \in 0..Len(lines)] ==
        IF i = 0 THEN [count |-> 0, obsoleting |-> FALSE]
        ELSE IF lines[i] = "blank" \/ at[i - 1].obsoleting THEN at[i - 1]
        ELSE IF lines[i] = "obsoleting" THEN [count |-> at[i - 1].count, obsoleting |-> TRUE]
        ELSE [count |-> at[i - 1].count + 1, obsoleting |-> FALSE]
  IN at
Counts(lines) ==
  LET at[i \in 0..Len(lines)] ==
        IF i = 0 THEN [count |-> 0, obsoleting |-> FALSE]
        ELSE IF lines[i] = "blank" THEN [count |-> at[i - 1].count, obsoleting |-> FALSE]
        ELSE IF lines[i] = "obsoleting" THEN [count |-> at[i - 1].count, obsoleting |-> TRUE]
        ELSE IF at[i - 1].obsoleting THEN at[i - 1]
        ELSE [count |-> at[i - 1].count + 1, obsoleting |-> FALSE]
  IN at
CountCheckUpdate(lines) == Counts(lines)[Len(lines)].count

\* _count_upgradable: apt-get must exit with 0, the others with 0 or 100. A run
\* is None if the tool was not started or timed out.
CountUpgradable_AnyCode(manager, run) ==
  IF manager = None \/ run = None THEN 0
  ELSE IF manager = "apt-get" THEN Len(SelectSeq(run.lines, LAMBDA l : l = "package"))
  ELSE CountCheckUpdate(run.lines)
CountUpgradable(manager, run) ==
  IF manager = None \/ run = None THEN 0
  ELSE IF manager = "apt-get"
       THEN IF run.code = 0 THEN Len(SelectSeq(run.lines, LAMBDA l : l = "package")) ELSE 0
       ELSE IF run.code \in {0, 100} THEN CountCheckUpdate(run.lines) ELSE 0

Packages(manager, run) ==
  Visit("packages", [manager |-> manager, run |-> run],
    [n \in Of("packages") |-> CountUpgradable(manager, run)])

\* _reboot_required: the flag file, or needs-restarting exits with 1.
Reboot(flag, tool, code) ==
  Visit("reboot", [flag |-> flag, code |-> IF flag \/ ~tool THEN None ELSE code],
    [n \in Of("reboot") |-> IF flag \/ (tool /\ code = 1) THEN 1 ELSE 0])

CpuCount(cpus) ==
  Visit("cpus", cpus, [n \in Of("cpus") |-> IF cpus = None THEN 0 ELSE cpus])

-----------------------------------------------------------------------------
\* _parse_loadavg: up to three fields.
LoadField == [load1 |-> 1, load5 |-> 2, load15 |-> 3]
ReadLoad(fields) ==
  Visit("load", fields,
    [n \in Of("load") |->
       LET i == LoadField[Item(n)]
       IN IF i \in DOMAIN Lines(fields) /\ fields[i] # None THEN fields[i] ELSE 0])

\* _parse_meminfo: the last line of each key that has a number counts.
MemoryLine(lines, key) ==
  LET at == {i \in DOMAIN lines : lines[i].key = key /\ lines[i].value # None}
  IN IF at = {} THEN 0 ELSE lines[CHOOSE i \in at : \A j \in at : j <= i].value
ParseMeminfo(lines) ==
  [total |-> MemoryLine(lines, "total"), available |-> MemoryLine(lines, "available"),
   used |-> MemoryLine(lines, "total") - MemoryLine(lines, "available")]
ReadMemory(text) ==
  Visit("memory", text, [n \in Of("memory") |-> ParseMeminfo(Lines(text))[Item(n)]])

\* _parse_df and _parse_netdev: totals over the rows of real filesystems, and of
\* interfaces other than lo. A row of None is one they skip.
Sums(numbers) ==
  LET sum[i \in 0..Len(numbers)] == IF i = 0 THEN 0 ELSE sum[i - 1] + numbers[i] IN sum
Total(rows, column) ==
  LET numbers == [i \in DOMAIN rows |-> IF rows[i] = None THEN 0 ELSE rows[i][column]]
  IN Sums(numbers)[Len(numbers)]
ReadDisk(rows) ==
  Visit("disk", rows, [n \in Of("disk") |-> Total(Lines(rows), Item(n))])
ReadNetwork(rows) ==
  Visit("network", rows, [n \in Of("network") |-> Total(Lines(rows), Item(n))])

-----------------------------------------------------------------------------
RuntimeStates ==
  {rt \in [requests : Numbers, scrapes : {0} \union Numbers, timings : Option(Numbers \ {0})] :
     rt.timings = None <=> rt.scrapes = 0}
Runs == Option([code : {0, 1, 100}, lines : SeqOf({"package", "obsoleting", "blank"}, MaxLines)])
MemoryLines == [key : {"total", "available"}, value : Option(Numbers)]
Filesystems == {row \in [total : Numbers, used : Numbers, available : Numbers] :
                  row.used + row.available <= row.total}
Texts(S) == Option(SeqOf(S, MaxLines))

Next ==
  \/ Verify
  \/ \E rt \in RuntimeStates : Providers(rt)
  \/ \E who \in Texts(Users) : CollectWho(who)
  \/ \E passwd \in [Users -> Option(Numbers)] : UserUids(passwd)
  \/ \E ps \in Option(0..MaxLines) : CountProcesses(ps)
  \/ \E family \in {"debian", "rhel", "other"}, tools \in SUBSET {"apt-get", "dnf", "yum"},
        run \in Runs : Packages(PackageManager(family, tools), run)
  \/ \E flag, tool \in BOOLEAN, code \in Option({0, 1, 100}) : Reboot(flag, tool, code)
  \/ \E cpus \in Option(Numbers) : CpuCount(cpus)
  \/ \E fields \in Texts(Option(Numbers)) : ReadLoad(fields)
  \/ \E text \in Texts(MemoryLines) : ReadMemory(text)
  \/ \E rows \in Texts(Option(Filesystems)) : ReadDisk(rows)
  \/ \E rows \in Texts(Option([received : Numbers, transmitted : Numbers])) : ReadNetwork(rows)

Spec == Init /\ [][Next]_vars

-----------------------------------------------------------------------------
TypeOK ==
  /\ phase \in {"verify", "done", "raised"} \union ToSet(Sources)
  /\ input \in Configs
  /\ DOMAIN results \subseteq DOMAIN input
  /\ Len(readings) <= Len(Sources)

\* "each OS source runs at most once per cycle, only if configured"
\* (core/builtin.py:422-423); in the end every metric has its result.
SourcesReadOnce ==
  /\ \A i, j \in DOMAIN readings : readings[i].source = readings[j].source => i = j
  /\ \A i \in DOMAIN readings : \E n \in DOMAIN input :
       \/ input[n].source = readings[i].source
       \/ input[n].source = "timings" /\ readings[i].source = "runtime"
       \/ Item(n) = "by_user" /\ readings[i].source = "uids"
  /\ phase = "done" => DOMAIN results = DOMAIN input

\* Once verify() has accepted the config nothing the host or the runtime holds
\* makes collect() raise: the handlers' names it checks are those that have timings.
CycleSurvives == phase = "raised" => ~Verified(input)

\* What several metrics say of one source agrees, whatever changes between the
\* awaits: the memory adds up, a file system is not fuller than it is large, every
\* user counted has a row though the account is gone, and there are timings
\* exactly if a cycle was counted.
Shown(source, item) == {results[n] : n \in {m \in DOMAIN results \intersect Of(source) : Item(m) = item}}
FamiliesAgree ==
  /\ \A t \in Shown("memory", "total"), a \in Shown("memory", "available"),
        u \in Shown("memory", "used") : t = a + u
  /\ \A t \in Shown("disk", "total"), a \in Shown("disk", "available"),
        u \in Shown("disk", "used") : u + a <= t
  /\ \A c \in Shown("users", "count"), s \in Shown("users", "sessions") : c <= s
  /\ \A c \in Shown("users", "count"), b \in Shown("users", "by_user") : Cardinality(DOMAIN b) = c
  /\ \A c \in Shown("runtime", "scrapes"), t \in Shown("runtime", "scrape") : c = 0 <=> t = 0

\* A probe whose binary is missing, that timed out or exited with a code it should
\* not, and a file that cannot be read, show as 0.0 or as no row, never as a count.
ProbeFailed(r) ==
  CASE r.source \in {"runtime", "uids"} -> FALSE
    [] r.source = "packages" ->
         \/ r.text.manager = None \/ r.text.run = None
         \/ r.text.run.code \notin IF r.text.manager = "apt-get" THEN {0} ELSE {0, 100}
    [] r.source = "reboot" -> ~r.text.flag /\ r.text.code # 1
    [] OTHER -> r.text = None
FailedReadsZero ==
  \A i \in DOMAIN readings : ProbeFailed(readings[i]) =>
    \A n \in Of(readings[i].source) \intersect DOMAIN results :
      IF readings[i].source = "users" /\ Item(n) = "by_user"
      THEN DOMAIN results[n] = {} ELSE results[n] = 0

\* An upgrade is a line that no block of obsoleting packages holds: none of the
\* headers before it comes after the last blank line before it.
UpgradesCounted ==
  \A i \in DOMAIN readings, n \in Of("packages") :
    (/\ readings[i].source = "packages" /\ ~ProbeFailed(readings[i])
     /\ readings[i].text.manager # "apt-get") =>
      LET lines == readings[i].text.run.lines
          obsoletes(k) == \E h \in 1..k : /\ lines[h] = "obsoleting"
                                         /\ \A b \in h..k : lines[b] # "blank"
      IN results[n] = Cardinality({k \in DOMAIN lines : lines[k] = "package" /\ ~obsoletes(k)})

=============================================================================
