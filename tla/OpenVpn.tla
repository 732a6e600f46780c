-------------------------------- MODULE OpenVpn --------------------------------
(***************************************************************************)
(* verify() and execute() of the openvpn handler (handlers/openvpn.py):    *)
(* sources() reads the configs one after the other, parsed() the status    *)
(* files, and the extractors make rows of what was parsed. All of it runs  *)
(* in a worker thread, while OpenVPN rewrites its files.                   *)
(*                                                                         *)
(* A config is None if it cannot be read, else the directives that matter; *)
(* a status is None or a sequence of lines. A path is a directory and the  *)
(* stem of a file name. The counters of a client, the numbers and the      *)
(* flags of a config are alike: one of each stands for them.               *)
(***************************************************************************)
EXTENDS Integers, FiniteSets, Sequences

CONSTANTS Paths,      \* the environments: [configs, statuses], sequences of paths
          Configs,    \* what config files hold: [version, server, cn, port, flag, pool]
          Statuses,   \* the status files OpenVPN writes, sequences of lines
                      \* [key, table, name, value, whole]; whole: with all its fields
          Commands,   \* the commands a handler's config may have
          None

VARIABLES
  phase,     \* "verify", "sources", "parsed", "extract", "done" or "raised"
  input,     \* [commands, configs, statuses]
  readings,  \* configs: those read so far; statuses: by the position of their config
  results    \* the rows of each command: labels to values

vars == <<phase, input, readings, results>>

Extractors == {"up", "status_path", "status_update_time", "connected_clients",
               "client_counter", "server_client", "route", "max_queue",
               "config_number", "config_flag", "pool_size", "info"}

Init ==
  /\ phase = "verify"
  /\ \E env \in Paths, c \in Commands :
       input = [commands |-> c, configs |-> env.configs, statuses |-> env.statuses]
  /\ readings = [configs |-> <<>>, statuses |-> <<>>] /\ results = <<>>

Verify ==
  /\ phase = "verify"
  /\ phase' = IF input.commands \subseteq Extractors THEN "sources" ELSE "raised"
  /\ UNCHANGED <<input, readings, results>>

-----------------------------------------------------------------------------
\* sources(): a status path has the config of its position, if there is one.
ReadConfig(text) ==
  /\ phase = "sources" /\ Len(readings.configs) < Len(input.statuses)
  /\ LET i == Len(readings.configs) + 1
     IN readings' = [readings EXCEPT !.configs =
                       Append(@, IF i \in DOMAIN input.configs THEN text ELSE None)]
  /\ UNCHANGED <<phase, input, results>>

\* The positions whose config is of status-version 3; the others are skipped.
Positions ==
  {i \in DOMAIN readings.configs : readings.configs[i] # None /\ readings.configs[i].version = 3}

\* The status path goes with the config, not with the count of sources so far.
StatusPath_Counted(i) == input.statuses[Cardinality({j \in Positions : j <= i})]
StatusPath(i) == input.statuses[i]

Source(i) ==
  LET params == readings.configs[i]
  IN [network |-> input.configs[i].stem,
      kind |-> IF params.server THEN "server" ELSE "client",
      cn |-> IF params.server THEN None ELSE params.cn,
      params |-> params, status |-> StatusPath(i)]

SourcesRead ==
  /\ phase = "sources" /\ Len(readings.configs) = Len(input.statuses)
  /\ phase' = IF Positions = {} THEN "extract" ELSE "parsed"
  /\ UNCHANGED <<input, readings, results>>

-----------------------------------------------------------------------------
\* A row needs the header of its table before it, and as many columns (map_row).
Row(line) == line.key \in {"CLIENT_LIST", "ROUTING_TABLE"}
Mapped(text, i) ==
  /\ text[i].whole
  /\ \E h \in 1..(i - 1) : text[h].key = "HEADER" /\ text[h].table = text[i].key /\ text[h].whole
Malformed_AnyLine(kind, text) ==
  kind = "server" /\ text # None /\ \E i \in DOMAIN text : ~text[i].whole
Malformed(kind, text) ==
  kind = "server" /\ text # None /\ \E i \in DOMAIN text : Row(text[i]) /\ ~Mapped(text, i)

\* parsed(): the statuses in the order of their sources, each read and parsed; the
\* exception of a malformed row is not caught.
Unread == Positions \ DOMAIN readings.statuses
ReadStatus(i, text) ==
  /\ phase = "parsed" /\ i \in Unread /\ \A j \in Unread : i <= j
  /\ readings' = [readings EXCEPT !.statuses =
                    [j \in DOMAIN @ \union {i} |->
                       IF j = i THEN [path |-> Source(i).status, text |-> text] ELSE @[j]]]
  /\ phase' = IF Malformed(Source(i).kind, text) THEN "raised"
              ELSE IF Unread = {i} THEN "extract" ELSE "parsed"
  /\ UNCHANGED <<input, results>>

-----------------------------------------------------------------------------
\* What parse_server_status and parse_client_status make of a text: the last value of
\* a key (TIME and Updated need all their fields), and the lines of a table.
Last(S) == CHOOSE i \in S : \A j \in S : j <= i
LastOf(text, key) ==
  LET at == {l \in DOMAIN text : text[l].key = key /\ text[l].whole}
  IN IF at = {} THEN None ELSE text[Last(at)].value
RowsOf(text, table) == {l \in DOMAIN text : text[l].key = table}

\* The source of a status that could not be read has no data.
Text_EmptyIfUnreadable(i) ==
  LET text == readings.statuses[i].text IN IF text = None THEN <<>> ELSE text
Text(i) == readings.statuses[i].text
Up(kinds) == {i \in Positions : Text(i) # None /\ Source(i).kind \in kinds}
Either == {"server", "client"}
Labels(i) == <<Source(i).network, Source(i).kind>>

\* A dict filled in order: an assignment keeps the last value of a key, setdefault
\* the first. Without a value there is no row.
LastRows(S, key(_), value(_)) ==
  LET with == {i \in S : value(i) # None}
  IN [k \in {key(i) : i \in with} |-> value(Last({i \in with : key(i) = k}))]
FirstRows(S, key(_), value(_)) ==
  LET with == {e \in S : value(e) # None}
      before(d, e) == d[1] < e[1] \/ (d[1] = e[1] /\ d[2] <= e[2])
  IN [k \in {key(e) : e \in with} |->
        value(CHOOSE e \in with : key(e) = k /\ \A d \in with : key(d) = k => before(e, d))]

\* The lines of a table in all server statuses, as positions and line numbers.
TableLines(table) == UNION {{i} \X RowsOf(Text(i), table) : i \in Up({"server"})}
TableRows(table) ==
  FirstRows(TableLines(table),
            LAMBDA e : <<Source(e[1]).network, Source(e[1]).kind, Text(e[1])[e[2]].name>>,
            LAMBDA e : Text(e[1])[e[2]].value)

Extracted(command) ==
  CASE command = "up" ->
         LastRows(Positions, LAMBDA i : <<Source(i).network, Source(i).kind, Source(i).cn>>,
                  LAMBDA i : IF Text(i) # None THEN 1 ELSE 0)
    [] command = "status_path" ->
         LastRows(Positions, LAMBDA i : <<Source(i).network, Source(i).kind, Source(i).status>>,
                  LAMBDA i : IF Text(i) # None THEN 1 ELSE 0)
    [] command = "status_update_time" ->
         LastRows(Up(Either), Labels,
                  LAMBDA i : LastOf(Text(i), IF Source(i).kind = "server" THEN "TIME" ELSE "Updated"))
    [] command = "connected_clients" ->
         LastRows(Up({"server"}), Labels, LAMBDA i : Cardinality(RowsOf(Text(i), "CLIENT_LIST")))
    [] command = "client_counter" ->
         LastRows(Up({"client"}), Labels, LAMBDA i : LastOf(Text(i), "read bytes"))
    [] command = "server_client" -> TableRows("CLIENT_LIST")
    [] command = "route" -> TableRows("ROUTING_TABLE")
    [] command = "max_queue" ->
         LastRows(Up({"server"}), Labels, LAMBDA i : LastOf(Text(i), "GLOBAL_STATS"))
    [] command = "config_number" -> LastRows(Positions, Labels, LAMBDA i : Source(i).params.port)
    [] command = "config_flag" ->
         LastRows(Positions, Labels, LAMBDA i : IF Source(i).params.flag THEN 1 ELSE 0)
    [] command = "pool_size" ->
         LastRows(Positions, Labels, LAMBDA i : IF Source(i).params.pool = None THEN None
                                     ELSE Source(i).params.pool[2] - Source(i).params.pool[1] + 1)
    [] command = "info" ->
         LastRows(Positions, LAMBDA i : <<Source(i).network, Source(i).kind, Source(i).params.port>>,
                  LAMBDA i : 1)

Execute ==
  /\ phase = "extract"
  /\ results' = [c \in input.commands |-> Extracted(c)]
  /\ phase' = "done"
  /\ UNCHANGED <<input, readings>>

-----------------------------------------------------------------------------
\* A status file that was truncated and is being written again: a reader gets all of
\* it, the first lines, or these and a line that lost its end. (One that is overwritten
\* in place, with an old tail behind the new head, is not modelled.)
Torn(text) ==
  {SubSeq(text, 1, n) : n \in 0..Len(text)}
    \union {Append(SubSeq(text, 1, n - 1), [text[n] EXCEPT !.whole = FALSE]) : n \in DOMAIN text}

Next ==
  \/ Verify \/ SourcesRead \/ Execute
  \/ \E text \in Configs \union {None} : ReadConfig(text)
  \/ \E i \in Positions, text \in {None} \union UNION {Torn(t) : t \in Statuses} : ReadStatus(i, text)

Spec == Init /\ [][Next]_vars

-----------------------------------------------------------------------------
TypeOK ==
  /\ phase \in {"verify", "sources", "parsed", "extract", "done", "raised"}
  /\ Len(readings.configs) <= Len(input.statuses)
  /\ DOMAIN readings.statuses \subseteq Positions
  /\ DOMAIN results \subseteq input.commands
  /\ phase = "done" => DOMAIN readings.statuses = Positions

\* The stem of a config's file name labels its rows, so nothing can be said of two
\* configs of one name in different directories: the one overwrites the other.
Distinct == \A j, k \in Positions : j # k => Labels(j) # Labels(k)

\* Every source has its row of up; a source that is down has no sample of its
\* status, but those of its config.
StatusCommands == Extractors \ {"up", "status_path", "config_number", "config_flag", "pool_size", "info"}
DownIsSilent ==
  phase = "done" /\ Distinct => \A k \in Positions :
    LET s == Source(k)
        down == readings.statuses[k].text = None
    IN /\ "up" \in input.commands =>
            /\ <<s.network, s.kind, s.cn>> \in DOMAIN results["up"]
            /\ results["up"][<<s.network, s.kind, s.cn>>] = IF down THEN 0 ELSE 1
       /\ "config_flag" \in input.commands => <<s.network, s.kind>> \in DOMAIN results["config_flag"]
       /\ down => \A c \in StatusCommands \intersect input.commands :
            ~\E l \in DOMAIN results[c] : l[1] = s.network /\ l[2] = s.kind

\* Configs and status files are paired by position, also when a config before is
\* skipped: the clients shown for a config's network are those of the status file at
\* the config's position.
PairedByPosition ==
  phase = "done" /\ Distinct /\ "connected_clients" \in input.commands =>
    \A i \in DOMAIN input.statuses \intersect DOMAIN input.configs :
      LET network == <<input.configs[i].stem, "server">>
          config == readings.configs[i]
      IN (/\ config # None /\ network \in DOMAIN results["connected_clients"]
          /\ config.version = 3 /\ config.server) =>
           \E j \in DOMAIN readings.statuses :
             LET status == readings.statuses[j]
             IN /\ status.path = input.statuses[i] /\ status.text # None
                /\ results["connected_clients"][network]
                     = Cardinality({n \in DOMAIN status.text : status.text[n].key = "CLIENT_LIST"})

\* A status file that is missing, of the other kind, or cut between two lines or in
\* one that is not a row of a table, does not fail the cycle.
OnlyRowsFail ==
  phase = "raised" /\ DOMAIN readings.statuses # {} =>
    LET text == readings.statuses[Last(DOMAIN readings.statuses)].text
    IN \E i \in DOMAIN text : Row(text[i]) /\ ~text[i].whole

-----------------------------------------------------------------------------
\* docs/handler-openvpn.md:33-35: "A missing or malformed status file reports
\* sms_openvpn_up 0.0 ...; the cycle still succeeds."
StatusFaultTolerated == phase = "raised" => DOMAIN readings.statuses = {}

=============================================================================
