----------------------------- MODULE MCCollectors ------------------------------
(***************************************************************************)
(* Builtin: every single metric, every pair of metrics of one source, the  *)
(* whole memory, disk and users families, pairs of two sources, and        *)
(* configs verify() rejects. AmdGpu: outputs of up to three entries.       *)
(* OpenVpn: up to two sources, with a config too few or too many, statuses *)
(* cut at every place.                                                     *)
(***************************************************************************)
EXTENDS Collectors, FiniteSets

Metric(s, i) == [source |-> s, item |-> i, scalar |-> TRUE]
Of(s, items) == {Metric(s, i) : i \in items}
Commands ==
  Of("runtime", {"requests", "scrapes", "scrape"}) \union Of("timings", {"Bash", "Gone"})
  \union Of("users", {"count", "sessions", "by_user"}) \union Of("load", {"load1", "load15"})
  \union Of("memory", {"total", "available", "used"})
  \union Of("disk", {"total", "available", "used"})
  \union Of("network", {"received", "transmitted"})
  \union {Metric(s, "all") : s \in {"processes", "packages", "reboot", "cpus", "unknown"}}

\* Metrics are named by their commands, but for two of one command.
Named(S) == [m \in S |-> m]
Light == {c \in Commands : c.source \in {"runtime", "timings", "users", "processes", "reboot", "cpus", "unknown"}}
Small == {c \in Commands : c.source \in {"processes", "cpus"}}
MCBuiltinConfigs ==
  {Named({})} \union {Named({c}) : c \in Commands} \union {Named({c, d}) : c \in Light, d \in Small}
  \union {Named({c \in Commands : c.source = s}) :
            s \in {"users", "memory", "disk", "network", "load", "runtime"}}
  \union {Named({Metric("users", "count"), Metric("users", "by_user"), Metric("processes", "all")})}
  \union {[n \in {Metric("packages", "all"), Metric("cpus", "all")} |-> Metric("packages", "all")],
          Named({[Metric("cpus", "all") EXCEPT !.scalar = FALSE]})}

MCAmdConfigs == {{}, {"up"}, {"up", "throttled", "column"}, {"up", "unknown"}}

Path(d, s) == [dir |-> d, stem |-> s]
MCPaths ==
  {[configs |-> c, statuses |-> s] :
     c \in {<<>>, <<Path(1, "a")>>, <<Path(1, "a"), Path(1, "b")>>, <<Path(1, "a"), Path(2, "a")>>},
     s \in {<<>>, <<Path(3, "s")>>, <<Path(3, "s"), Path(3, "t")>>}}
MCVpnConfigs ==
  {[version |-> 3, server |-> TRUE,  cn |-> "", port |-> 1, flag |-> TRUE, pool |-> <<2, 5>>],
   [version |-> 3, server |-> FALSE, cn |-> "barbossa", port |-> None, flag |-> FALSE, pool |-> None],
   [version |-> 2, server |-> TRUE,  cn |-> "", port |-> 1, flag |-> FALSE, pool |-> None]}
Line(k, t, n, v) == [key |-> k, table |-> t, name |-> n, value |-> v, whole |-> TRUE]
Header(t) == Line("HEADER", t, None, None)
MCStatuses ==
  {<<Line("TIME", None, None, 1), Header("CLIENT_LIST"), Line("CLIENT_LIST", None, "a", 1),
     Line("CLIENT_LIST", None, "a", 2), Header("ROUTING_TABLE"), Line("ROUTING_TABLE", None, "a", None),
     Line("GLOBAL_STATS", None, None, 2)>>,
   <<Line("Updated", None, None, 1), Line("read bytes", None, None, 2)>>}
VpnAll == {"up", "status_path", "status_update_time", "connected_clients", "client_counter",
           "server_client", "route", "max_queue", "config_number", "config_flag", "pool_size", "info"}
MCVpnCommands == {VpnAll, VpnAll \union {"unknown"}}

===============================================================================
