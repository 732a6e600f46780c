----------------------------- MODULE MCRuntime -----------------------------
(***************************************************************************)
(* Small instances of Runtime for TLC: the builtin handler and one more,   *)
(* one series that both configs may declare, one client, and three calls   *)
(* of scrape_once, which is what a leftover write, the cycle that follows  *)
(* it and a restart need.                                                  *)
(***************************************************************************)
EXTENDS Runtime

CONSTANTS builtin, bash, series, c1

MCHandlers == {builtin, bash}
MCSeries   == {series}
MCClients  == {c1}
=============================================================================
