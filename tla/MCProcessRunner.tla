--------------------------- MODULE MCProcessRunner ---------------------------
(***************************************************************************)
(* Two commands for TLC. They share only gather() and the cancellation, so *)
(* a third, or a second that may run as another user, would add nothing    *)
(* but states.                                                             *)
(***************************************************************************)
EXTENDS ProcessRunner

CONSTANTS who, df

MCCmds     == {who, df}
MCElevated == {df}
=============================================================================
