--------------------------- MODULE MCHandlerSupport ---------------------------
(***************************************************************************)
(* Two metrics, one of which may be named like another's sum; lists of at  *)
(* most two bounds, one of them not a quantile; outputs of up to four      *)
(* lines: enough for a histogram of two buckets, and for a histogram of    *)
(* one bucket and a line too many.                                         *)
(***************************************************************************)
EXTENDS HandlerSupport

MCNames  == {<<"foo">>, <<"foo", "sum">>}
MCBounds == {5, 10}
MCValues == {-1, 1, 2}

=============================================================================
