------------------------------ MODULE MCSegLog ------------------------------
(***************************************************************************)
(* SegLog for TLC: two partitions in one shared log.  A failure that tears *)
(* a line or splits a seal leaves something behind that recovery does not  *)
(* clean up, so in the passing run only the last failure may do it; the    *)
(* other plans let it be the first.                                        *)
(***************************************************************************)
EXTENDS SegLog

CONSTANTS p1, p2

Failure(torn, split) == [torn |-> torn, split |-> split]

CleanThenAny == <<Failure(FALSE, FALSE), Failure(TRUE, TRUE)>>
TornFirst    == <<Failure(TRUE, FALSE), Failure(FALSE, FALSE)>>
SplitFirst   == <<Failure(FALSE, TRUE), Failure(FALSE, FALSE), Failure(FALSE, FALSE)>>
=============================================================================
