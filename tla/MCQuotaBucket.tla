--------------------------- MODULE MCQuotaBucket ----------------------------
(* A small instance of QuotaBucket.  Three requests in a second of five    *)
(* ticks do not divide evenly, so that every rounding shows; a call more   *)
(* than the bucket holds, so that one is refused.                          *)
EXTENDS QuotaBucket

MCRate == 3

MCUnit == 5
=============================================================================
