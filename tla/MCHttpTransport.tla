--------------------------- MODULE MCHttpTransport ---------------------------
(* Small instances of HttpTransport.                                       *)
EXTENDS HttpTransport, TLC

(* 409 among the codes to retry: it is a conflict all the same.            *)
MCRetryable == {409, 503}

CONSTANTS c1, c2

(* The second caller has no operator token.                                *)
MCCalls == {c1, c2}
MCHeld == (c1 :> {"sdk", "operator"}) @@ (c2 :> {"sdk"})
=============================================================================
