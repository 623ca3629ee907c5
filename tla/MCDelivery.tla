----------------------------- MODULE MCDelivery -----------------------------
(* Small instances of Delivery.                                            *)
EXTENDS Delivery, TLC

(* A gateway's answer that is repeated, and one that is not although the   *)
(* policy names it.                                                        *)
MCStatuses == {425, 503}

Symmetry == Permutations(Workers)
=============================================================================
