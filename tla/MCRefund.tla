------------------------------ MODULE MCRefund ------------------------------
(* Refund.tla on one desk (MCRefund.cfg, MCRefundStuck.cfg) and on two     *)
(* (MCCodePaysTwice.cfg).  Refunds are interchangeable; symmetry is used   *)
(* for an invariant only.                                                  *)
EXTENDS Refund, TLC

Interchangeable == Permutations(Desk) \cup Permutations(Refund)
=============================================================================
