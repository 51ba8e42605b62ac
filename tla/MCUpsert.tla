------------------------------ MODULE MCUpsert -------------------------------
(* A small instance of the store: two authors, printed in order, or with one *)
(* of them named twice and out of order.                                     *)
EXTENDS Upsert

Bylines == {<<1, 2>>, <<2, 1, 2>>}
=============================================================================
