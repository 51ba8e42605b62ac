------------------------------- MODULE MCPoller ------------------------------
(* Small instances of the poller: pages of one or two entries, a cap of two *)
(* or three pages, up to five members.                                      *)
EXTENDS Poller
=============================================================================
