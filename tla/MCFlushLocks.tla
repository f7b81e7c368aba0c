---------------------------- MODULE MCFlushLocks ----------------------------
(* FlushLocks on a small instance: model values for transactions and URLs. *)
EXTENDS FlushLocks

=============================================================================
