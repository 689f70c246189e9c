---------------------------- MODULE MCApplyinator ----------------------------
(* Two workers and two or three keys: a key can be requested, queued,        *)
(* processed, failed and waiting for its retry at the same time.             *)
EXTENDS Applyinator

=============================================================================
