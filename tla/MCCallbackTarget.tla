-------------------------- MODULE MCCallbackTarget --------------------------
(* Two workers, an outsider and a callback of each kind: Callback.cfg. *)
EXTENDS CallbackTarget
=============================================================================
