----------------------- MODULE MCRelaySessionRefinement -----------------------
(***************************************************************************)
(* The instance of RelaySessionRefinement for TLC: two sessions that share *)
(* a relay, as an old and a new session do after the user changes the key. *)
(***************************************************************************)
EXTENDS RelaySessionRefinement, MCRelaySession
=============================================================================
