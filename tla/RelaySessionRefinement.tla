------------------------ MODULE RelaySessionRefinement ------------------------
(***************************************************************************)
(* RelaySession implements SessionContract: the phase of a session is read *)
(* off the operation it waits for, and a relay's row is coarsened.         *)
(***************************************************************************)
EXTENDS RelaySession

Waits(s, stages) == \E o \in ops[s] : o.stage \in stages

PhaseOf(s) ==
  IF ~started[s] THEN "new"
  ELSE IF Waits(s, DialStages) THEN "dialing"
  ELSE IF Waits(s, {"write_req", "read"}) THEN "live"
  ELSE IF Waits(s, {"timer"}) THEN "backoff"
  ELSE "down"

Coarse(status) ==
  CASE status = "Disconnected" -> "disconnected"
    [] status = "Subscribed"   -> "subscribed"
    [] status = "Error"        -> "error"
    [] OTHER                   -> "dialing"

ShownOf(u) == IF u \in DOMAIN stats THEN Coarse(stats[u].status) ELSE "absent"

Contract == INSTANCE SessionContract WITH
  Budget <- kMaxReconnectAttempts,
  phase  <- [s \in Sessions |-> PhaseOf(s)],
  halted <- stopped,
  budget <- [s \in Sessions |-> kMaxReconnectAttempts - attempt[s]],
  shown  <- [u \in Urls |-> ShownOf(u)]

\* A session keeps its contract whatever the network does.
KeepsContract == Contract!Spec

=============================================================================
