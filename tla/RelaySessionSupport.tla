------------------------- MODULE RelaySessionSupport -------------------------
(***************************************************************************)
(* net/relay_session_support: the decisions of a session that depend on    *)
(* nothing but their arguments.                                            *)
(***************************************************************************)
EXTENDS Integers

CONSTANT kMaxReconnectAttempts   \* reconnect attempts between two subscriptions

ASSUME AttemptsAssumption == kMaxReconnectAttempts \in Nat

-----------------------------------------------------------------------------
(* A text frame from the relay, as far as ParseRelayMessageEffect looks at  *)
(* it: whether it is a JSON array that starts with a string, that string,  *)
(* and whether a string follows it.                                        *)

Payload == [labelled : BOOLEAN, label : {"AUTH", "EVENT", "EOSE", "NOTICE"}, hasText : BOOLEAN]

RelayMessageEffect == {"Ignore", "AuthChallenge", "EventCount", "EndOfStoredEvents"}

ParseRelayMessageEffect(payload) ==
  CASE payload.labelled /\ payload.label = "AUTH" /\ payload.hasText -> "AuthChallenge"
    [] payload.labelled /\ payload.label = "EVENT"                   -> "EventCount"
    [] payload.labelled /\ payload.label = "EOSE"                    -> "EndOfStoredEvents"
    [] OTHER                                                         -> "Ignore"

-----------------------------------------------------------------------------

\* Seeded bugs: one attempt too many, and a failed connect taken for final.
ShouldReconnectAttemptOneMore(stopped, reconnect_attempt, where) ==
  /\ ~stopped
  /\ reconnect_attempt <= kMaxReconnectAttempts
  /\ where \in {"read", "resolve", "connect", "tls_handshake", "write_req"}

ShouldReconnectAttemptNotConnect(stopped, reconnect_attempt, where) ==
  /\ ~stopped
  /\ reconnect_attempt < kMaxReconnectAttempts
  /\ where \in {"read", "resolve", "tls_handshake", "write_req"}

\* The step `where` failed: is another attempt worth its while?
ShouldReconnectAttempt(stopped, reconnect_attempt, where) ==
  /\ ~stopped
  /\ reconnect_attempt < kMaxReconnectAttempts
  /\ where \in {"read", "resolve", "connect", "tls_handshake", "write_req"}

-----------------------------------------------------------------------------
(* The wait before a reconnect, with `jitter` drawn from 0..250.  The       *)
(* exponent is capped, so that the unsigned product never wraps.           *)

Lesser(a, b) == IF a < b THEN a ELSE b

\* Seeded bugs: a linear delay, and one that stops growing early.
ReconnectDelayMsLinear(attempt, jitter) ==
  Lesser(30000, 500 * (IF attempt > 0 THEN attempt ELSE 1) + jitter)

ReconnectDelayMsFlat(attempt, jitter) ==
  Lesser(30000, 500 * 2 ^ Lesser(IF attempt > 0 THEN attempt - 1 ELSE 0, 3) + jitter)

ReconnectDelayMs(attempt, jitter) ==
  Lesser(30000, 500 * 2 ^ Lesser(IF attempt > 0 THEN attempt - 1 ELSE 0, 8) + jitter)

=============================================================================
