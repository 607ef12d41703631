-------------------------------- MODULE MCDial --------------------------------
(***************************************************************************)
(* What a session computes before it dials: where to, and after which      *)
(* delay.  A state is one input of each, the initial states are all of     *)
(* them.                                                                   *)
(***************************************************************************)
EXTENDS RelaySessionSupport, RelayTarget

CONSTANTS
  MaxAttempt, Jitters,  \* inputs of the delay
  UrlCharacters,        \* characters after the scheme
  MaxRest               \* bound: how many of them

ASSUME DialAssumption == MaxRest \in Nat /\ MaxAttempt \in Nat /\ Jitters \subseteq 0..250

\* The source has six.  From the seventh attempt on every delay is the limit.
ASSUME BudgetAssumption == kMaxReconnectAttempts <= 7

VARIABLES delay, url

Delays   == [earlier : 0..MaxAttempt, later : 0..MaxAttempt, jitter : Jitters, jitter2 : Jitters]
UrlTexts == [scheme : Schemes, rest : UNION {[1..n -> UrlCharacters] : n \in 0..MaxRest}]

DialInit == delay \in Delays /\ url \in UrlTexts
DialNext == UNCHANGED <<delay, url>>
DialSpec == DialInit /\ [][DialNext]_<<delay, url>>

-----------------------------------------------------------------------------

Delay  == ReconnectDelayMs(delay.earlier, delay.jitter)
Delay2 == ReconnectDelayMs(delay.later, delay.jitter2)

\* 500 ms for the first attempt, twice as much for the next, 30 s at most.
Doubling[attempt \in Nat] ==
  IF attempt <= 1 THEN 500 ELSE Lesser(30000, 2 * Doubling[attempt - 1])

\* README.md:17, "exponential backoff and jitter": the delay doubles, the
\* jitter adds a quarter of a second at most, and no wait exceeds 30 seconds; so
\* within the retry budget a later attempt always waits longer than an earlier
\* one, whatever the jitters.
DelayBacksOff ==
  /\ Doubling[delay.earlier] <= Delay
  /\ Delay <= Lesser(30000, Doubling[delay.earlier] + 250)
  /\ delay.earlier < delay.later /\ {delay.earlier, delay.later} \subseteq 1..kMaxReconnectAttempts =>
       Delay < Delay2

-----------------------------------------------------------------------------

Dialed == ParseRelayUrl(url)

\* What stands between the scheme and the target: the host, and the port if it
\* is not the scheme's.
Authority ==
  {Dialed.host \o <<":">> \o Dialed.port}
    \cup (IF Dialed.port = DefaultPort(url.scheme) THEN {Dialed.host} ELSE {})

\* copilot-instructions.md:26, "Preserve full relay URLs": what ParseRelayUrl
\* takes apart is the whole URL again when put together, but for a slash that
\* is added where the path is missing; and it is taken apart at the right
\* places, so that no delimiter gets into the host or the port.
UrlPreserved ==
  Dialed.ok =>
    /\ Dialed.host # << >> /\ Positions(Dialed.host, {":", "/", "?"}) = {}
    /\ Positions(Dialed.port, {"/", "?"}) = {}
    /\ Dialed.target[1] = "/"
    /\ \E authority \in Authority :
         url.rest \in {authority \o Dialed.target, authority \o Tail(Dialed.target)}

=============================================================================
