----------------------------- MODULE RelayTarget -----------------------------
(***************************************************************************)
(* net/relay_target: what is dialled for a relay URL.                      *)
(*                                                                         *)
(* A URL is its scheme and the characters after it; a character that is no *)
(* delimiter may stand for a whole name.                                   *)
(***************************************************************************)
EXTENDS Sequences, Integers

Schemes == {"wss", "ws", "other"}

\* The first position of a character of `chars` in `s`, if there is one.
Positions(s, chars) == {i \in 1..Len(s) : s[i] \in chars}
FirstOf(positions)  == CHOOSE i \in positions : \A j \in positions : i <= j

\* Seeded bug: a query without a path is taken for a path.
SplitRelayHostAndTargetBare(relay) ==
  LET cuts == Positions(relay, {"/", "?"})
      cut  == FirstOf(cuts)
  IN
  IF cuts = {} THEN [host |-> relay, target |-> <<"/">>]
  ELSE [host |-> SubSeq(relay, 1, cut - 1), target |-> SubSeq(relay, cut, Len(relay))]

SplitRelayHostAndTarget(relay) ==
  LET cuts == Positions(relay, {"/", "?"})
      cut  == FirstOf(cuts)
      rest == SubSeq(relay, cut, Len(relay))
  IN
  IF cuts = {} THEN [host |-> relay, target |-> <<"/">>]
  ELSE [host   |-> SubSeq(relay, 1, cut - 1),
        target |-> IF relay[cut] = "?" THEN <<"/">> \o rest ELSE rest]

DefaultPort(scheme) == IF scheme = "wss" THEN <<"443">> ELSE <<"80">>

\* Without a scheme of WebSocket or a host there is nothing to dial.
NoTarget == [ok |-> FALSE, secure |-> FALSE, host |-> << >>, port |-> << >>, target |-> << >>]

\* Seeded bug: the port is looked for in the whole of the rest.
ParseRelayUrlLate(url) ==
  LET colons == Positions(url.rest, {":"})
      colon  == FirstOf(colons)
      split  == SplitRelayHostAndTarget(url.rest)
      host   == IF colons = {} THEN split.host ELSE SubSeq(url.rest, 1, colon - 1)
      port   == IF colons = {} THEN DefaultPort(url.scheme)
                ELSE SubSeq(split.host, colon + 1, Len(split.host))
  IN
  IF url.scheme \notin {"wss", "ws"} \/ host = << >> THEN NoTarget
  ELSE [ok |-> TRUE, secure |-> url.scheme = "wss", host |-> host, port |-> port,
        target |-> split.target]

ParseRelayUrl(url) ==
  LET split  == SplitRelayHostAndTarget(url.rest)
      colons == Positions(split.host, {":"})
      colon  == FirstOf(colons)
      host   == IF colons = {} THEN split.host ELSE SubSeq(split.host, 1, colon - 1)
      port   == IF colons = {} THEN DefaultPort(url.scheme)
                ELSE SubSeq(split.host, colon + 1, Len(split.host))
  IN
  IF url.scheme \notin {"wss", "ws"} \/ host = << >> THEN NoTarget
  ELSE [ok |-> TRUE, secure |-> url.scheme = "wss", host |-> host, port |-> port,
        target |-> split.target]

=============================================================================
