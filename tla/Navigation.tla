------------------------------ MODULE Navigation ------------------------------
(***************************************************************************)
(* ui::navigation_controller: what a key of Normal mode does to the        *)
(* navigation state, as functions of that state.  Characters stand for     *)
(* letters without their case, which the search ignores.                   *)
(***************************************************************************)
EXTENDS Integers, Sequences

CONSTANTS
  kLogPageLines,   \* lines of a log page: eight in the source
  kRelayPage,      \* rows of a relay page: five in the source
  kMatchContext    \* lines shown before a match: two in the source

ASSUME PageAssumption ==
  /\ kLogPageLines \in Nat \ {0} /\ kRelayPage \in Nat \ {0} /\ kMatchContext \in Nat

Less(a, b) == IF a > b THEN a - b ELSE 0

Occurs(query, line) ==
  \E i \in 0..Len(line) - Len(query) : SubSeq(line, i + 1, i + Len(query)) = query

\* The indices of the matching lines, from 0, in order.
FindLogMatches(log, query) ==
  LET upTo[n \in 0..Len(log)] ==
        IF n = 0 \/ query = << >> THEN << >>
        ELSE IF Occurs(query, log[n]) THEN Append(upTo[n - 1], n - 1) ELSE upTo[n - 1]
  IN  upTo[Len(log)]

-----------------------------------------------------------------------------

JumpToTop(nav) == [nav EXCEPT !.selected = 0, !.scroll = 0, !.pending_g = FALSE]

JumpToBottom(nav, relays, lines) ==
  IF nav.pane = "relays"
  THEN [nav EXCEPT !.selected = IF relays > 0 THEN relays - 1 ELSE @]
  ELSE [nav EXCEPT !.scroll = IF lines > kLogPageLines THEN lines - kLogPageLines ELSE @]

JumpToPaneStart(nav) ==
  IF nav.pane = "relays" THEN [nav EXCEPT !.selected = 0]
  ELSE [nav EXCEPT !.scroll = 0, !.follow = FALSE]

JumpToPaneEnd(nav, relays, lines) ==
  IF nav.pane = "relays"
  THEN [nav EXCEPT !.selected = IF relays > 0 THEN relays - 1 ELSE @]
  ELSE [nav EXCEPT !.scroll = Less(lines, kLogPageLines), !.follow = FALSE]

MoveSelectionDown(nav, relays) ==
  IF nav.pane = "relays"
  THEN [nav EXCEPT !.selected = IF @ + 1 < relays THEN @ + 1 ELSE @]
  ELSE [nav EXCEPT !.scroll = @ + 1, !.follow = FALSE]

MoveSelectionUp(nav) ==
  IF nav.pane = "relays" THEN [nav EXCEPT !.selected = Less(@, 1)]
  ELSE [nav EXCEPT !.scroll = Less(@, 1), !.follow = FALSE]

MovePageDown(nav, relays) ==
  IF nav.pane = "logs" THEN [nav EXCEPT !.scroll = @ + kLogPageLines, !.follow = FALSE]
  ELSE IF relays = 0 THEN nav
  ELSE [nav EXCEPT !.selected = IF @ + kRelayPage < relays - 1 THEN @ + kRelayPage ELSE relays - 1]

MovePageUp(nav) ==
  IF nav.pane = "logs" THEN [nav EXCEPT !.scroll = Less(@, kLogPageLines), !.follow = FALSE]
  ELSE [nav EXCEPT !.selected = Less(@, kRelayPage)]

\* Seeded bug: the ordinal does not wrap around.
AdvanceLogMatchNoWrap(nav, log, forward) ==
  LET matches == FindLogMatches(log, nav.query)
      n       == Len(matches)
      ordinal == IF forward THEN nav.ordinal + 1 ELSE (nav.ordinal + n - 1) % n
  IN
  IF nav.pane # "logs" \/ n = 0 THEN nav
  ELSE [nav EXCEPT !.ordinal = ordinal, !.follow = FALSE,
                   !.scroll = IF ordinal < n THEN Less(matches[ordinal + 1], kMatchContext) ELSE @]

AdvanceLogMatch(nav, log, forward) ==
  LET matches == FindLogMatches(log, nav.query)
      n       == Len(matches)
      ordinal == (nav.ordinal + (IF forward THEN 1 ELSE n - 1)) % n
  IN
  IF nav.pane # "logs" \/ n = 0 THEN nav
  ELSE [nav EXCEPT !.ordinal = ordinal, !.follow = FALSE,
                   !.scroll = Less(matches[ordinal + 1], kMatchContext)]

=============================================================================
