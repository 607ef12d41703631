------------------------------- MODULE Viewport -------------------------------
(***************************************************************************)
(* ui::ui_renderer: which rows of the relay table and which lines of the   *)
(* log stream a frame shows, and where the thumb of a scroll bar is.       *)
(* Indices count from 0, as in the source; a window is [start, end).       *)
(***************************************************************************)
EXTENDS Integers

Least(a, b)    == IF a < b THEN a ELSE b
Greatest(a, b) == IF a > b THEN a ELSE b

\* Seeded bug: the window is not moved back at the end of the list.
RelayListViewportNoClamp(total, selected, rows) ==
  IF total = 0 THEN [start |-> 0, end |-> 0]
  ELSE
    LET visible == IF rows = 0 THEN total ELSE Least(rows, total)
        offset  == IF visible > 2 THEN visible \div 2 ELSE 0
        chosen  == Least(selected, total - 1)
        start   == IF chosen > offset THEN chosen - offset ELSE 0
    IN [start |-> start, end |-> start + visible]

\* ComputeRelayListViewport: the selected row in the middle, where possible.
RelayListViewport(total, selected, rows) ==
  IF total = 0 THEN [start |-> 0, end |-> 0]
  ELSE
    LET visible == IF rows = 0 THEN total ELSE Least(rows, total)
        offset  == IF visible > 2 THEN visible \div 2 ELSE 0
        chosen  == Least(selected, total - 1)
        centred == IF chosen > offset THEN chosen - offset ELSE 0
        start   == IF centred + visible > total THEN total - visible ELSE centred
    IN [start |-> start, end |-> start + visible]

\* Seeded bug: the scroll position is not limited.
LogWindowNoClamp(total, lines, scroll) ==
  [start |-> IF total > lines THEN scroll ELSE 0,
   end   |-> Least(total, (IF total > lines THEN scroll ELSE 0) + lines)]

\* RenderLogs: the lines shown for a scroll position that may be too large.
LogWindow(total, lines, scroll) ==
  LET start == IF total > lines THEN Least(scroll, total - lines) ELSE 0
  IN  [start |-> start, end |-> Least(total, start + lines)]

\* Seeded bug: the track is as long as the bar.
ScrollThumbFullTrack(total, first, visible, height) ==
  IF total > 0 /\ visible > 0 /\ total > visible
  THEN [size |-> Greatest(1, (height * visible) \div total),
        pos  |-> (height * first) \div (total - visible)]
  ELSE [size |-> height, pos |-> 0]

\* RenderVerticalScrollBar, for a bar of at least one cell.
ScrollThumb(total, first, visible, height) ==
  IF total > 0 /\ visible > 0 /\ total > visible
  THEN LET size == Greatest(1, (height * visible) \div total)
       IN  [size |-> size, pos |-> ((height - size) * first) \div (total - visible)]
  ELSE [size |-> height, pos |-> 0]

=============================================================================
