------------------------------ MODULE MCViewport ------------------------------
(***************************************************************************)
(* The arithmetic of Viewport over all small inputs: each initial state is *)
(* one input.                                                              *)
(***************************************************************************)
EXTENDS Viewport

CONSTANTS MaxTotal, MaxRows

ASSUME InputAssumption == MaxTotal \in Nat /\ MaxRows \in Nat

VARIABLE input

Inputs == [total : 0..MaxTotal, chosen : 0..MaxTotal + 3, rows : 0..MaxRows]

Init == input \in Inputs
Next == UNCHANGED input
Spec == Init /\ [][Next]_input

Window == RelayListViewport(input.total, input.chosen, input.rows)

\* A relay table with rows shows its selected row, the last one if the
\* selection is past the end, and fills its window.
SelectedRowShown ==
  input.total > 0 =>
    /\ Window.start <= Least(input.chosen, input.total - 1)
    /\ Least(input.chosen, input.total - 1) < Window.end
    /\ Window.end <= input.total
    /\ Window.end - Window.start =
         IF input.rows = 0 THEN input.total ELSE Least(input.rows, input.total)

Lines == LogWindow(input.total, input.rows, input.chosen)

\* The log shows as many lines as fit, all of them lines there are.
LogWindowFull ==
  /\ 0 <= Lines.start /\ Lines.end <= input.total
  /\ Lines.end - Lines.start = Least(input.rows, input.total)

Thumb    == ScrollThumb(input.total, Lines.start, input.rows, input.rows)
BarCells == 4 + 2 * (Window.end - Window.start)
RowThumb == ScrollThumb(input.total, Window.start, input.rows, BarCells)

InBar(thumb, height) == thumb.size >= 1 /\ thumb.pos >= 0 /\ thumb.pos + thumb.size <= height

\* The thumb of either scroll bar never leaves its bar; that of the log is at
\* the top when the first line is shown, and at the bottom when the last is.
ThumbTellsPosition ==
  input.rows > 0 =>
    /\ InBar(Thumb, input.rows) /\ InBar(RowThumb, BarCells)
    /\ Lines.start = 0 => Thumb.pos = 0
    /\ Lines.end = input.total => Thumb.pos + Thumb.size = input.rows

=============================================================================
