--------------------------------- MODULE App ---------------------------------
(***************************************************************************)
(* ui::App with its command processor: the modes, what each key does in    *)
(* them, and what a frame shows.                                           *)
(*                                                                         *)
(* Keys are handled on the UI thread.  Log lines and relay rows change at  *)
(* any time between two keys, by the other threads, and a frame is drawn   *)
(* after some keys and every quarter of a second: Render may run between   *)
(* any two keys, or not.  Relays are numbers, ordered as Snapshot sorts    *)
(* their URLs.  Keys without a meaning change nothing and are left out.    *)
(***************************************************************************)
EXTENDS Navigation, Viewport, SequencesExt

CONSTANTS
  Relays,         \* relays that may have a row, as numbers
  NoRelay,        \* no row is highlighted
  Lines,          \* log lines, as sequences of characters
  kMaxEntries,    \* log lines kept: 400 in the source
  Characters,     \* what may be typed into a search
  Texts,          \* what may be typed in Insert mode
  CommandLines,   \* what may be typed in Command mode
  LogLines,       \* lines of the log pane: 6 to 12, by terminal height
  MaxQuery,       \* kMaxInputLength, of a search
  MaxScroll       \* bound on the log's scroll position

Text    == [word : {"none", "npub", "nsec", "NSEC"}, padded : BOOLEAN]
NoText  == [word |-> "none", padded |-> FALSE]
NoCommand == [name |-> "", arg |-> << >>]

\* The bound on the scroll position leaves room for every line, and a filter is
\* as short as a search: both are cut at kMaxInputLength.
ASSUME AppAssumption ==
  /\ Relays \subseteq Nat /\ NoRelay \notin Relays
  /\ kMaxEntries \in Nat \ {0}
  /\ LogLines \subseteq Nat \ {0}
  /\ MaxQuery \in Nat /\ MaxScroll \in Nat /\ kMaxEntries <= MaxScroll
  /\ Texts \subseteq Text
  /\ \A line \in CommandLines :
       line.name = "filter" => line.arg \in Seq(Characters) /\ Len(line.arg) <= MaxQuery

VARIABLES
  mode,          \* mode_
  nav,           \* the fields the navigation functions share
  input,         \* input_npub_
  command_line,  \* command_line_
  compact,       \* compact_mode_
  log,           \* the LogBuffer
  rows,          \* relays with a row in RelayStats
  highlighted,   \* the relay highlighted in the last frame
  called,        \* the last callback, and with what
  running        \* the screen loop runs

vars == <<mode, nav, input, command_line, compact, log, rows, highlighted, called, running>>

\* The relays of the rows, in order.
Snapshot ==
  CHOOSE s \in [1..Cardinality(rows) -> rows] :
    \A i, j \in 1..Cardinality(rows) : i < j => s[i] < s[j]

\* NavigationState.
NavigationState ==
  [pane : {"relays", "logs"}, selected : Nat, scroll : Nat, follow : BOOLEAN,
   pending_g : BOOLEAN, query : Seq(Characters), ordinal : Nat]

\* The types of ui::App's members; the log pane never scrolls further than the bound.
TypeOK ==
  /\ mode \in {"normal", "insert", "search", "command"}
  /\ nav \in NavigationState /\ nav.scroll <= MaxScroll /\ Len(nav.query) <= MaxQuery
  /\ input \in Text /\ command_line \in CommandLines \cup {NoCommand}
  /\ compact \in {"auto", "compact", "wide"}
  /\ log \in Seq(Lines) /\ Len(log) <= kMaxEntries
  /\ rows \subseteq Relays /\ highlighted \in Relays \cup {NoRelay}
  /\ running \in BOOLEAN

Init ==
  /\ mode = "normal"
  /\ nav = [pane |-> "relays", selected |-> 0, scroll |-> 0, follow |-> TRUE,
            pending_g |-> FALSE, query |-> << >>, ordinal |-> 0]
  /\ input = NoText /\ command_line = NoCommand /\ compact = "auto"
  /\ log = << >> /\ rows = {} /\ highlighted = NoRelay
  /\ called = [to |-> "nobody", with |-> NoText]
  /\ running = TRUE

-----------------------------------------------------------------------------
(* The other threads.                                                      *)

\* Seeded bug: the oldest line is not dropped.
PushUnbounded(line, entries) == Append(entries, line)

\* LogBuffer::Push.
Push(line, entries) ==
  LET longer == Append(entries, line) IN
  IF Len(longer) > kMaxEntries THEN Tail(longer) ELSE longer

LineArrives ==
  /\ \E line \in Lines : log' = Push(line, log)
  /\ UNCHANGED <<mode, nav, input, command_line, compact, rows, highlighted, called, running>>

\* A relay gets a row, or a new submission resets the table.
RowsChange ==
  /\ \/ \E relay \in Relays \ rows : rows' = rows \cup {relay}
     \/ rows' = {}
  /\ UNCHANGED <<mode, nav, input, command_line, compact, log, highlighted, called, running>>

-----------------------------------------------------------------------------
(* Frames.                                                                 *)

Visible ==
  LET matches == FindLogMatches(log, nav.query) IN
  IF nav.query = << >> THEN log ELSE [k \in 1..Len(matches) |-> log[matches[k] + 1]]

ScrollFor(lines) == IF nav.follow THEN Less(Len(Visible), lines) ELSE nav.scroll

Shown(lines) == LogWindow(Len(Visible), lines, ScrollFor(lines))

ClampedSelection == IF rows = {} THEN nav.selected ELSE Least(nav.selected, Len(Snapshot) - 1)

Render(lines) ==
  /\ running
  /\ nav' = [nav EXCEPT !.scroll = ScrollFor(lines), !.selected = ClampedSelection]
  /\ highlighted' = IF rows = {} THEN NoRelay ELSE Snapshot[ClampedSelection + 1]
  /\ UNCHANGED <<mode, input, command_line, compact, log, rows, called, running>>

-----------------------------------------------------------------------------
(* Normal mode.                                                            *)

Normal == running /\ mode = "normal"

\* MaxScroll is a bound: in the code a scroll position that no frame has limited
\* yet may be any number.
Move(to) ==
  /\ Normal
  /\ to.scroll <= MaxScroll
  /\ nav' = [to EXCEPT !.pending_g = FALSE]
  /\ UNCHANGED <<mode, input, command_line, compact, log, rows, highlighted, called, running>>

Enter(m, to) ==
  /\ Normal
  /\ mode' = m
  /\ nav' = [to EXCEPT !.pending_g = FALSE]
  /\ UNCHANGED <<input, command_line, compact, log, rows, highlighted, called, running>>

PressI     == Enter("insert", nav)
PressColon == Enter("command", nav)
PressSlash == Enter("search", [nav EXCEPT !.pane = "logs", !.follow = FALSE])
PressH     == Move([nav EXCEPT !.pane = "relays"])
PressL     == Move([nav EXCEPT !.pane = "logs"])
PressF     == Move([nav EXCEPT !.follow = ~@])

PressG ==
  /\ Normal
  /\ nav' = IF nav.pending_g THEN JumpToTop(nav) ELSE [nav EXCEPT !.pending_g = TRUE]
  /\ UNCHANGED <<mode, input, command_line, compact, log, rows, highlighted, called, running>>

PressShiftG == Move(JumpToBottom(nav, Len(Snapshot), Len(log)))
Press0      == Move(JumpToPaneStart(nav))
PressDollar == Move(JumpToPaneEnd(nav, Len(Snapshot), Len(log)))
PressN(forward) == Move(AdvanceLogMatch(nav, log, forward))
PressJ      == Move(MoveSelectionDown(nav, Len(Snapshot)))
PressK      == Move(MoveSelectionUp(nav))
PressPageDown == Move(MovePageDown(nav, Len(Snapshot)))
PressPageUp   == Move(MovePageUp(nav))
PressEscape   == Move(nav)

-----------------------------------------------------------------------------
(* Search and Insert mode.                                                 *)

Searching(query, ordinal, next) ==
  /\ running /\ mode = "search"
  /\ mode' = next
  /\ nav' = [nav EXCEPT !.query = query, !.ordinal = ordinal,
                        !.pending_g = IF next = "normal" THEN FALSE ELSE @]
  /\ UNCHANGED <<input, command_line, compact, log, rows, highlighted, called, running>>

SearchType(c)   == Len(nav.query) < MaxQuery /\ Searching(Append(nav.query, c), nav.ordinal, "search")
SearchBackspace == nav.query # << >> /\ Searching(Front(nav.query), nav.ordinal, "search")
SearchReturn    == Searching(nav.query, 0, "normal")
SearchEscape    == Searching(nav.query, nav.ordinal, "normal")

\* Characters and backspaces, up to some text.
InsertType(text) ==
  /\ running /\ mode = "insert"
  /\ input' = text
  /\ UNCHANGED <<mode, nav, command_line, compact, log, rows, highlighted, called, running>>

\* Seeded bug: what was typed stays.
InsertEscapeKeeps ==
  /\ running /\ mode = "insert"
  /\ mode' = "normal"
  /\ nav' = [nav EXCEPT !.pending_g = FALSE]
  /\ UNCHANGED <<input, command_line, compact, log, rows, highlighted, called, running>>

InsertEscape ==
  /\ running /\ mode = "insert"
  /\ input' = NoText
  /\ mode' = "normal"
  /\ nav' = [nav EXCEPT !.pending_g = FALSE]
  /\ UNCHANGED <<command_line, compact, log, rows, highlighted, called, running>>

TrimCopy(text) == [text EXCEPT !.padded = FALSE]

\* Seeded bug: capitals are not looked at.
LooksLikeNsecInputLower(text) == ~text.padded /\ text.word = "nsec"

LooksLikeNsecInput(text) == ~text.padded /\ text.word \in {"nsec", "NSEC"}

InsertReturn ==
  LET submitted == TrimCopy(input) IN
  /\ running /\ mode = "insert"
  /\ called' = IF submitted.word = "none" THEN called
               ELSE [to   |-> IF LooksLikeNsecInput(submitted) THEN "on_auth" ELSE "on_submit",
                     with |-> submitted]
  /\ input' = NoText
  /\ mode' = "normal"
  /\ nav' = [nav EXCEPT !.pending_g = FALSE]
  /\ UNCHANGED <<command_line, compact, log, rows, highlighted, running>>

-----------------------------------------------------------------------------
(* Command mode.                                                           *)

CommandType(line) ==
  /\ running /\ mode = "command"
  /\ command_line' = line
  /\ UNCHANGED <<mode, nav, input, compact, log, rows, highlighted, called, running>>

LeaveCommandMode ==
  /\ running /\ mode = "command"
  /\ command_line' = NoCommand
  /\ mode' = "normal"
  /\ UNCHANGED <<input, rows, highlighted>>

CommandEscape ==
  /\ LeaveCommandMode
  /\ nav' = [nav EXCEPT !.pending_g = FALSE]
  /\ UNCHANGED <<compact, log, called, running>>

\* A command reports what it did, or why not, in one line.
Report(entries) == \E line \in Lines : log' = Push(line, entries)

SelectedRelay ==
  IF nav.selected < Len(Snapshot) THEN Snapshot[nav.selected + 1] ELSE NoRelay

\* The commands that change the navigation state.
NavAfter(line) ==
  CASE line.name = "clearlogs"    -> [nav EXCEPT !.scroll = 0, !.follow = TRUE]
    [] line.name = "set follow"   -> [nav EXCEPT !.follow = TRUE]
    [] line.name = "set nofollow" -> [nav EXCEPT !.follow = FALSE]
    [] line.name = "filter"       ->
         IF line.arg = << >> THEN [nav EXCEPT !.query = << >>, !.ordinal = 0]
         ELSE [nav EXCEPT !.query = line.arg, !.ordinal = 0, !.follow = FALSE]
    [] OTHER                      -> nav

CompactAfter(line) ==
  CASE line.name = "set compact"     -> "compact"
    [] line.name = "set nocompact"   -> "wide"
    [] line.name = "set autocompact" -> "auto"
    [] OTHER                         -> compact

CallAfter(line) ==
  CASE line.name = "quit"                            -> [to |-> "request_exit", with |-> NoText]
    [] line.name = "auth" /\ line.arg # << >>        -> [to |-> "on_auth", with |-> line.arg]
    [] line.name \in {"copyrelay", "relayinfo"} /\ SelectedRelay # NoRelay
                                                     -> [to |-> line.name, with |-> SelectedRelay]
    [] OTHER                                         -> called

\* ExecuteCommand; copylogs, wlogs, help and unknown commands only report, an
\* accepted auth does not even that, and neither does an empty line.
CommandReturn ==
  LET line == command_line IN
  /\ LeaveCommandMode
  /\ nav' = [NavAfter(line) EXCEPT !.pending_g = FALSE]
  /\ compact' = CompactAfter(line)
  /\ called' = CallAfter(line)
  /\ running' = (line.name # "quit")
  /\ \/ line.name = "clearlogs" /\ Report(<< >>)
     \/ line = NoCommand /\ UNCHANGED log
     \/ line.name = "auth" /\ line.arg # << >> /\ UNCHANGED log
     \/ /\ line.name \notin {"", "clearlogs"}
        /\ ~(line.name = "auth" /\ line.arg # << >>)
        /\ Report(log)

-----------------------------------------------------------------------------

Keys ==
  \/ PressI \/ PressColon \/ PressSlash \/ PressH \/ PressL \/ PressF \/ PressG
  \/ PressShiftG \/ Press0 \/ PressDollar \/ (\E forward \in BOOLEAN : PressN(forward))
  \/ PressJ \/ PressK \/ PressPageDown \/ PressPageUp \/ PressEscape
  \/ (\E c \in Characters : SearchType(c)) \/ SearchBackspace \/ SearchReturn \/ SearchEscape
  \/ (\E text \in Texts : InsertType(text)) \/ InsertEscape \/ InsertReturn
  \/ (\E line \in CommandLines : CommandType(line)) \/ CommandEscape \/ CommandReturn

Next == Keys \/ LineArrives \/ RowsChange \/ \E lines \in LogLines : Render(lines)

Spec == Init /\ [][Next]_vars

-----------------------------------------------------------------------------
(* Properties.                                                             *)

\* README.md:160, "transient input buffers are cleared after submission": what was
\* typed as a key or a command is gone once its mode is left, however it is left.
NoLingeringInput ==
  /\ mode # "insert" => input = NoText
  /\ mode # "command" => command_line = NoCommand

\* A private key typed in Insert mode goes to the key callback, never to the
\* one that takes public keys and reports what it cannot decode.
PrivateKeyGoesToAuth ==
  called.to = "on_submit" => called.with.word \notin {"nsec", "NSEC"}

MatchCount == Len(FindLogMatches(log, nav.query))

\* Pressing n, or N, as often as there are matches goes to every one of them,
\* although the log and the query may have changed since the ordinal was set.
EveryMatchIsReached ==
  nav.pane = "logs" =>
    \A forward \in BOOLEAN :
      LET after[k \in 0..MatchCount] ==
            IF k = 0 THEN nav ELSE AdvanceLogMatch(after[k - 1], log, forward)
      IN  {after[k].ordinal : k \in 1..MatchCount} = 0..MatchCount - 1

-----------------------------------------------------------------------------
(* What the README says of keys and commands, and the model refutes.        *)

\* README.md:118, "g then g: go to top": the next frame shows the first line of the log.
TopIsShown ==
  [][PressG /\ nav.pending_g /\ nav.pane = "logs" =>
       \A lines \in LogLines : Shown(lines)'.start = 0]_vars

\* README.md:121, "$: jump to end in focused pane": the next frame shows the last line.
EndIsShown ==
  [][PressDollar /\ nav.pane = "logs" =>
       \A lines \in LogLines : Shown(lines)'.end = Len(Visible)]_vars

\* README.md:134, "n: next match": the next frame shows the match, which is the line of the
\* ordinal among the visible lines, all of them matches.
NextMatchIsShown ==
  [][PressN(TRUE) /\ nav.pane = "logs" /\ MatchCount > 0 =>
       \A lines \in LogLines : nav'.ordinal \in Shown(lines)'.start..(Shown(lines)'.end - 1)]_vars

\* README.md:148, ":copyrelay - copy the selected relay URL": the relay that is copied is the
\* one the frame on the screen highlights.
CopiesTheHighlighted ==
  [][/\ command_line.name = "copyrelay" /\ rows # {} /\ highlighted # NoRelay
     /\ CommandReturn
     => called'.with = highlighted]_vars

=============================================================================
