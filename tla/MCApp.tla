-------------------------------- MODULE MCApp --------------------------------
(* Values for the App runs.                                                 *)
EXTENDS App

CONSTANTS a, b

\* A log of two kinds of lines, and a search for one of them.
TwoLines == {<<a>>, <<b>>}

Line(name) == [name |-> name, arg |-> << >>]

LogCommands   == {Line("clearlogs"), Line("set follow"), Line("filter"), Line("relayinfo"),
                  [name |-> "filter", arg |-> <<a>>]}
RelayCommands == {Line("quit"), Line("copyrelay"), Line("auth"), [name |-> "auth", arg |-> <<a>>],
                  Line("set compact"), Line("set autocompact"), Line("set nofollow")}
AllCommands   == LogCommands \cup RelayCommands
=============================================================================
