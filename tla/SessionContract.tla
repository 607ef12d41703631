--------------------------- MODULE SessionContract ---------------------------
(***************************************************************************)
(* What a relay session promises to the code that starts and stops it,     *)
(* without DNS, TCP, TLS, timers and completions: it dials, it is live, it *)
(* waits to dial again while its budget lasts, or it is down.  The row of  *)
(* its relay follows, as far as the user tells states apart.               *)
(*                                                                         *)
(* RelaySessionRefinement shows that RelaySession implements this module;  *)
(* Monitor composes many of these sessions with the program around them.   *)
(***************************************************************************)
EXTENDS Integers

CONSTANTS Sessions, Urls, UrlOf, Budget

VARIABLES
  phase,     \* "new", "dialing", "live", "backoff" or "down"
  halted,    \* Stop has run
  budget,    \* retries left
  closing,   \* a closing handshake is under way
  shown      \* the row of each relay, "absent" when there is none

vars == <<phase, halted, budget, closing, shown>>

Phases == {"new", "dialing", "live", "backoff", "down"}
Shown  == {"absent", "disconnected", "dialing", "subscribed", "error"}

\* The types of what a session promises.
TypeOK ==
  /\ phase \in [Sessions -> Phases]
  /\ halted \in [Sessions -> BOOLEAN]
  /\ budget \in [Sessions -> 0..Budget]
  /\ closing \in [Sessions -> BOOLEAN]
  /\ shown \in [Urls -> Shown]

Init ==
  /\ phase = [s \in Sessions |-> "new"]
  /\ halted = [s \in Sessions |-> FALSE]
  /\ budget = [s \in Sessions |-> Budget]
  /\ closing = [s \in Sessions |-> FALSE]
  /\ shown = [u \in Urls |-> "absent"]

Enter(s, p) == phase' = [phase EXCEPT ![s] = p]
Show(s, v)  == shown' = [shown EXCEPT ![UrlOf[s]] = v]

\* Counting something on a relay without a row makes a row.
Touch(s) ==
  Show(s, IF shown[UrlOf[s]] = "absent" THEN "disconnected" ELSE shown[UrlOf[s]])

-----------------------------------------------------------------------------

Launch(s) ==
  /\ phase[s] = "new"
  /\ \/ Enter(s, "dialing") /\ Show(s, "dialing")
     \/ Enter(s, "down") /\ Show(s, "error")
  /\ halted' = [halted EXCEPT ![s] = FALSE]
  /\ UNCHANGED <<budget, closing>>

\* The dial gets a stage further.
Advance(s) ==
  /\ phase[s] = "dialing"
  /\ Show(s, "dialing")
  /\ UNCHANGED <<phase, halted, budget, closing>>

Subscribe(s) ==
  /\ phase[s] = "dialing"
  /\ Enter(s, "live") /\ Show(s, "subscribed")
  /\ budget' = [budget EXCEPT ![s] = Budget]
  /\ UNCHANGED <<halted, closing>>

\* A frame from the relay; the frame a halted session reads is its last.
Frame(s) ==
  /\ phase[s] = "live"
  /\ IF halted[s] THEN Enter(s, "down") ELSE UNCHANGED phase
  /\ Touch(s) \/ UNCHANGED shown
  /\ UNCHANGED <<halted, budget, closing>>

Capabilities(s) ==
  /\ phase[s] # "new" /\ ~halted[s]
  /\ Touch(s)
  /\ UNCHANGED <<phase, halted, budget, closing>>

Fail(s) ==
  /\ phase[s] \in {"dialing", "live"}
  /\ Show(s, "error")
  /\ \/ /\ ~halted[s] /\ budget[s] > 0
        /\ Enter(s, "backoff")
        /\ budget' = [budget EXCEPT ![s] = @ - 1]
     \/ Enter(s, "down") /\ UNCHANGED budget
  /\ UNCHANGED <<halted, closing>>

Redial(s) ==
  /\ phase[s] = "backoff"
  /\ IF halted[s] THEN Enter(s, "down") /\ UNCHANGED shown
     ELSE Enter(s, "dialing") /\ Show(s, "dialing")
  /\ UNCHANGED <<halted, budget, closing>>

\* Stop, which may come before the start and may come again.  A stream that is
\* or was live is closed by a handshake.
Halt(s) ==
  /\ halted' = [halted EXCEPT ![s] = TRUE]
  /\ \/ /\ phase[s] \notin {"new", "dialing"}
        /\ closing' = [closing EXCEPT ![s] = TRUE]
        /\ UNCHANGED shown
     \/ /\ phase[s] # "live" \/ halted[s]
        /\ Show(s, "disconnected")
        /\ UNCHANGED closing
  /\ UNCHANGED <<phase, budget>>

CloseEnds(s) ==
  /\ closing[s]
  /\ closing' = [closing EXCEPT ![s] = FALSE]
  /\ Show(s, "disconnected")
  /\ UNCHANGED <<phase, halted, budget>>

\* The table is emptied for a new submission.
Clear ==
  /\ shown' = [u \in Urls |-> "absent"]
  /\ UNCHANGED <<phase, halted, budget, closing>>

SessionStep(s) ==
  \/ Advance(s) \/ Subscribe(s) \/ Frame(s) \/ Capabilities(s)
  \/ Fail(s) \/ Redial(s) \/ CloseEnds(s)

Next == Clear \/ \E s \in Sessions : Launch(s) \/ Halt(s) \/ SessionStep(s)

Spec == Init /\ [][Next]_vars

=============================================================================
