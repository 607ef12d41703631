----------------------------- MODULE MCFunctions -----------------------------
(***************************************************************************)
(* The functions without a state of their own, over all small inputs: an   *)
(* initial state is one input of one of them.                              *)
(***************************************************************************)
EXTENDS MCViewport, MCDial

NoInput == [total |-> 0, chosen |-> 0, rows |-> 0]
NoDelay == [earlier |-> 0, later |-> 0, jitter |-> 0, jitter2 |-> 0]
NoUrl   == [scheme |-> "other", rest |-> << >>]

FunctionsInit ==
  \/ input \in Inputs  /\ delay = NoDelay    /\ url = NoUrl
  \/ input = NoInput   /\ delay \in Delays   /\ url = NoUrl
  \/ input = NoInput   /\ delay = NoDelay    /\ url \in UrlTexts

FunctionsNext == Next /\ DialNext

FunctionsSpec == FunctionsInit /\ [][FunctionsNext]_<<input, delay, url>>

=============================================================================
