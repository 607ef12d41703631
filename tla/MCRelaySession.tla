---------------------------- MODULE MCRelaySession ----------------------------
(***************************************************************************)
(* Instances of RelaySession for TLC.                                      *)
(***************************************************************************)
EXTENDS RelaySession

CONSTANTS u1, u2, u3, s1, s2, s3

\* One URL for all sessions, or one for each.
OneUrl  == [s \in Sessions |-> u1]
OwnUrls == [s \in Sessions |-> CASE s = s1 -> u1 [] s = s2 -> u2 [] s = s3 -> u3]

\* Every URL can be monitored, or all but one.
AllSecure == [u \in Urls |-> "secure"]
TwoSecure == [u \in Urls |-> IF u = u3 THEN "insecure" ELSE "secure"]

\* A frame of each effect, and one that has none.
Frames == {[labelled |-> TRUE, label |-> l, hasText |-> TRUE] :
             l \in {"AUTH", "EVENT", "EOSE", "NOTICE"}}

\* The frames that change nothing but the chain.
QuietFrames == {[labelled |-> FALSE, label |-> "NOTICE", hasText |-> FALSE]}

\* Frames that count, and frames that do not.
CountedFrames == {f \in Frames : f.label \in {"EVENT", "NOTICE"}}

SomeNips == {{1, 11, 42}}
OneSample == {120}

=============================================================================
