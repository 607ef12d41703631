------------------------------- MODULE Bootstrap -------------------------------
(***************************************************************************)
(* net::BootstrapClient: one job of the worker pool, which asks a seed     *)
(* relay for the relay list of a pubkey and goes on to the next seed when  *)
(* that fails.                                                             *)
(*                                                                         *)
(* Every network call of the job is synchronous: resolve, connect and the  *)
(* handshakes ("dial"), writing a REQ ("request"), waiting for a frame     *)
(* ("read"), the closing handshake ("close").  Each may throw, which ends  *)
(* the seed, except the last, which takes an error code.  None of them has *)
(* a deadline: expires_after limits asynchronous calls only.  The eight    *)
(* seconds of a query are looked at between two frames ("check").          *)
(***************************************************************************)
EXTENDS RelayTarget, SequencesExt

CONSTANTS
  Urls,           \* strings a relay or the caller may name as relays
  Primaries,      \* what the caller may pass as the first seed
  WellKnown,      \* the seeds tried after it, in order
  FallbackRelays, \* the fallback set, next to the seed itself
  Events,         \* relay list events a relay may send
  MaxAnswers      \* bound: EVENT frames over the whole job

ASSUME BootstrapAssumption ==
  /\ \A u \in Urls : u.scheme \in Schemes /\ DOMAIN u.rest = 1..Len(u.rest)
  /\ Primaries \subseteq Urls
  /\ WellKnown \in Seq(Urls)
  /\ FallbackRelays \in Seq({u \in Urls : ParseRelayUrl(u).secure}) /\ FallbackRelays # << >>
  /\ \A event \in Events : event.r_tags \in Seq(Urls) /\ event.content \in Seq(Urls)
  /\ MaxAnswers \in Nat

Kinds == {"10002", "3"}

VARIABLES
  at,          \* where the job is
  pubkey,      \* whether a pubkey was given
  primary,     \* seed_relay_url
  seed,        \* index of the seed that is asked
  kind,        \* kind of the query
  expired,     \* the query has lasted eight seconds
  relay_urls,  \* collected by the query
  result,      \* the BootstrapResult so far
  answers      \* history: the EVENT frames read, with the query that read them

vars == <<at, pubkey, primary, seed, kind, expired, relay_urls, result, answers>>

Candidates == <<primary>> \o WellKnown

Waits == {"dial", "request", "read", "close"}

Answer == [seed : Nat, during : Kinds, sub : Kinds, event : Events]

\* The types of ResolveRelaysForPubkey's state: the index of the seed that is asked
\* never leaves the list of candidates.
TypeOK ==
  /\ at \in Waits \cup {"check", "posted"}
  /\ pubkey \in BOOLEAN
  /\ primary \in Primaries
  /\ seed \in 1..Len(Candidates)
  /\ kind \in Kinds
  /\ expired \in BOOLEAN
  /\ relay_urls \in Seq(Urls)
  /\ result.ok \in BOOLEAN /\ result.source \in Kinds \cup {"none", "fallback"}
  /\ result.relay_urls \in Seq(Urls)
  /\ answers \in Seq(Answer) /\ Len(answers) <= MaxAnswers

NoResult == [ok |-> FALSE, source |-> "none", relay_urls |-> << >>]

Init ==
  /\ at = "dial"
  /\ pubkey \in BOOLEAN
  /\ primary \in Primaries
  /\ seed = 1 /\ kind = "10002" /\ expired = FALSE
  /\ relay_urls = << >> /\ result = NoResult /\ answers = << >>

-----------------------------------------------------------------------------
(* Relay lists.                                                            *)

Targets == [u \in Urls |-> ParseRelayUrl(u)]

IsRelayUrlLike(u) == u.scheme \in {"wss", "ws"}
Parses(u)         == Targets[u].ok
Secure(u)         == Targets[u].secure

\* The loops that push each value they want to the back of a vector.
Kept(values, wanted) ==
  LET upTo[n \in 0..Len(values)] ==
        IF n = 0 THEN << >>
        ELSE IF values[n] \in wanted THEN Append(upTo[n - 1], values[n]) ELSE upTo[n - 1]
  IN upTo[Len(values)]

\* The "r" tags, then the keys or strings of a JSON content.
ExtractRelayUrlsFromEvent(event) ==
  Kept(event.r_tags \o event.content, {u \in Urls : IsRelayUrlLike(u)})

Deduplicate(values) ==
  LET upTo[n \in 0..Len(values)] ==
        IF n = 0 THEN << >>
        ELSE IF Parses(values[n]) /\ ~Contains(upTo[n - 1], values[n])
             THEN Append(upTo[n - 1], values[n]) ELSE upTo[n - 1]
  IN upTo[Len(values)]

\* Seeded bug: insecure relays are reported and kept.
FilterKeepsInsecure(values) == Deduplicate(Kept(values, {u \in Urls : Parses(u)}))

FilterSupportedRelayUrls(values) == Deduplicate(Kept(values, {u \in Urls : Secure(u)}))

\* The end of QuerySeedRelay: what a seed that could be asked comes to.
SeedResult(source, found) ==
  LET monitored == FilterSupportedRelayUrls(found)
      fallback  == FilterSupportedRelayUrls(<<Candidates[seed]>> \o FallbackRelays)
  IN
  IF monitored # << >>
  THEN [ok |-> TRUE, source |-> source, relay_urls |-> monitored]
  ELSE [ok |-> TRUE, source |-> "fallback", relay_urls |-> fallback]

-----------------------------------------------------------------------------
(* Steps of the job.                                                       *)

\* Seeded bug: the loop runs one seed too far.
NextSeedPastEnd ==
  /\ result' = [result EXCEPT !.ok = FALSE]
  /\ IF seed <= Len(Candidates)
     THEN at' = "dial" /\ seed' = seed + 1
     ELSE at' = "posted" /\ UNCHANGED seed
  /\ kind' = "10002" /\ expired' = FALSE /\ relay_urls' = << >>
  /\ UNCHANGED <<pubkey, primary, answers>>

\* The seed failed: on to the next, or out of the loop after the last.
NextSeed ==
  /\ result' = [result EXCEPT !.ok = FALSE]
  /\ IF seed < Len(Candidates)
     THEN at' = "dial" /\ seed' = seed + 1
     ELSE at' = "posted" /\ UNCHANGED seed
  /\ kind' = "10002" /\ expired' = FALSE /\ relay_urls' = << >>
  /\ UNCHANGED <<pubkey, primary, answers>>

Dialed ==
  /\ at = "dial"
  /\ pubkey /\ Parses(Candidates[seed])
  /\ at' = "request"
  /\ UNCHANGED <<pubkey, primary, seed, kind, expired, relay_urls, result, answers>>

\* Without a pubkey, or a seed that does not parse, nothing is dialled; SNI may
\* be refused; and every call but the last may throw.
SeedFails == at \in {"dial", "request", "read"} /\ NextSeed

Requested ==
  /\ at = "request"
  /\ at' = "check"
  /\ expired' = FALSE /\ relay_urls' = << >>
  /\ UNCHANGED <<pubkey, primary, seed, kind, result, answers>>

\* Seeded bug: kind 3 is asked for and preferred in any case.
QueryEndsContactsFirst ==
  LET found == Deduplicate(relay_urls) IN
  IF kind = "10002"
  THEN at' = "request" /\ kind' = "3" /\ UNCHANGED result
  ELSE /\ at' = "close"
       /\ result' = SeedResult(IF found = << >> THEN "none" ELSE kind, found)
       /\ UNCHANGED kind

\* The query is over, by EOSE or by time.  CLOSE is written, whether that works or
\* not; the call that comes next stands for both.
QueryEnds ==
  LET found == Deduplicate(relay_urls) IN
  IF found = << >> /\ kind = "10002"
  THEN at' = "request" /\ kind' = "3" /\ UNCHANGED result
  ELSE /\ at' = "close"
       /\ result' = SeedResult(IF found = << >> THEN "none" ELSE kind, found)
       /\ UNCHANGED kind

EightSeconds ==
  /\ at \in {"check", "read"}
  /\ ~expired
  /\ expired' = TRUE
  /\ UNCHANGED <<at, pubkey, primary, seed, kind, relay_urls, result, answers>>

\* Seeded bug: the time is not looked at.
CheckNever ==
  /\ at = "check"
  /\ at' = "read"
  /\ UNCHANGED <<pubkey, primary, seed, kind, expired, relay_urls, result, answers>>

\* The condition of the reading loop.
Check ==
  /\ at = "check"
  /\ IF expired THEN QueryEnds ELSE at' = "read" /\ UNCHANGED <<kind, result>>
  /\ UNCHANGED <<pubkey, primary, seed, expired, relay_urls, answers>>

\* Seeded bug: an answer to the other subscription is taken.
ReadEventAnySub(sub, event) ==
  /\ at = "read"
  /\ Len(answers) < MaxAnswers
  /\ answers' = Append(answers, [seed |-> seed, during |-> kind, sub |-> sub, event |-> event])
  /\ relay_urls' = relay_urls \o ExtractRelayUrlsFromEvent(event)
  /\ at' = "check"
  /\ UNCHANGED <<pubkey, primary, seed, kind, expired, result>>

ReadEvent(sub, event) ==
  /\ at = "read"
  /\ Len(answers) < MaxAnswers
  /\ answers' = Append(answers, [seed |-> seed, during |-> kind, sub |-> sub, event |-> event])
  /\ relay_urls' = IF sub = kind THEN relay_urls \o ExtractRelayUrlsFromEvent(event)
                   ELSE relay_urls
  /\ at' = "check"
  /\ UNCHANGED <<pubkey, primary, seed, kind, expired, result>>

\* EOSE of the query; an EOSE of another one is a frame like any other.
ReadEose ==
  /\ at = "read"
  /\ QueryEnds
  /\ UNCHANGED <<pubkey, primary, seed, expired, relay_urls, answers>>

ReadOther ==
  /\ at = "read"
  /\ at' = "check"
  /\ UNCHANGED <<pubkey, primary, seed, kind, expired, relay_urls, result, answers>>

\* ws.close returns; the job takes the result and leaves the loop.
CloseReturns ==
  /\ at = "close"
  /\ at' = "posted"
  /\ UNCHANGED <<pubkey, primary, seed, kind, expired, relay_urls, result, answers>>

Network ==
  \/ Dialed
  \/ SeedFails
  \/ Requested
  \/ \E sub \in Kinds, event \in Events : ReadEvent(sub, event)
  \/ ReadEose
  \/ ReadOther
  \/ CloseReturns

\* The result has been handed to the io thread.
Done == at = "posted" /\ UNCHANGED vars

Next == Network \/ EightSeconds \/ Check \/ Done

Spec == Init /\ [][Next]_vars

\* The worker runs and time passes; the network owes nothing.
FairSpec == Spec /\ WF_vars(Check) /\ WF_vars(EightSeconds)

-----------------------------------------------------------------------------
(* Properties.                                                             *)

\* What main and SessionManager take for granted of a result: it is ok when it
\* has relays, and then every one of them can be monitored, once.
ResultIsMonitorable ==
  at = "posted" =>
    /\ result.ok <=> result.relay_urls # << >>
    /\ \A i \in DOMAIN result.relay_urls : Secure(result.relay_urls[i])
    /\ IsInjective(result.relay_urls)

\* The answers that count for a result of this source.
Counted(source) ==
  {a \in ToSet(answers) : a.seed = seed /\ a.during = source /\ a.sub = source}

Listed(a) == ToSet(a.event.r_tags) \cup ToSet(a.event.content)

\* The relays of a result are those the answering seed listed under that kind:
\* nothing is lost, nothing comes from a seed that failed half way, and nothing
\* from a late answer to the earlier subscription.
ResultIsWhatTheSeedListed ==
  at = "posted" /\ result.ok /\ result.source \in Kinds =>
    ToSet(result.relay_urls) =
      {u \in UNION {Listed(a) : a \in Counted(result.source)} : Secure(u)}

\* A contact list is used only when the same seed sent no NIP-65 relay at all,
\* and the fallback set only when it listed nothing that can be monitored.
NewerListWins ==
  at = "posted" /\ result.ok =>
    /\ result.source = "3" =>
         \A a \in Counted("10002") : \A u \in Listed(a) : ~Parses(u)
    /\ result.source = "fallback" =>
         \A k \in Kinds : \A a \in Counted(k) : \A u \in Listed(a) : ~Secure(u)

\* A seed cannot hold the job by talking: the job ends unless one call of the
\* network never returns.
TalkingSeedIsLeft == <>(at = "posted") \/ \E w \in Waits : <>[](at = w)

-----------------------------------------------------------------------------
(* What documents and messages say, and the model refutes.                  *)

\* README.md:13, "fallback NIP-02 (kind:3) contacts relay hints": kind 3 has
\* been asked for before the fallback set is used.
ContactsBeforeFallback ==
  at = "posted" /\ result.source = "fallback" => kind = "3"

\* bootstrap_client.cpp:338, "Bootstrap failed on all seed relays - using
\* emergency fallback set": when all seeds fail there is a set to use.
EmergencySetUsed == at = "posted" /\ pubkey => result.relay_urls # << >>

=============================================================================
