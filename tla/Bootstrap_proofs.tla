--------------------------- MODULE Bootstrap_proofs ---------------------------
(***************************************************************************)
(* Relay discovery, for any relays, seeds, relay lists and number of       *)
(* answers: what the two loops over a list keep of it, the types of the    *)
(* job's state, and that its result holds the relays the answering seed    *)
(* listed, each once and each fit to be monitored.                         *)
(***************************************************************************)
EXTENDS Bootstrap, SequenceTheorems, Induction_proofs

-----------------------------------------------------------------------------
(* Lists of URLs.                                                          *)

\* A member of an appended sequence is the new one or an old one.
LEMMA AppendSet ==
  ASSUME NEW V, NEW s \in Seq(V), NEW v \in V
  PROVE  Append(s, v) \in Seq(V) /\ ToSet(Append(s, v)) = ToSet(s) \cup {v}
<1>1. /\ Append(s, v) \in Seq(V) /\ Len(Append(s, v)) = Len(s) + 1 /\ Len(s) \in Nat
      /\ \A i \in 1..Len(s) : Append(s, v)[i] = s[i]
      /\ Append(s, v)[Len(s) + 1] = v
  OBVIOUS
<1>2. DOMAIN s = 1..Len(s) /\ DOMAIN Append(s, v) = 1..Len(s) + 1
  BY <1>1
<1> DEFINE t == Append(s, v)
           n == Len(s)
<1> HIDE DEF t, n
<1>3. ToSet(t) = ToSet(s) \cup {v}
  BY <1>1, <1>2 DEF ToSet, t, n
<1> QED
  BY <1>1, <1>3 DEF t

\* A member of two sequences in a row is one of the first or of the second.
LEMMA ConcatSet ==
  ASSUME NEW V, NEW s \in Seq(V), NEW t \in Seq(V)
  PROVE  s \o t \in Seq(V) /\ ToSet(s \o t) = ToSet(s) \cup ToSet(t)
<1> DEFINE c == s \o t
           m == Len(s)
           n == Len(t)
<1>1. /\ c \in Seq(V) /\ m \in Nat /\ n \in Nat
      /\ DOMAIN s = 1..m /\ DOMAIN t = 1..n /\ DOMAIN c = 1..m + n
      /\ \A i \in 1..m : c[i] = s[i]
      /\ \A i \in 1..n : c[m + i] = t[i]
  OBVIOUS
<1> HIDE DEF c, m, n
<1>2. \A i \in 1..m + n : i \in 1..m \/ (i - m \in 1..n /\ m + (i - m) = i)
  BY <1>1
<1>3. \A i \in 1..n : m + i \in 1..m + n
  BY <1>1
<1>4. \A i \in 1..m : i \in 1..m + n
  BY <1>1
<1>5. ToSet(c) = ToSet(s) \cup ToSet(t)
  <2>1. ASSUME NEW x \in ToSet(c) PROVE x \in ToSet(s) \cup ToSet(t)
    <3>1. PICK i \in 1..m + n : x = c[i]
      BY <1>1 DEF ToSet
    <3>2. CASE i \in 1..m
      BY ONLY <1>1, <3>1, <3>2 DEF ToSet
    <3>3. CASE i - m \in 1..n /\ m + (i - m) = i
      <4>1. PICK j : j = i - m
        OBVIOUS
      <4>2. j \in 1..n /\ x = t[j]
        BY ONLY <1>1, <3>1, <3>3, <4>1
      <4> QED BY ONLY <1>1, <4>2 DEF ToSet
    <3> QED BY ONLY <1>2, <3>1, <3>2, <3>3
  <2>2. ASSUME NEW x \in ToSet(s) PROVE x \in ToSet(c)
    BY <1>1, <1>4 DEF ToSet
  <2>3. ASSUME NEW x \in ToSet(t) PROVE x \in ToSet(c)
    BY <1>1, <1>3 DEF ToSet
  <2> QED BY <2>1, <2>2, <2>3
<1> QED
  BY <1>1, <1>5 DEF c

\* The members of a sequence are in its range, and only the empty one has none.
LEMMA SetOfSequence ==
  ASSUME NEW V, NEW s \in Seq(V)
  PROVE  ToSet(s) \subseteq V /\ (s = << >> <=> ToSet(s) = {})
<1>1. DOMAIN s = 1..Len(s) /\ Len(s) \in Nat /\ \A i \in 1..Len(s) : s[i] \in V
  OBVIOUS
<1>2. Len(s) = 0 <=> s = << >>
  OBVIOUS
<1>3. Len(s) # 0 => 1 \in DOMAIN s
  BY <1>1
<1>4. Len(s) = 0 => DOMAIN s = {}
  BY <1>1
<1> QED
  BY <1>1, <1>2, <1>3, <1>4 DEF ToSet

\* The empty list has no members.
LEMMA EmptyList == ASSUME NEW V PROVE << >> \in Seq(V) /\ ToSet(<< >>) = {}
<1> DEFINE nil == << >>
<1>1. nil \in Seq(V) /\ nil = << >>
  OBVIOUS
<1>2. ToSet(nil) = {}
  <2> HIDE DEF nil
  <2> QED BY <1>1, SetOfSequence
<1> QED
  BY <1>1, <1>2

\* f has the lists of a loop that starts with an empty one and appends the n-th value
\* to the list it has so far when that pair is one it takes.
Runs(f, values, takes) ==
  /\ f[0] = << >>
  /\ \A n \in 1..Len(values) :
       f[n] = IF <<n, f[n - 1]>> \in takes THEN Append(f[n - 1], values[n]) ELSE f[n - 1]

\* A loop that starts with an empty list and appends the values it takes can be run to
\* the end of every list of values.
LEMMA LoopRuns ==
  ASSUME NEW V, NEW values \in Seq(V), NEW takes
  PROVE  \E f \in [0..Len(values) -> Seq(V)] : Runs(f, values, takes)
<1> DEFINE N    == Len(values)
           W    == Seq(V)
           next(n, out) == IF <<n, out>> \in takes THEN Append(out, values[n]) ELSE out
           step == [n \in 1..N |-> [out \in W |-> next(n, out)]]
           nil  == << >>
<1>1. nil \in W /\ N \in Nat /\ step \in [1..N -> [W -> W]]
  <2>1. ASSUME NEW n \in 1..N, NEW out \in W PROVE next(n, out) \in W
    <3>1. values[n] \in V
      OBVIOUS
    <3> QED BY <3>1
  <2> HIDE DEF next
  <2>2. step \in [1..N -> [W -> W]]
    BY <2>1
  <2> QED BY <2>2
<1>2. \E f \in [0..N -> W] : f[0] = nil /\ \A n \in 1..N : f[n] = step[n][f[n - 1]]
  <2> HIDE DEF N, W, step, nil
  <2> QED BY <1>1, RecursionUpTo
<1>3. PICK f \in [0..N -> W] : f[0] = nil /\ \A n \in 1..N : f[n] = step[n][f[n - 1]]
  <2> HIDE DEF N, W, step, nil
  <2> QED BY <1>2
<1>4. ASSUME NEW n \in 1..N PROVE f[n] = next(n, f[n - 1])
  <2>1. n - 1 \in 0..N
    BY <1>1
  <2>2. f[n - 1] \in W /\ f[n] = step[n][f[n - 1]]
    <3> HIDE DEF N, W, step
    <3> QED BY <1>3, <2>1
  <2> HIDE DEF next
  <2> QED BY <2>2
<1> QED
  BY <1>3, <1>4 DEF Runs

\* Kept has the values that are wanted.
LEMMA KeptFacts ==
  ASSUME NEW V, NEW values \in Seq(V), NEW wanted
  PROVE  Kept(values, wanted) \in Seq(V) /\ ToSet(Kept(values, wanted)) = ToSet(values) \cap wanted
<1> DEFINE N == Len(values)
           Is(f) == f = [n \in 0..N |-> IF n = 0 THEN << >>
                           ELSE IF values[n] \in wanted THEN Append(f[n - 1], values[n]) ELSE f[n - 1]]
           upTo == CHOOSE f : Is(f)
<1>0. N \in Nat /\ DOMAIN values = 1..N /\ \A n \in 1..N : values[n] \in V
  OBVIOUS
<1>1. Kept(values, wanted) = upTo[N]
  BY DEF Kept
<1>2. \E f : Is(f)
  <2> DEFINE takes == {n \in 1..N : values[n] \in wanted} \X Seq(V)
  <2>0. PICK f \in [0..N -> Seq(V)] : Runs(f, values, takes)
    <3> HIDE DEF takes
    <3> QED BY LoopRuns
  <2>1. /\ f[0] = << >>
        /\ \A n \in 1..N : f[n] = IF <<n, f[n - 1]>> \in takes THEN Append(f[n - 1], values[n]) ELSE f[n - 1]
    <3> HIDE DEF takes
    <3> QED BY <2>0 DEF Runs
  <2> DEFINE g == [n \in 0..N |-> IF n = 0 THEN << >>
                     ELSE IF values[n] \in wanted THEN Append(f[n - 1], values[n]) ELSE f[n - 1]]
  <2>2. ASSUME NEW n \in 0..N PROVE g[n] = f[n]
    <3>1. CASE n = 0
      BY <2>1, <3>1
    <3>2. CASE n # 0
      <4>1. n \in 1..N /\ n - 1 \in 0..N
        BY <3>2, <1>0
      <4>2. <<n, f[n - 1]>> \in takes <=> values[n] \in wanted
        <5> HIDE DEF N
        <5> QED BY <2>1, <4>1
      <4> HIDE DEF takes
      <4> QED BY <2>1, <3>2, <4>1, <4>2
    <3> QED BY <3>1, <3>2
  <2>3. g = [n \in 0..N |-> g[n]] /\ f = [n \in 0..N |-> f[n]]
    OBVIOUS
  <2>4. g = f
    <3> HIDE DEF g
    <3> QED BY <2>2, <2>3
  <2>5. Is(f)
    BY <2>4
  <2> HIDE DEF Is
  <2> QED BY <2>5
<1>3. Is(upTo)
  <2> HIDE DEF Is
  <2> QED BY <1>2
<1> HIDE DEF upTo
<1> DEFINE Good == {n \in 0..N : /\ upTo[n] \in Seq(V)
                                 /\ ToSet(upTo[n]) = {values[i] : i \in 1..n} \cap wanted}
<1>4. 0 \in Good
  <2>1. upTo[0] = << >>
    BY <1>0, <1>3
  <2>2. upTo[0] \in Seq(V) /\ ToSet(upTo[0]) = {}
    BY <2>1, EmptyList
  <2>3. {values[i] : i \in 1..0} = {}
    OBVIOUS
  <2>4. 0 \in 0..N
    BY <1>0
  <2> QED BY <2>2, <2>3, <2>4
<1>5. ASSUME NEW n \in 1..N, n - 1 \in Good PROVE n \in Good
  <2>1. upTo[n] = IF values[n] \in wanted THEN Append(upTo[n - 1], values[n]) ELSE upTo[n - 1]
    <3>1. n \in 0..N /\ n # 0
      BY <1>0
    <3> QED BY <1>3, <3>1
  <2>2. upTo[n - 1] \in Seq(V) /\ ToSet(upTo[n - 1]) = {values[i] : i \in 1..n - 1} \cap wanted
    BY <1>5
  <2>3. {values[i] : i \in 1..n} = {values[i] : i \in 1..n - 1} \cup {values[n]}
    <3>1. 1..n = (1..n - 1) \cup {n}
      BY <1>0
    <3> QED BY <3>1
  <2> DEFINE before == upTo[n - 1]
             after == upTo[n]
             v == values[n]
  <2>4. v \in V /\ n \in 0..N
    BY <1>0
  <2>5. after \in Seq(V) /\ ToSet(after) = {values[i] : i \in 1..n} \cap wanted
    <3> HIDE DEF before, after, v
    <3>1. Append(before, v) \in Seq(V) /\ ToSet(Append(before, v)) = ToSet(before) \cup {v}
      BY <2>2, <2>4, AppendSet DEF before
    <3>2. CASE v \in wanted
      BY <2>1, <2>2, <2>3, <3>1, <3>2 DEF before, after, v
    <3>3. CASE v \notin wanted
      BY <2>1, <2>2, <2>3, <3>3 DEF before, after, v
    <3> QED BY <3>2, <3>3
  <2> QED BY <2>4, <2>5
<1> HIDE DEF Good
<1>6. \A n \in 0..N : n \in Good
  BY <1>0, <1>4, <1>5, InductionUpTo
<1>7. upTo[N] \in Seq(V) /\ ToSet(upTo[N]) = {values[i] : i \in 1..N} \cap wanted
  <2>1. N \in 0..N
    BY <1>0
  <2> QED BY <1>6, <2>1 DEF Good
<1>8. ToSet(values) = {values[i] : i \in 1..N}
  BY <1>0 DEF ToSet
<1> QED
  BY <1>1, <1>7, <1>8

\* Contains looks for a member.
LEMMA ContainsIsMember ==
  ASSUME NEW V, NEW s \in Seq(V), NEW v
  PROVE  Contains(s, v) <=> v \in ToSet(s)
<1>1. DOMAIN s = 1..Len(s)
  OBVIOUS
<1> QED
  BY <1>1 DEF Contains, ToSet

\* A value that is not in a list without repetitions can be appended to it.
LEMMA AppendWithoutRepetition ==
  ASSUME NEW V, NEW s \in Seq(V), NEW v \in V, v \notin ToSet(s), IsInjective(s)
  PROVE  IsInjective(Append(s, v))
<1> DEFINE t == Append(s, v)
           n == Len(s)
<1>1. /\ n \in Nat /\ DOMAIN s = 1..n /\ DOMAIN t = 1..n + 1
      /\ \A i \in 1..n : t[i] = s[i]
      /\ t[n + 1] = v
  OBVIOUS
<1> HIDE DEF t, n
<1>2. \A i \in 1..n + 1 : i \in 1..n \/ i = n + 1
  BY <1>1
<1>3. \A i \in 1..n : s[i] # v
  BY <1>1 DEF ToSet
<1>4. \A a, b \in 1..n : s[a] = s[b] => a = b
  BY <1>1 DEF IsInjective
<1>5. ASSUME NEW a \in 1..n + 1, NEW b \in 1..n + 1, t[a] = t[b] PROVE a = b
  BY <1>1, <1>2, <1>3, <1>4, <1>5
<1>6. IsInjective(t)
  BY <1>1, <1>5 DEF IsInjective
<1> QED
  BY <1>6 DEF t

\* Deduplicate has the values that parse, each once.
LEMMA DeduplicateFacts ==
  ASSUME NEW values \in Seq(Urls)
  PROVE  /\ Deduplicate(values) \in Seq(Urls)
         /\ ToSet(Deduplicate(values)) = {u \in ToSet(values) : Parses(u)}
         /\ IsInjective(Deduplicate(values))
<1> DEFINE N == Len(values)
           Is(f) == f = [n \in 0..N |-> IF n = 0 THEN << >>
                           ELSE IF Parses(values[n]) /\ ~Contains(f[n - 1], values[n])
                                THEN Append(f[n - 1], values[n]) ELSE f[n - 1]]
           upTo == CHOOSE f : Is(f)
<1>0. N \in Nat /\ DOMAIN values = 1..N /\ \A n \in 1..N : values[n] \in Urls
  OBVIOUS
<1>1. Deduplicate(values) = upTo[N]
  BY DEF Deduplicate
<1>2. \E f : Is(f)
  <2> DEFINE takes == {p \in (1..N) \X Seq(Urls) : Parses(values[p[1]]) /\ ~Contains(p[2], values[p[1]])}
  <2>0. PICK f \in [0..N -> Seq(Urls)] : Runs(f, values, takes)
    <3> HIDE DEF takes
    <3> QED BY LoopRuns
  <2>1. /\ f[0] = << >>
        /\ \A n \in 1..N : f[n] = IF <<n, f[n - 1]>> \in takes THEN Append(f[n - 1], values[n]) ELSE f[n - 1]
    <3> HIDE DEF takes
    <3> QED BY <2>0 DEF Runs
  <2> DEFINE g == [n \in 0..N |-> IF n = 0 THEN << >>
                     ELSE IF Parses(values[n]) /\ ~Contains(f[n - 1], values[n])
                          THEN Append(f[n - 1], values[n]) ELSE f[n - 1]]
  <2>2. ASSUME NEW n \in 0..N PROVE g[n] = f[n]
    <3>1. CASE n = 0
      BY <2>1, <3>1
    <3>2. CASE n # 0
      <4>1. n \in 1..N /\ n - 1 \in 0..N
        BY <3>2, <1>0
      <4>2. <<n, f[n - 1]>> \in takes <=> Parses(values[n]) /\ ~Contains(f[n - 1], values[n])
        <5> HIDE DEF N
        <5> QED BY <2>0, <4>1
      <4> HIDE DEF takes
      <4> QED BY <2>1, <3>2, <4>1, <4>2
    <3> QED BY <3>1, <3>2
  <2>3. g = [n \in 0..N |-> g[n]] /\ f = [n \in 0..N |-> f[n]]
    OBVIOUS
  <2>4. g = f
    <3> HIDE DEF g
    <3> QED BY <2>2, <2>3
  <2>5. Is(f)
    BY <2>4
  <2> HIDE DEF Is
  <2> QED BY <2>5
<1>3. Is(upTo)
  <2> HIDE DEF Is
  <2> QED BY <1>2
<1> HIDE DEF upTo
<1> DEFINE Good == {n \in 0..N : /\ upTo[n] \in Seq(Urls)
                                 /\ ToSet(upTo[n]) = {u \in {values[i] : i \in 1..n} : Parses(u)}
                                 /\ IsInjective(upTo[n])}
<1>4. 0 \in Good
  <2>1. upTo[0] = << >>
    BY <1>0, <1>3
  <2>2. upTo[0] \in Seq(Urls) /\ ToSet(upTo[0]) = {}
    BY <2>1, EmptyList
  <2>3. {values[i] : i \in 1..0} = {}
    OBVIOUS
  <2>4. IsInjective(upTo[0])
    BY <2>2 DEF IsInjective, ToSet
  <2>5. 0 \in 0..N
    BY <1>0
  <2> QED BY <2>2, <2>3, <2>4, <2>5
<1>5. ASSUME NEW n \in 1..N, n - 1 \in Good PROVE n \in Good
  <2> DEFINE before == upTo[n - 1]
             after == upTo[n]
             v == values[n]
             old == {values[i] : i \in 1..n - 1}
  <2>1. after = IF Parses(v) /\ ~Contains(before, v) THEN Append(before, v) ELSE before
    <3>1. n \in 0..N /\ n # 0
      BY <1>0
    <3> QED BY <1>3, <3>1
  <2>2. before \in Seq(Urls) /\ ToSet(before) = {u \in old : Parses(u)} /\ IsInjective(before)
    BY <1>5
  <2>3. {values[i] : i \in 1..n} = old \cup {v}
    <3>1. 1..n = (1..n - 1) \cup {n}
      BY <1>0
    <3> QED BY <3>1
  <2>4. v \in Urls /\ n \in 0..N
    BY <1>0
  <2>5. after \in Seq(Urls) /\ ToSet(after) = {u \in old \cup {v} : Parses(u)} /\ IsInjective(after)
    <3> HIDE DEF before, after, v, old
    <3>1. Contains(before, v) <=> v \in ToSet(before)
      BY <2>2, ContainsIsMember
    <3>2. Append(before, v) \in Seq(Urls) /\ ToSet(Append(before, v)) = ToSet(before) \cup {v}
      BY <2>2, <2>4, AppendSet
    <3>3. CASE Parses(v) /\ v \notin ToSet(before)
      <4>1. after = Append(before, v)
        BY <2>1, <3>1, <3>3
      <4>2. IsInjective(Append(before, v))
        BY <2>2, <2>4, <3>3, AppendWithoutRepetition
      <4>3. ToSet(before) \cup {v} = {u \in old \cup {v} : Parses(u)}
        BY <2>2, <3>3
      <4> QED BY <3>2, <4>1, <4>2, <4>3
    <3>4. CASE ~(Parses(v) /\ v \notin ToSet(before))
      <4>1. after = before
        BY <2>1, <3>1, <3>4
      <4>2. ToSet(before) = {u \in old \cup {v} : Parses(u)}
        BY <2>2, <3>4
      <4> QED BY <2>2, <4>1, <4>2
    <3> QED BY <3>3, <3>4
  <2> HIDE DEF old, v, after
  <2> QED BY <2>3, <2>4, <2>5 DEF after
<1> HIDE DEF Good
<1>6. \A n \in 0..N : n \in Good
  BY <1>0, <1>4, <1>5, InductionUpTo
<1>7. /\ upTo[N] \in Seq(Urls) /\ IsInjective(upTo[N])
      /\ ToSet(upTo[N]) = {u \in {values[i] : i \in 1..N} : Parses(u)}
  <2>1. N \in 0..N
    BY <1>0
  <2> QED BY <1>6, <2>1 DEF Good
<1>8. ToSet(values) = {values[i] : i \in 1..N}
  BY <1>0 DEF ToSet
<1> QED
  BY <1>1, <1>7, <1>8

\* A URL that is secure parses, and one that parses looks like a relay URL.
LEMMA UrlFacts ==
  ASSUME NEW u \in Urls
  PROVE  (Secure(u) => Parses(u)) /\ (Parses(u) => IsRelayUrlLike(u))
BY DEF Secure, Parses, IsRelayUrlLike, Targets, ParseRelayUrl, NoTarget

\* FilterSupportedRelayUrls has the values that are secure, each once.
LEMMA FilterFacts ==
  ASSUME NEW values \in Seq(Urls)
  PROVE  /\ FilterSupportedRelayUrls(values) \in Seq(Urls)
         /\ ToSet(FilterSupportedRelayUrls(values)) = {u \in ToSet(values) : Secure(u)}
         /\ IsInjective(FilterSupportedRelayUrls(values))
<1> DEFINE kept == Kept(values, {u \in Urls : Secure(u)})
<1>1. kept \in Seq(Urls) /\ ToSet(kept) = ToSet(values) \cap {u \in Urls : Secure(u)}
  BY KeptFacts
<1>2. FilterSupportedRelayUrls(values) = Deduplicate(kept)
  BY DEF FilterSupportedRelayUrls
<1>3. ToSet(values) \subseteq Urls
  BY SetOfSequence
<1> HIDE DEF kept
<1>4. /\ Deduplicate(kept) \in Seq(Urls) /\ IsInjective(Deduplicate(kept))
      /\ ToSet(Deduplicate(kept)) = {u \in ToSet(kept) : Parses(u)}
  BY <1>1, DeduplicateFacts
<1>5. {u \in ToSet(kept) : Parses(u)} = {u \in ToSet(values) : Secure(u)}
  BY <1>1, <1>3, UrlFacts
<1> QED
  BY <1>2, <1>4, <1>5

\* ExtractRelayUrlsFromEvent has what the event lists, as far as it looks like a URL.
LEMMA ExtractFacts ==
  ASSUME NEW event \in Events
  PROVE  /\ ExtractRelayUrlsFromEvent(event) \in Seq(Urls)
         /\ ToSet(ExtractRelayUrlsFromEvent(event)) =
              {u \in ToSet(event.r_tags) \cup ToSet(event.content) : IsRelayUrlLike(u)}
<1> DEFINE all == event.r_tags \o event.content
<1>1. event.r_tags \in Seq(Urls) /\ event.content \in Seq(Urls)
  BY BootstrapAssumption
<1>2. all \in Seq(Urls) /\ ToSet(all) = ToSet(event.r_tags) \cup ToSet(event.content)
  BY <1>1, ConcatSet
<1> HIDE DEF all
<1>3. ToSet(all) \subseteq Urls
  BY <1>2, SetOfSequence
<1>4. LET kept == Kept(all, {u \in Urls : IsRelayUrlLike(u)})
      IN  kept \in Seq(Urls) /\ ToSet(kept) = ToSet(all) \cap {u \in Urls : IsRelayUrlLike(u)}
  BY <1>2, KeptFacts
<1> QED
  BY <1>2, <1>3, <1>4 DEF ExtractRelayUrlsFromEvent, all

-----------------------------------------------------------------------------
(* Types.                                                                  *)

ResultType == [ok : BOOLEAN, source : Kinds \cup {"none", "fallback"}, relay_urls : Seq(Urls)]

\* What TypeOK says, and that the result is a record.
TypeInv == TypeOK /\ result \in ResultType

\* There is a first candidate, and each is a URL.
LEMMA CandidatesFacts ==
  ASSUME primary \in Primaries
  PROVE  Candidates \in Seq(Urls) /\ Len(Candidates) \in Nat /\ 1 \in 1..Len(Candidates)
<1>1. primary \in Urls /\ WellKnown \in Seq(Urls)
  BY BootstrapAssumption
<1>2. <<primary>> \in Seq(Urls) /\ Len(<<primary>>) = 1
  BY <1>1
<1>3. Candidates \in Seq(Urls) /\ Len(Candidates) = 1 + Len(WellKnown)
  BY <1>1, <1>2 DEF Candidates
<1> QED
  BY <1>1, <1>3

\* A result is made of a source and relays.
LEMMA ResultOf ==
  ASSUME NEW source \in Kinds \cup {"none", "fallback"}, NEW urls \in Seq(Urls)
  PROVE  [ok |-> TRUE, source |-> source, relay_urls |-> urls] \in ResultType
BY DEF ResultType

\* A seed that could be asked comes to relays that can be monitored, once each: what
\* it listed of that kind, or the fallback set when it listed nothing of the kind.
LEMMA SeedResultFacts ==
  ASSUME primary \in Primaries, seed \in 1..Len(Candidates), relay_urls \in Seq(Urls), kind \in Kinds,
         NEW r, r = LET found == Deduplicate(relay_urls)
                    IN  SeedResult(IF found = << >> THEN "none" ELSE kind, found)
  PROVE  /\ r \in ResultType /\ r.ok /\ r.relay_urls # << >>
         /\ ToSet(r.relay_urls) \subseteq {u \in Urls : Secure(u)}
         /\ IsInjective(r.relay_urls)
         /\ r.source \in {kind, "fallback"}
         /\ r.source = kind => ToSet(r.relay_urls) = {u \in ToSet(relay_urls) : Secure(u)}
         /\ r.source = "fallback" => \A u \in ToSet(relay_urls) : ~Secure(u)
<1> DEFINE found     == Deduplicate(relay_urls)
           monitored == FilterSupportedRelayUrls(found)
           others    == <<Candidates[seed]>> \o FallbackRelays
           fallback  == FilterSupportedRelayUrls(others)
           source    == IF found = << >> THEN "none" ELSE kind
<1>1. r = IF monitored # << >> THEN [ok |-> TRUE, source |-> source, relay_urls |-> monitored]
          ELSE [ok |-> TRUE, source |-> "fallback", relay_urls |-> fallback]
  BY DEF SeedResult
<1>2. found \in Seq(Urls) /\ ToSet(found) = {u \in ToSet(relay_urls) : Parses(u)}
  BY DeduplicateFacts
<1>3. ToSet(relay_urls) \subseteq Urls /\ ToSet(found) \subseteq Urls
  <2> HIDE DEF found
  <2> QED BY <1>2, SetOfSequence
<1>4. /\ monitored \in Seq(Urls) /\ IsInjective(monitored)
      /\ ToSet(monitored) = {u \in ToSet(relay_urls) : Secure(u)}
  <2> HIDE DEF found
  <2>1. monitored \in Seq(Urls) /\ IsInjective(monitored) /\ ToSet(monitored) = {u \in ToSet(found) : Secure(u)}
    BY <1>2, FilterFacts
  <2>2. {u \in ToSet(found) : Secure(u)} = {u \in ToSet(relay_urls) : Secure(u)}
    BY <1>2, <1>3, UrlFacts
  <2> QED BY <2>1, <2>2
<1>5. monitored # << >> => found # << >>
  <2>1. found = << >> => ToSet(monitored) = {}
    <3> HIDE DEF found, monitored
    <3>1. found = << >> => ToSet(found) = {}
      BY <1>2, SetOfSequence
    <3> QED BY <1>2, <1>3, <1>4, <3>1, UrlFacts
  <2> HIDE DEF found, monitored
  <2> QED BY <1>4, <2>1, SetOfSequence
<1>6. /\ fallback \in Seq(Urls) /\ IsInjective(fallback) /\ fallback # << >>
      /\ ToSet(fallback) \subseteq {u \in Urls : Secure(u)}
  <2>1. Candidates[seed] \in Urls
    BY CandidatesFacts
  <2>2. <<Candidates[seed]>> \in Seq(Urls)
    BY <2>1
  <2>3. FallbackRelays \in Seq(Urls) /\ ToSet(FallbackRelays) \subseteq {u \in Urls : Secure(u)} /\ ToSet(FallbackRelays) # {}
    <3> DEFINE Safe == {u \in Urls : ParseRelayUrl(u).secure}
    <3>1. FallbackRelays \in Seq(Safe) /\ FallbackRelays # << >> /\ Safe \subseteq Urls
      BY BootstrapAssumption
    <3>2. Safe = {u \in Urls : Secure(u)}
      BY DEF Secure, Targets
    <3> HIDE DEF Safe
    <3>3. ToSet(FallbackRelays) \subseteq Safe /\ ToSet(FallbackRelays) # {}
      BY <3>1, SetOfSequence
    <3>4. FallbackRelays \in Seq(Urls)
      BY <3>1
    <3> QED BY <3>2, <3>3, <3>4
  <2>4. others \in Seq(Urls) /\ ToSet(others) = ToSet(<<Candidates[seed]>>) \cup ToSet(FallbackRelays)
    <3>1. PICK first, rest : first = <<Candidates[seed]>> /\ rest = FallbackRelays
      OBVIOUS
    <3>2. first \in Seq(Urls) /\ rest \in Seq(Urls) /\ others = first \o rest
      BY <2>2, <2>3, <3>1
    <3>3. first \o rest \in Seq(Urls) /\ ToSet(first \o rest) = ToSet(first) \cup ToSet(rest)
      BY ONLY <3>2, ConcatSet
    <3> QED BY <3>1, <3>2, <3>3
  <2> HIDE DEF others
  <2>5. /\ fallback \in Seq(Urls) /\ IsInjective(fallback)
        /\ ToSet(fallback) = {u \in ToSet(others) : Secure(u)}
    BY <2>4, FilterFacts
  <2>6. ToSet(others) \subseteq Urls
    BY <2>4, SetOfSequence
  <2> HIDE DEF fallback
  <2>7. fallback # << >>
    BY <2>3, <2>4, <2>5, SetOfSequence
  <2> QED BY <2>5, <2>6, <2>7
<1> HIDE DEF found, monitored, fallback
<1>7. CASE monitored # << >>
  <2>1. r = [ok |-> TRUE, source |-> kind, relay_urls |-> monitored] /\ found # << >>
    BY <1>1, <1>5, <1>7
  <2>2. kind # "fallback"
    BY DEF Kinds
  <2>3. r \in ResultType
    BY <1>4, <2>1, ResultOf
  <2>4. r.ok /\ r.source = kind /\ r.relay_urls = monitored
    BY <2>1
  <2> QED BY <1>3, <1>4, <1>7, <2>2, <2>3, <2>4
<1>8. CASE monitored = << >>
  <2>1. r = [ok |-> TRUE, source |-> "fallback", relay_urls |-> fallback]
    BY <1>1, <1>8
  <2>2. kind # "fallback"
    BY DEF Kinds
  <2>3. ToSet(monitored) = {}
    BY <1>4, <1>8, SetOfSequence
  <2>4. r \in ResultType
    BY <1>6, <2>1, ResultOf
  <2>5. r.ok /\ r.source = "fallback" /\ r.relay_urls = fallback
    BY <2>1
  <2> QED BY <1>4, <1>6, <2>2, <2>3, <2>4, <2>5
<1> QED
  BY <1>7, <1>8

Settled == at \in {"close", "posted"}

\* The relays the seed that is asked has listed in its answers to the query of this kind.
ListedFor(k) == UNION {Listed(a) : a \in Counted(k)}

\* What a query that answered is turned into: relays that can be monitored, in the
\* source's list, and an older source only when the newer had none.
ResultInv ==
  \/ result = NoResult
  \/ /\ result.ok /\ result.relay_urls # << >>
     /\ ToSet(result.relay_urls) \subseteq {u \in Urls : Secure(u)}
     /\ IsInjective(result.relay_urls)
     /\ result.source \in Kinds =>
          ToSet(result.relay_urls) = {u \in ListedFor(result.source) : Secure(u)}
     /\ result.source = "3" => \A u \in ListedFor("10002") : ~Parses(u)
     /\ result.source = "fallback" => \A k \in Kinds : \A u \in ListedFor(k) : ~Secure(u)

\* What a running query has collected is what the seed listed in answer to it; the
\* seed has answered no query that has not been sent; and the contact list is asked
\* for when the seed listed no relay as NIP-65 has it.
QueryInv ==
  /\ \A a \in ToSet(answers) : a.seed <= seed
  /\ at = "dial" => kind = "10002"
  /\ ~Settled =>
       /\ result = NoResult
       /\ at \in {"dial", "request"} => ListedFor(kind) = {}
       /\ kind = "10002" => ListedFor("3") = {}
       /\ kind = "3" => \A u \in ListedFor("10002") : ~Parses(u)
       /\ at \in {"check", "read"} =>
            ToSet(relay_urls) = {u \in ListedFor(kind) : IsRelayUrlLike(u)}
  /\ Settled => ResultInv

-----------------------------------------------------------------------------
(* Type correctness.                                                       *)

\* The job starts in a state of the right type,
LEMMA TypeInit == Init => TypeInv
<1> SUFFICES ASSUME Init PROVE TypeInv
  OBVIOUS
<1>1. seed \in 1..Len(Candidates)
  BY CandidatesFacts DEF Init
<1>2. << >> \in Seq(Urls) /\ << >> \in Seq(Answer) /\ Len(<< >>) = 0 /\ MaxAnswers \in Nat
  BY BootstrapAssumption
<1>3. result \in ResultType
  BY <1>2 DEF Init, NoResult, ResultType
<1>4. result.ok \in BOOLEAN /\ result.source \in Kinds \cup {"none", "fallback"} /\ result.relay_urls \in Seq(Urls)
  BY <1>3 DEF ResultType
<1>5. answers \in Seq(Answer) /\ Len(answers) <= MaxAnswers /\ relay_urls \in Seq(Urls)
  BY <1>2 DEF Init
<1> QED
  BY <1>1, <1>3, <1>4, <1>5 DEF Init, TypeInv, TypeOK, Waits, Kinds

\* goes on to a candidate when a seed fails,
LEMMA NextSeedType ==
  ASSUME TypeInv, NextSeed
  PROVE  TypeInv'
<1>1. Candidates' = Candidates /\ Len(Candidates) \in Nat
  BY CandidatesFacts DEF NextSeed, Candidates, TypeInv, TypeOK
<1>2. seed' \in 1..Len(Candidates)
  BY <1>1 DEF NextSeed, TypeInv, TypeOK
<1>3. result' \in ResultType
  BY DEF NextSeed, TypeInv, ResultType
<1>4. result'.ok \in BOOLEAN /\ result'.source \in Kinds \cup {"none", "fallback"} /\ result'.relay_urls \in Seq(Urls)
  BY <1>3 DEF ResultType
<1>5. << >> \in Seq(Urls)
  OBVIOUS
<1> QED
  BY <1>1, <1>2, <1>3, <1>4, <1>5 DEF NextSeed, TypeInv, TypeOK, Waits, Kinds

\* makes a result of the right type of a query,
LEMMA QueryEndsType ==
  ASSUME TypeInv, QueryEnds
  PROVE  /\ at' \in {"request", "close"} /\ kind' \in Kinds /\ result' \in ResultType
         /\ at' = "request" => kind = "10002" /\ kind' = "3" /\ result' = result
                               /\ \A u \in ToSet(relay_urls) : ~Parses(u)
         /\ at' = "close" => /\ kind' = kind
                             /\ result' = LET found == Deduplicate(relay_urls)
                                          IN  SeedResult(IF found = << >> THEN "none" ELSE kind, found)
<1> DEFINE found == Deduplicate(relay_urls)
           r     == SeedResult(IF found = << >> THEN "none" ELSE kind, found)
<1>1. primary \in Primaries /\ seed \in 1..Len(Candidates) /\ relay_urls \in Seq(Urls) /\ kind \in Kinds
      /\ result \in ResultType
  BY DEF TypeInv, TypeOK
<1>2. CASE found = << >> /\ kind = "10002"
  <2>1. at' = "request" /\ kind' = "3" /\ result' = result
    BY <1>2 DEF QueryEnds
  <2>2. ToSet(found) = {} /\ ToSet(found) = {u \in ToSet(relay_urls) : Parses(u)}
    BY <1>1, <1>2, DeduplicateFacts, EmptyList
  <2> QED BY <1>1, <1>2, <2>1, <2>2 DEF Kinds
<1>3. CASE ~(found = << >> /\ kind = "10002")
  <2>1. at' = "close" /\ kind' = kind /\ result' = r
    BY <1>3 DEF QueryEnds
  <2>2. r \in ResultType
    BY <1>1, SeedResultFacts
  <2> QED BY <1>1, <2>1, <2>2
<1> QED
  BY <1>2, <1>3

\* and keeps its state of the right type.
LEMMA TypeNext == TypeInv /\ [Next]_vars => TypeInv'
<1> SUFFICES ASSUME TypeInv, [Next]_vars PROVE TypeInv'
  OBVIOUS
<1>0. primary' = primary => Candidates' = Candidates
  BY DEF Candidates
<1>1. CASE Dialed
  BY <1>0, <1>1 DEF Dialed, TypeInv, TypeOK, Waits
<1>2. CASE SeedFails
  BY <1>2, NextSeedType DEF SeedFails
<1>3. CASE Requested
  <2>1. << >> \in Seq(Urls)
    OBVIOUS
  <2> QED BY <1>0, <1>3, <2>1 DEF Requested, TypeInv, TypeOK, Waits
<1>4. ASSUME NEW sub \in Kinds, NEW event \in Events, ReadEvent(sub, event) PROVE TypeInv'
  <2> DEFINE a == [seed |-> seed, during |-> kind, sub |-> sub, event |-> event]
  <2>1. seed \in Nat /\ kind \in Kinds /\ answers \in Seq(Answer) /\ relay_urls \in Seq(Urls)
    BY CandidatesFacts DEF TypeInv, TypeOK
  <2>2. a \in Answer
    BY <2>1 DEF Answer
  <2>3. answers' = Append(answers, a) /\ Len(answers) < MaxAnswers /\ MaxAnswers \in Nat
    BY <1>4, BootstrapAssumption DEF ReadEvent
  <2> HIDE DEF a
  <2>4. answers' \in Seq(Answer) /\ Len(answers') <= MaxAnswers
    BY <2>1, <2>2, <2>3
  <2>5. relay_urls' \in Seq(Urls)
    <3>1. relay_urls \o ExtractRelayUrlsFromEvent(event) \in Seq(Urls)
      BY <2>1, ExtractFacts, ConcatSet
    <3> QED BY <1>4, <2>1, <3>1 DEF ReadEvent
  <2> QED BY <1>0, <1>4, <2>4, <2>5 DEF ReadEvent, TypeInv, TypeOK, Waits
<1>5. ASSUME QueryEnds, UNCHANGED <<pubkey, primary, seed, expired, relay_urls, answers>> PROVE TypeInv'
  <2>1. at' \in {"request", "close"} /\ kind' \in Kinds /\ result' \in ResultType
    BY <1>5, QueryEndsType
  <2>2. result'.ok \in BOOLEAN /\ result'.source \in Kinds \cup {"none", "fallback"} /\ result'.relay_urls \in Seq(Urls)
    BY <2>1 DEF ResultType
  <2> QED BY <1>0, <1>5, <2>1, <2>2 DEF TypeInv, TypeOK, Waits
<1>6. CASE ReadEose
  BY <1>5, <1>6 DEF ReadEose
<1>7. CASE ReadOther
  BY <1>0, <1>7 DEF ReadOther, TypeInv, TypeOK, Waits
<1>8. CASE CloseReturns
  BY <1>0, <1>8 DEF CloseReturns, TypeInv, TypeOK, Waits
<1>9. CASE EightSeconds
  BY <1>0, <1>9 DEF EightSeconds, TypeInv, TypeOK, Waits
<1>10. CASE Check
  <2>1. CASE expired
    BY <1>5, <1>10, <2>1 DEF Check
  <2>2. CASE ~expired
    BY <1>0, <1>10, <2>2 DEF Check, TypeInv, TypeOK, Waits
  <2> QED BY <2>1, <2>2
<1>11. CASE UNCHANGED vars
  BY <1>0, <1>11 DEF vars, TypeInv, TypeOK
<1> QED
  BY <1>1, <1>2, <1>3, <1>4, <1>6, <1>7, <1>8, <1>9, <1>10, <1>11 DEF Next, Network, Done

\* TypeOK holds in every reachable state: whatever seeds fail, the index never leaves
\* the list of candidates, and what is collected are strings that were listed.
THEOREM BootstrapTypeCorrect == Spec => []TypeOK
<1>1. TypeInv => TypeOK
  BY DEF TypeInv
<1> QED
  BY <1>1, TypeInit, TypeNext, PTL DEF Spec

-----------------------------------------------------------------------------
(* What the result stands for.                                             *)

\* Relay lists hold URLs.
LEMMA ListedAreUrls ==
  ASSUME TypeInv, NEW k
  PROVE  ListedFor(k) \subseteq Urls
<1>1. answers \in Seq(Answer)
  BY DEF TypeInv, TypeOK
<1>2. ToSet(answers) \subseteq Answer
  BY <1>1, SetOfSequence
<1>3. ASSUME NEW a \in Answer PROVE Listed(a) \subseteq Urls
  <2>1. a.event \in Events
    BY DEF Answer
  <2>2. a.event.r_tags \in Seq(Urls) /\ a.event.content \in Seq(Urls)
    BY <2>1, BootstrapAssumption
  <2>3. ToSet(a.event.r_tags) \subseteq Urls /\ ToSet(a.event.content) \subseteq Urls
    BY <2>2, SetOfSequence
  <2> QED BY <2>3 DEF Listed
<1> QED
  BY <1>2, <1>3 DEF ListedFor, Counted

\* Without a new answer, the same is listed for the seed that is asked.
LEMMA SameListed ==
  ASSUME answers' = answers, seed' = seed, NEW k
  PROVE  ListedFor(k)' = ListedFor(k)
BY DEF ListedFor, Counted, Listed

\* A new answer lists its relays for the query it answers, while that one runs.
LEMMA OneMoreListed ==
  ASSUME TypeInv, NEW sub \in Kinds, NEW event \in Events, ReadEvent(sub, event), NEW k
  PROVE  /\ \A a \in ToSet(answers)' : a \in ToSet(answers) \/ a.seed = seed
         /\ sub = kind /\ k = kind =>
              ListedFor(k)' = ListedFor(k) \cup (ToSet(event.r_tags) \cup ToSet(event.content))
         /\ ~(sub = kind /\ k = kind) => ListedFor(k)' = ListedFor(k)
<1> DEFINE a == [seed |-> seed, during |-> kind, sub |-> sub, event |-> event]
<1>1. a \in Answer /\ answers \in Seq(Answer) /\ answers' = Append(answers, a) /\ seed' = seed
  <2>1. seed \in Nat /\ kind \in Kinds /\ answers \in Seq(Answer)
    BY CandidatesFacts DEF TypeInv, TypeOK
  <2>2. a \in Answer
    BY <2>1 DEF Answer
  <2> QED BY <2>1, <2>2 DEF ReadEvent
<1>2. /\ a.seed = seed /\ a.during = kind /\ a.sub = sub
      /\ Listed(a) = ToSet(event.r_tags) \cup ToSet(event.content)
  BY DEF Listed
<1> HIDE DEF a
<1>3. ToSet(answers)' = ToSet(answers) \cup {a}
  <2>1. ToSet(Append(answers, a)) = ToSet(answers) \cup {a}
    BY <1>1, AppendSet
  <2> QED BY <1>1, <2>1 DEF ToSet
<1>4. Counted(k)' = {x \in ToSet(answers) \cup {a} : x.seed = seed /\ x.during = k /\ x.sub = k}
  BY <1>1, <1>3 DEF Counted
<1>5. CASE sub = kind /\ k = kind
  <2>1. Counted(k)' = Counted(k) \cup {a}
    BY <1>2, <1>4, <1>5 DEF Counted
  <2>2. ListedFor(k)' = UNION {Listed(x) : x \in Counted(k)'}
    BY DEF ListedFor, Listed
  <2>3. ListedFor(k)' = ListedFor(k) \cup Listed(a)
    BY <2>1, <2>2 DEF ListedFor
  <2> QED BY <1>2, <1>3, <1>5, <2>3
<1>6. CASE ~(sub = kind /\ k = kind)
  <2>1. Counted(k)' = Counted(k)
    BY <1>2, <1>4, <1>6 DEF Counted
  <2>2. ListedFor(k)' = UNION {Listed(x) : x \in Counted(k)'}
    BY DEF ListedFor, Listed
  <2>3. ListedFor(k)' = ListedFor(k)
    BY <2>1, <2>2 DEF ListedFor
  <2> QED BY <1>2, <1>3, <1>6, <2>3
<1> QED
  BY <1>5, <1>6

\* Setting the field ok to what it is keeps a result.
LEMMA SameOk ==
  ASSUME NEW b, NEW source, NEW urls
  PROVE  LET r == [ok |-> b, source |-> source, relay_urls |-> urls] IN [r EXCEPT !.ok = b] = r
OBVIOUS

\* Nothing has been listed when the job starts,
LEMMA QueryInit == Init => QueryInv
<1> SUFFICES ASSUME Init PROVE QueryInv
  OBVIOUS
<1>1. ToSet(answers) = {}
  BY EmptyList DEF Init
<1>2. ListedFor("3") = {} /\ ListedFor("10002") = {}
  BY <1>1 DEF ListedFor, Counted
<1> QED
  BY <1>1, <1>2 DEF Init, QueryInv, Settled

\* nor when it turns to another seed,
LEMMA NextSeedQuery ==
  ASSUME TypeInv, QueryInv, SeedFails
  PROVE  QueryInv'
<1>1. /\ ~Settled /\ at' \in {"dial", "posted"} /\ kind' = "10002" /\ answers' = answers
      /\ at' = "dial" => seed' = seed + 1
      /\ at' = "posted" => seed' = seed
      /\ result' = [result EXCEPT !.ok = FALSE]
  BY DEF SeedFails, NextSeed, Settled
<1>2. result' = NoResult
  <2>1. result = NoResult
    BY <1>1 DEF QueryInv
  <2>2. [NoResult EXCEPT !.ok = FALSE] = NoResult
    BY SameOk, Zenon DEF NoResult
  <2> QED BY <1>1, <2>1, <2>2
<1>3. seed \in Nat /\ answers \in Seq(Answer)
  BY CandidatesFacts DEF TypeInv, TypeOK
<1>4. \A a \in ToSet(answers) : a.seed \in Nat /\ a.seed <= seed
  <2>1. ToSet(answers) \subseteq Answer
    BY <1>3, SetOfSequence
  <2> QED BY <2>1 DEF QueryInv, Answer
<1>5. ToSet(answers)' = ToSet(answers)
  BY <1>1 DEF ToSet
<1>6. CASE at' = "dial"
  <2>1. Counted("3")' = {} /\ Counted("10002")' = {}
    BY <1>1, <1>3, <1>4, <1>5, <1>6 DEF Counted
  <2>2. ListedFor("3")' = {} /\ ListedFor("10002")' = {}
    BY <2>1 DEF ListedFor
  <2>3. \A a \in ToSet(answers)' : a.seed <= seed'
    BY <1>1, <1>3, <1>4, <1>5, <1>6
  <2> QED BY <1>1, <1>2, <1>6, <2>2, <2>3 DEF QueryInv, Settled
<1>7. CASE at' = "posted"
  BY <1>1, <1>2, <1>4, <1>5, <1>7 DEF QueryInv, Settled, ResultInv
<1> QED
  BY <1>1, <1>6, <1>7

\* and a query that ends has collected what the result is made of.
LEMMA QueryEndsQuery ==
  ASSUME TypeInv, QueryInv, at \in {"check", "read"}, QueryEnds,
         UNCHANGED <<pubkey, primary, seed, expired, relay_urls, answers>>
  PROVE  QueryInv'
<1>1. /\ \A a \in ToSet(answers) : a.seed <= seed
      /\ result = NoResult /\ kind \in Kinds
      /\ kind = "10002" => ListedFor("3") = {}
      /\ kind = "3" => \A u \in ListedFor("10002") : ~Parses(u)
      /\ ToSet(relay_urls) = {u \in ListedFor(kind) : IsRelayUrlLike(u)}
  BY DEF QueryInv, Settled, TypeInv, TypeOK
<1>2. ListedFor("3") \subseteq Urls /\ ListedFor("10002") \subseteq Urls
  BY ListedAreUrls
<1>3. ListedFor("3")' = ListedFor("3") /\ ListedFor("10002")' = ListedFor("10002")
  BY SameListed
<1>4. \A a \in ToSet(answers)' : a.seed <= seed'
  BY <1>1 DEF ToSet
<1>5. kind \in {"10002", "3"}
  BY <1>1 DEF Kinds
<1>6. CASE at' = "request"
  <2>1. kind = "10002" /\ kind' = "3" /\ result' = NoResult /\ \A u \in ToSet(relay_urls) : ~Parses(u)
    BY <1>1, <1>6, QueryEndsType
  <2>2. \A u \in ListedFor("10002") : ~Parses(u)
    BY <1>1, <1>2, <2>1, UrlFacts
  <2> QED BY <1>1, <1>3, <1>4, <1>6, <2>1, <2>2 DEF QueryInv, Settled, Parses
<1>7. CASE at' = "close"
  <2> DEFINE r == LET found == Deduplicate(relay_urls)
                  IN  SeedResult(IF found = << >> THEN "none" ELSE kind, found)
  <2>1. kind' = kind /\ result' = r
    BY <1>7, QueryEndsType
  <2>2. /\ r.ok /\ r.relay_urls # << >>
        /\ ToSet(r.relay_urls) \subseteq {u \in Urls : Secure(u)}
        /\ IsInjective(r.relay_urls)
        /\ r.source \in {kind, "fallback"}
        /\ r.source = kind => ToSet(r.relay_urls) = {u \in ToSet(relay_urls) : Secure(u)}
        /\ r.source = "fallback" => \A u \in ToSet(relay_urls) : ~Secure(u)
    <3>1. primary \in Primaries /\ seed \in 1..Len(Candidates) /\ relay_urls \in Seq(Urls) /\ kind \in Kinds
      BY DEF TypeInv, TypeOK
    <3> QED BY <3>1, SeedResultFacts
  <2> HIDE DEF r
  <2>3. {u \in ToSet(relay_urls) : Secure(u)} = {u \in ListedFor(kind) : Secure(u)}
    BY <1>1, <1>2, <1>5, UrlFacts
  <2>4. r.source = "3" => \A u \in ListedFor("10002") : ~Parses(u)
    BY <1>1, <1>5, <2>2
  <2>5. r.source = "fallback" => \A k \in Kinds : \A u \in ListedFor(k) : ~Secure(u)
    <3> SUFFICES ASSUME r.source = "fallback", NEW k \in Kinds, NEW u \in ListedFor(k)
                 PROVE  ~Secure(u)
      OBVIOUS
    <3>1. u \in Urls /\ k \in {"3", "10002"}
      BY ListedAreUrls DEF Kinds
    <3>2. CASE k = kind
      BY <2>2, <2>3, <3>2
    <3>3. CASE k # kind
      BY <1>1, <1>5, <3>1, <3>3, UrlFacts
    <3> QED BY <3>2, <3>3
  <2>6. r.source \in Kinds => ToSet(r.relay_urls) = {u \in ListedFor(r.source) : Secure(u)}
    BY <2>2, <2>3 DEF Kinds
  <2>7. ResultInv'
    <3>1. \A k : ListedFor(k)' = ListedFor(k)
      BY SameListed
    <3> QED BY <2>1, <2>2, <2>4, <2>5, <2>6, <3>1 DEF ResultInv, ToSet, Secure, Parses
  <2> QED BY <1>4, <1>7, <2>7 DEF QueryInv, Settled
<1> QED
  BY <1>6, <1>7, QueryEndsType

\* A frame adds to the query it answers, and to no other.
LEMMA ReadEventQuery ==
  ASSUME TypeInv, QueryInv, NEW sub \in Kinds, NEW event \in Events, ReadEvent(sub, event)
  PROVE  QueryInv'
<1>1. /\ at = "read" /\ at' = "check" /\ seed' = seed /\ kind' = kind /\ result' = result
      /\ kind \in Kinds /\ seed \in Nat
      /\ relay_urls \in Seq(Urls)
      /\ relay_urls' = IF sub = kind THEN relay_urls \o ExtractRelayUrlsFromEvent(event) ELSE relay_urls
  BY CandidatesFacts DEF ReadEvent, TypeInv, TypeOK
<1>2. /\ \A a \in ToSet(answers) : a.seed <= seed
      /\ result = NoResult
      /\ kind = "10002" => ListedFor("3") = {}
      /\ kind = "3" => \A u \in ListedFor("10002") : ~Parses(u)
      /\ ToSet(relay_urls) = {u \in ListedFor(kind) : IsRelayUrlLike(u)}
  BY <1>1 DEF QueryInv, Settled
<1>3. \A a \in ToSet(answers)' : a.seed <= seed'
  <2>1. \A a \in ToSet(answers)' : a \in ToSet(answers) \/ a.seed = seed
    BY OneMoreListed
  <2> QED BY <1>1, <1>2, <2>1
<1>4. \A k : k # kind => ListedFor(k)' = ListedFor(k)
  BY OneMoreListed
<1> DEFINE more == ToSet(event.r_tags) \cup ToSet(event.content)
<1>5. PICK k : k = kind
  OBVIOUS
<1>6. ToSet(relay_urls') = {u \in ListedFor(k)' : IsRelayUrlLike(u)}
  <2>1. CASE sub = kind
    <3>1. /\ ExtractRelayUrlsFromEvent(event) \in Seq(Urls)
          /\ ToSet(ExtractRelayUrlsFromEvent(event)) = {u \in more : IsRelayUrlLike(u)}
      BY ExtractFacts
    <3>2. ListedFor(k)' = ListedFor(k) \cup more
      BY <1>5, <2>1, OneMoreListed
    <3> HIDE DEF more
    <3>3. ToSet(relay_urls') = ToSet(relay_urls) \cup ToSet(ExtractRelayUrlsFromEvent(event))
      BY <1>1, <2>1, <3>1, ConcatSet
    <3> QED BY <1>2, <1>5, <3>1, <3>2, <3>3
  <2>2. CASE sub # kind
    <3>1. ListedFor(k)' = ListedFor(k)
      BY <2>2, OneMoreListed
    <3> QED BY <1>1, <1>2, <1>5, <2>2, <3>1
  <2> QED BY <2>1, <2>2
<1>7. /\ kind' = "10002" => ListedFor("3")' = {}
      /\ kind' = "3" => \A u \in ListedFor("10002")' : ~Parses(u)
  BY <1>1, <1>2, <1>4
<1>8. ListedFor(kind)' = ListedFor(k)'
  BY <1>1, <1>5 DEF ListedFor, Counted
<1>9. ToSet(relay_urls)' = {u \in ListedFor(kind)' : IsRelayUrlLike(u)}
  BY <1>6, <1>8 DEF ToSet
<1> QED
  BY <1>1, <1>2, <1>3, <1>7, <1>9 DEF QueryInv, Settled, Parses, IsRelayUrlLike

\* The other steps neither ask, nor answer, nor decide.
LEMMA SameQuery ==
  ASSUME UNCHANGED <<seed, kind, result, answers>>
  PROVE  /\ ListedFor(kind)' = ListedFor(kind)
         /\ ListedFor("3")' = ListedFor("3")
         /\ ListedFor("10002")' = ListedFor("10002")
         /\ ToSet(answers)' = ToSet(answers)
         /\ ResultInv' <=> ResultInv
<1>1. \A k : ListedFor(k)' = ListedFor(k)
  BY SameListed
<1>2. ListedFor(kind)' = ListedFor(kind)
  BY DEF ListedFor, Counted, Listed
<1>3. ListedFor(result.source)' = ListedFor(result.source)
  BY DEF ListedFor, Counted, Listed
<1> QED
  BY <1>1, <1>2, <1>3 DEF ToSet, ResultInv, Secure, Parses

\* Every step keeps QueryInv.
LEMMA QueryNext == TypeInv /\ QueryInv /\ [Next]_vars => QueryInv'
<1> SUFFICES ASSUME TypeInv, QueryInv, [Next]_vars PROVE QueryInv'
  OBVIOUS
<1>0. ASSUME UNCHANGED <<seed, kind, relay_urls, result, answers>>,
             \/ at' = at
             \/ at = "dial" /\ at' = "request"
             \/ at \in {"check", "read"} /\ at' \in {"check", "read"}
             \/ at = "close" /\ at' = "posted"
      PROVE  QueryInv'
  <2>1. /\ ListedFor(kind)' = ListedFor(kind)
        /\ ListedFor("3")' = ListedFor("3")
        /\ ListedFor("10002")' = ListedFor("10002")
        /\ ToSet(answers)' = ToSet(answers)
        /\ ResultInv' <=> ResultInv
    BY <1>0, SameQuery
  <2>2. ToSet(relay_urls)' = ToSet(relay_urls)
    BY <1>0 DEF ToSet
  <2> QED BY <1>0, <2>1, <2>2 DEF QueryInv, Settled, Parses, IsRelayUrlLike
<1>1. CASE Dialed
  BY <1>0, <1>1 DEF Dialed
<1>2. CASE SeedFails
  BY <1>2, NextSeedQuery
<1>3. CASE Requested
  <2>1. /\ ListedFor(kind)' = ListedFor(kind)
        /\ ListedFor("3")' = ListedFor("3")
        /\ ListedFor("10002")' = ListedFor("10002")
        /\ ToSet(answers)' = ToSet(answers)
    BY <1>3, SameQuery DEF Requested
  <2>2. ToSet(relay_urls)' = {}
    <3>1. ToSet(<< >>) = {}
      BY EmptyList
    <3> QED BY <1>3, <3>1 DEF Requested, ToSet
  <2>3. ListedFor(kind) = {}
    BY <1>3 DEF Requested, QueryInv, Settled
  <2>4. /\ at' = "check" /\ kind' = kind /\ seed' = seed /\ result' = result /\ ~Settled /\ ~Settled'
    BY <1>3 DEF Requested, Settled
  <2> QED BY <2>1, <2>2, <2>3, <2>4 DEF QueryInv, Parses, IsRelayUrlLike
<1>4. ASSUME NEW sub \in Kinds, NEW event \in Events, ReadEvent(sub, event) PROVE QueryInv'
  BY <1>4, ReadEventQuery
<1>5. CASE ReadEose
  BY <1>5, QueryEndsQuery DEF ReadEose
<1>6. CASE ReadOther
  BY <1>0, <1>6 DEF ReadOther
<1>7. CASE CloseReturns
  BY <1>0, <1>7 DEF CloseReturns
<1>8. CASE EightSeconds
  BY <1>0, <1>8 DEF EightSeconds
<1>9. CASE Check
  <2>1. CASE expired
    BY <1>9, <2>1, QueryEndsQuery DEF Check
  <2>2. CASE ~expired
    BY <1>0, <1>9, <2>2 DEF Check
  <2> QED BY <2>1, <2>2
<1>10. CASE UNCHANGED vars
  BY <1>0, <1>10 DEF vars
<1> QED
  BY <1>1, <1>2, <1>3, <1>4, <1>5, <1>6, <1>7, <1>8, <1>9, <1>10 DEF Next, Network, Done

\* Both invariants hold in every reachable state.
LEMMA QueryInvariant == Spec => [](TypeInv /\ QueryInv)
BY TypeInit, TypeNext, QueryInit, QueryNext, PTL DEF Spec

\* ResultIsMonitorable: a result has relays when it is ok, and then each of them parses
\* as wss:// and is there once.
THEOREM ResultsAreFit == Spec => []ResultIsMonitorable
<1>1. TypeInv /\ QueryInv => ResultIsMonitorable
  <2> SUFFICES ASSUME TypeInv, QueryInv, at = "posted"
               PROVE  /\ result.ok <=> result.relay_urls # << >>
                      /\ \A i \in DOMAIN result.relay_urls : Secure(result.relay_urls[i])
                      /\ IsInjective(result.relay_urls)
    BY DEF ResultIsMonitorable
  <2>1. ResultInv
    BY DEF QueryInv, Settled
  <2>2. CASE result = NoResult
    <3>1. result.ok = FALSE /\ result.relay_urls = << >> /\ DOMAIN << >> = {}
      BY <2>2 DEF NoResult
    <3> QED BY <3>1 DEF IsInjective
  <2>3. CASE result # NoResult
    <3>1. /\ result.ok /\ result.relay_urls # << >>
          /\ ToSet(result.relay_urls) \subseteq {u \in Urls : Secure(u)}
          /\ IsInjective(result.relay_urls)
      BY <2>1, <2>3 DEF ResultInv
    <3> QED BY <3>1 DEF ToSet
  <2> QED BY <2>2, <2>3
<1> QED
  BY <1>1, QueryInvariant, PTL

\* ResultIsWhatTheSeedListed: the relays of a result are all those, and only those, that
\* the answering seed listed in its answers to the query the result names.
THEOREM ResultsComeFromOneSeed == Spec => []ResultIsWhatTheSeedListed
<1>1. TypeInv /\ QueryInv => ResultIsWhatTheSeedListed
  <2> SUFFICES ASSUME QueryInv, at = "posted", result.ok, result.source \in Kinds
               PROVE  ToSet(result.relay_urls) = {u \in ListedFor(result.source) : Secure(u)}
    BY DEF ResultIsWhatTheSeedListed, ListedFor
  <2>1. result # NoResult
    BY DEF NoResult
  <2> QED BY <2>1 DEF QueryInv, Settled, ResultInv
<1> QED
  BY <1>1, QueryInvariant, PTL

\* NewerListWins: a contact list is used only when the seed listed no relay as NIP-65
\* has it, the fallback set only when it listed none that can be monitored.
THEOREM ContactsAreSecondChoice == Spec => []NewerListWins
<1>1. TypeInv /\ QueryInv => NewerListWins
  <2> SUFFICES ASSUME QueryInv, at = "posted", result.ok
               PROVE  /\ result.source = "3" => \A u \in ListedFor("10002") : ~Parses(u)
                      /\ result.source = "fallback" => \A k \in Kinds : \A u \in ListedFor(k) : ~Secure(u)
    BY DEF NewerListWins, ListedFor
  <2>1. result # NoResult
    BY DEF NoResult
  <2> QED BY <2>1 DEF QueryInv, Settled, ResultInv
<1> QED
  BY <1>1, QueryInvariant, PTL

=============================================================================
