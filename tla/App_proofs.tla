------------------------------- MODULE App_proofs -------------------------------
(***************************************************************************)
(* Proofs about App for any relays, log lines, texts and commands, any     *)
(* length of the log, any page size and any terminal height.               *)
(***************************************************************************)
EXTENDS App, FiniteSetTheorems, SequenceTheorems, Induction_proofs

-----------------------------------------------------------------------------
(* The snapshot of the rows.                                               *)

Ascending(s, n) == \A i, j \in 1..n : i < j => s[i] < s[j]

\* A finite set of naturals has its members in ascending order.
LEMMA Sorting ==
  ASSUME NEW S, S \subseteq Nat, IsFiniteSet(S)
  PROVE  \E s \in [1..Cardinality(S) -> S] : Ascending(s, Cardinality(S))
<1> DEFINE Sorted(R) == \E s \in [1..Cardinality(R) -> R] : Ascending(s, Cardinality(R))
           N         == Cardinality(S)
           Sortable  == {n \in 0..N : \A R \in SUBSET Nat :
                           IsFiniteSet(R) /\ Cardinality(R) = n => Sorted(R)}
<1>1. N \in Nat
  BY FS_CardinalityType
<1>2. 0 \in Sortable
  <2> SUFFICES ASSUME NEW R \in SUBSET Nat, IsFiniteSet(R), Cardinality(R) = 0
               PROVE  Sorted(R)
    BY <1>1
  <2>1. << >> \in [1..0 -> R] /\ Ascending(<< >>, 0)
    BY DEF Ascending
  <2> QED BY <2>1
<1>3. ASSUME NEW n \in 1..N, n - 1 \in Sortable
      PROVE  n \in Sortable
  <2> SUFFICES ASSUME NEW R \in SUBSET Nat, IsFiniteSet(R), Cardinality(R) = n
               PROVE  Sorted(R)
    OBVIOUS
  <2>1. R # {}
    BY FS_EmptySet
  <2>2. PICK least \in R : \A r \in R : least <= r
    BY <2>1, LeastMember
  <2> DEFINE Others == R \ {least}
  <2>3. IsFiniteSet(Others) /\ Cardinality(Others) = n - 1
    BY FS_RemoveElement
  <2>4. Sorted(Others)
    BY <1>3, <2>3
  <2>5. PICK t \in [1..n - 1 -> Others] : Ascending(t, n - 1)
    BY <2>3, <2>4
  <2> DEFINE s == [i \in 1..n |-> IF i = 1 THEN least ELSE t[i - 1]]
  <2>6. s \in [1..n -> R]
    OBVIOUS
  <2>7. Ascending(s, n)
    <3> SUFFICES ASSUME NEW i \in 1..n, NEW j \in 1..n, i < j PROVE s[i] < s[j]
      BY DEF Ascending
    <3>1. t[j - 1] \in Others /\ s[j] = t[j - 1]
      OBVIOUS
    <3>2. CASE i = 1
      <4>1. s[i] = least
        BY <3>2
      <4>2. least \in Nat /\ t[j - 1] \in Nat /\ least <= t[j - 1] /\ least # t[j - 1]
        BY <2>2, <3>1
      <4> HIDE DEF s, Others
      <4> QED BY <3>1, <4>1, <4>2
    <3>3. CASE i # 1
      <4>1. i - 1 \in 1..n - 1 /\ j - 1 \in 1..n - 1 /\ i - 1 < j - 1 /\ s[i] = t[i - 1]
        BY <3>3
      <4> QED BY <2>5, <3>1, <4>1 DEF Ascending
    <3> QED BY <3>2, <3>3
  <2> HIDE DEF s
  <2> QED BY <2>6, <2>7
<1> HIDE DEF Sortable
<1>4. \A n \in 0..N : n \in Sortable
  BY <1>1, <1>2, <1>3, InductionUpTo
<1> QED
  BY <1>1, <1>4 DEF Sortable

\* RelayStats::Snapshot has every row once.
LEMMA SnapshotFacts ==
  ASSUME rows \subseteq Relays, IsFiniteSet(rows)
  PROVE  Snapshot \in Seq(rows) /\ Len(Snapshot) = Cardinality(rows) /\ Len(Snapshot) \in Nat
<1>1. Cardinality(rows) \in Nat
  BY FS_CardinalityType
<1>2. Snapshot \in [1..Cardinality(rows) -> rows]
  BY AppAssumption, Sorting DEF Snapshot, Ascending
<1> QED
  BY <1>1, <1>2

\* There is a row to highlight unless there is none at all.
LEMMA SnapshotIsEmpty ==
  ASSUME rows \subseteq Relays, IsFiniteSet(rows)
  PROVE  Len(Snapshot) = 0 <=> rows = {}
BY SnapshotFacts, FS_EmptySet

-----------------------------------------------------------------------------
(* The navigation functions.                                               *)

Indices(found, n) ==
  found \in Seq(Nat) /\ Len(found) <= n /\ \A k \in 1..Len(found) : found[k] < n

\* What one more line does to the indices found so far.
LEMMA OneMoreIndex ==
  ASSUME NEW n \in Nat
  PROVE  /\ Indices(<< >>, n)
         /\ \A found : Indices(found, n) =>
              Indices(found, n + 1) /\ Indices(Append(found, n), n + 1)
<1>1. Indices(<< >>, n)
  BY DEF Indices
<1>2. ASSUME NEW found, Indices(found, n)
      PROVE  Indices(found, n + 1)
  BY <1>2 DEF Indices
<1>3. ASSUME NEW found, Indices(found, n)
      PROVE  Indices(Append(found, n), n + 1)
  <2>1. /\ Append(found, n) \in Seq(Nat) /\ Len(Append(found, n)) = Len(found) + 1
        /\ \A k \in 1..Len(found) : Append(found, n)[k] = found[k]
        /\ Append(found, n)[Len(found) + 1] = n /\ Len(found) \in Nat
    BY <1>3, AppendProperties DEF Indices
  <2> QED BY <1>3, <2>1 DEF Indices
<1> QED BY <1>1, <1>2, <1>3

\* FindLogMatches returns indices of lines, at most one for each.
LEMMA MatchesFacts ==
  ASSUME NEW T, NEW lines \in Seq(T), NEW query
  PROVE  /\ FindLogMatches(lines, query) \in Seq(Nat)
         /\ Len(FindLogMatches(lines, query)) \in 0..Len(lines)
         /\ \A k \in 1..Len(FindLogMatches(lines, query)) :
              FindLogMatches(lines, query)[k] < Len(lines)
<1> DEFINE N == Len(lines)
           next(n, found) == IF n = 0 \/ query = << >> THEN << >>
                             ELSE IF Occurs(query, lines[n]) THEN Append(found, n - 1) ELSE found
           step == [n \in 1..N |-> [found \in Seq(Nat) |-> next(n, found)]]
<1>1. N \in Nat
  OBVIOUS
<1>2. step \in [1..N -> [Seq(Nat) -> Seq(Nat)]]
  <2>1. ASSUME NEW n \in 1..N, NEW found \in Seq(Nat) PROVE next(n, found) \in Seq(Nat)
    <3>1. n - 1 \in Nat
      OBVIOUS
    <3> QED BY <3>1
  <2> HIDE DEF next
  <2> QED BY <2>1
<1>3. PICK f \in [0..N -> Seq(Nat)] :
        f[0] = << >> /\ \A n \in 1..N : f[n] = step[n][f[n - 1]]
  <2>1. << >> \in Seq(Nat)
    OBVIOUS
  <2> DEFINE V == Seq(Nat)
  <2>2. << >> \in V /\ N \in Nat /\ step \in [1..N -> [V -> V]]
    BY <1>1, <1>2, <2>1
  <2> HIDE DEF step, N, V
  <2>3. \E f \in [0..N -> V] : f[0] = << >> /\ \A n \in 1..N : f[n] = step[n][f[n - 1]]
    BY <2>2, RecursionUpTo
  <2> QED BY <2>3 DEF V
<1>4. f = [n \in 0..N |-> next(n, f[n - 1])]
  <2>1. ASSUME NEW n \in 0..N PROVE f[n] = next(n, f[n - 1])
    <3>1. CASE n = 0
      BY <1>3, <3>1
    <3>2. CASE n # 0
      <4>1. n \in 1..N /\ n - 1 \in 0..N
        BY <1>1, <3>2
      <4>3. f[n - 1] \in Seq(Nat)
        <5> HIDE DEF step, N, next
        <5> QED BY <1>3, <4>1
      <4>2. f[n] = step[n][f[n - 1]]
        <5> HIDE DEF step, N, next
        <5> QED BY <1>3, <4>1
      <4> HIDE DEF next
      <4> QED BY <4>1, <4>2, <4>3
    <3> QED BY <3>1, <3>2
  <2> HIDE DEF next
  <2> DEFINE g == [n \in 0..N |-> next(n, f[n - 1])]
  <2>2. f = [n \in 0..N |-> f[n]]
    BY <1>3
  <2>3. g = [n \in 0..N |-> f[n]]
    BY <2>1
  <2> QED BY <2>2, <2>3
<1> DEFINE upTo == CHOOSE h : h = [n \in 0..N |-> next(n, h[n - 1])]
<1>5. upTo = [n \in 0..N |-> next(n, upTo[n - 1])]
  <2> HIDE DEF next
  <2> QED BY <1>4
<1>6. FindLogMatches(lines, query) = upTo[N]
  BY DEF FindLogMatches
<1> HIDE DEF upTo
<1> DEFINE Good == {n \in 0..N : Indices(upTo[n], n)}
<1>7. 0 \in Good
  <2>1. upTo[0] = << >>
    BY <1>1, <1>5
  <2> QED BY <1>1, <2>1, OneMoreIndex
<1>8. ASSUME NEW n \in 1..N, n - 1 \in Good PROVE n \in Good
  <2>1. n \in 0..N /\ n - 1 \in 0..N /\ n - 1 \in Nat /\ (n - 1) + 1 = n
    BY <1>1
  <2>2. Indices(upTo[n - 1], n - 1)
    BY <1>8
  <2>3. upTo[n] \in {<< >>, upTo[n - 1], Append(upTo[n - 1], n - 1)}
    BY <1>5, <2>1
  <2>4. Indices(upTo[n], n)
    <3> HIDE DEF N
    <3> QED BY <2>1, <2>2, <2>3, OneMoreIndex
  <2> QED BY <2>1, <2>4
<1> HIDE DEF Good
<1>9. \A n \in 0..N : n \in Good
  BY <1>1, <1>7, <1>8, InductionUpTo
<1>10. Indices(upTo[N], N)
  BY <1>1, <1>9 DEF Good
<1> QED
  BY <1>1, <1>6, <1>10 DEF Indices

\* `to` is a navigation state with the query, and outside search that is all that
\* has to stay.
KeepsQuery(from, to) == to \in NavigationState /\ to.query = from.query

\* Replacing numbers and flags of a navigation state keeps the query.
LEMMA ReplacedFacts ==
  ASSUME NEW n \in NavigationState, NEW selected \in Nat, NEW scroll \in Nat,
         NEW follow \in BOOLEAN, NEW pending_g \in BOOLEAN, NEW ordinal \in Nat
  PROVE  /\ KeepsQuery(n, [n EXCEPT !.selected = selected])
         /\ KeepsQuery(n, [n EXCEPT !.scroll = scroll])
         /\ KeepsQuery(n, [n EXCEPT !.scroll = scroll, !.follow = follow])
         /\ KeepsQuery(n, [n EXCEPT !.scroll = scroll, !.selected = selected])
         /\ KeepsQuery(n, [n EXCEPT !.selected = selected, !.scroll = scroll, !.pending_g = pending_g])
         /\ KeepsQuery(n, [n EXCEPT !.ordinal = ordinal, !.follow = follow, !.scroll = scroll])
         /\ KeepsQuery(n, [n EXCEPT !.pending_g = pending_g])
         /\ KeepsQuery(n, [n EXCEPT !.follow = follow])
BY DEF KeepsQuery, NavigationState

\* Subtraction that stops at zero.
LEMMA LessFacts ==
  ASSUME NEW a \in Nat, NEW b \in Nat
  PROVE  Less(a, b) \in Nat /\ Less(a, b) <= a
BY DEF Less

\* What a movement returns is a navigation state with the same query.
LEMMA MovementFacts ==
  ASSUME NEW n \in NavigationState, NEW relays \in Nat, NEW lines \in Nat
  PROVE  /\ KeepsQuery(n, JumpToTop(n))
         /\ KeepsQuery(n, JumpToBottom(n, relays, lines))
         /\ KeepsQuery(n, JumpToPaneStart(n))
         /\ KeepsQuery(n, JumpToPaneEnd(n, relays, lines))
         /\ KeepsQuery(n, MoveSelectionDown(n, relays))
         /\ KeepsQuery(n, MoveSelectionUp(n))
         /\ KeepsQuery(n, MovePageDown(n, relays))
         /\ KeepsQuery(n, MovePageUp(n))
<1> DEFINE last  == IF relays > 0 THEN relays - 1 ELSE n.selected
           end   == IF lines > kLogPageLines THEN lines - kLogPageLines ELSE n.scroll
           down  == IF n.selected + 1 < relays THEN n.selected + 1 ELSE n.selected
           below == IF n.selected + kRelayPage < relays - 1 THEN n.selected + kRelayPage
                    ELSE relays - 1
<1>1. n.selected \in Nat /\ n.scroll \in Nat /\ KeepsQuery(n, n)
  BY DEF NavigationState, KeepsQuery
<1>2. /\ last \in Nat /\ end \in Nat /\ down \in Nat /\ (relays # 0 => below \in Nat)
      /\ n.scroll + 1 \in Nat /\ n.scroll + kLogPageLines \in Nat
  BY <1>1, PageAssumption
<1>3. /\ Less(lines, kLogPageLines) \in Nat /\ Less(n.selected, 1) \in Nat
      /\ Less(n.scroll, 1) \in Nat /\ Less(n.scroll, kLogPageLines) \in Nat
      /\ Less(n.selected, kRelayPage) \in Nat
  BY <1>1, PageAssumption, LessFacts
<1>4. KeepsQuery(n, JumpToTop(n))
  BY ReplacedFacts DEF JumpToTop
<1>5. JumpToBottom(n, relays, lines) =
        IF n.pane = "relays" THEN [n EXCEPT !.selected = last] ELSE [n EXCEPT !.scroll = end]
  BY DEF JumpToBottom
<1>6. KeepsQuery(n, JumpToPaneStart(n))
  BY ReplacedFacts DEF JumpToPaneStart
<1>7. JumpToPaneEnd(n, relays, lines) =
        IF n.pane = "relays" THEN [n EXCEPT !.selected = last]
        ELSE [n EXCEPT !.scroll = Less(lines, kLogPageLines), !.follow = FALSE]
  BY DEF JumpToPaneEnd
<1>8. MoveSelectionDown(n, relays) =
        IF n.pane = "relays" THEN [n EXCEPT !.selected = down]
        ELSE [n EXCEPT !.scroll = n.scroll + 1, !.follow = FALSE]
  BY DEF MoveSelectionDown
<1>9. KeepsQuery(n, MoveSelectionUp(n))
  BY <1>3, ReplacedFacts DEF MoveSelectionUp
<1>10. MovePageDown(n, relays) =
         IF n.pane = "logs" THEN [n EXCEPT !.scroll = n.scroll + kLogPageLines, !.follow = FALSE]
         ELSE IF relays = 0 THEN n ELSE [n EXCEPT !.selected = below]
  BY DEF MovePageDown
<1>11. KeepsQuery(n, MovePageUp(n))
  BY <1>3, ReplacedFacts DEF MovePageUp
<1> HIDE DEF last, end, down, below
<1>12. \A x \in Nat : /\ KeepsQuery(n, [n EXCEPT !.selected = x])
                      /\ KeepsQuery(n, [n EXCEPT !.scroll = x])
                      /\ KeepsQuery(n, [n EXCEPT !.scroll = x, !.follow = FALSE])
  BY ReplacedFacts
<1>13. KeepsQuery(n, JumpToBottom(n, relays, lines))
  <2>1. CASE n.pane = "relays" BY <1>2, <1>5, <1>12, <2>1
  <2>2. CASE n.pane # "relays" BY <1>2, <1>5, <1>12, <2>2
  <2> QED BY <2>1, <2>2
<1>14. KeepsQuery(n, JumpToPaneEnd(n, relays, lines))
  <2>1. CASE n.pane = "relays" BY <1>2, <1>7, <1>12, <2>1
  <2>2. CASE n.pane # "relays" BY <1>3, <1>7, <1>12, <2>2
  <2> QED BY <2>1, <2>2
<1>15. KeepsQuery(n, MoveSelectionDown(n, relays))
  <2>1. CASE n.pane = "relays" BY <1>2, <1>8, <1>12, <2>1
  <2>2. CASE n.pane # "relays" BY <1>2, <1>8, <1>12, <2>2
  <2> QED BY <2>1, <2>2
<1>16. KeepsQuery(n, MovePageDown(n, relays))
  <2>1. CASE n.pane = "logs" BY <1>2, <1>10, <1>12, <2>1
  <2>2. CASE n.pane # "logs" /\ relays = 0 BY <1>1, <1>10, <2>2
  <2>3. CASE n.pane # "logs" /\ relays # 0 BY <1>2, <1>10, <1>12, <2>3
  <2> QED BY <2>1, <2>2, <2>3
<1> QED
  BY <1>4, <1>6, <1>9, <1>11, <1>13, <1>14, <1>15, <1>16

\* A remainder is smaller than the divisor.
LEMMA RemainderFacts ==
  ASSUME NEW a \in Nat, NEW n \in Nat \ {0}
  PROVE  a % n \in 0..n - 1
OBVIOUS

\* The ordinal AdvanceLogMatch goes to: the next, or the one before, in a circle.
NextOrdinal(ordinal, n, forward) == (ordinal + (IF forward THEN 1 ELSE n - 1)) % n

\* AdvanceLogMatch in the log pane of a log with matches, and elsewhere.
LEMMA AdvanceFacts ==
  ASSUME NEW n \in NavigationState, NEW T, NEW lines \in Seq(T), NEW forward \in BOOLEAN
  PROVE  LET count == Len(FindLogMatches(lines, n.query)) IN
         /\ KeepsQuery(n, AdvanceLogMatch(n, lines, forward))
         /\ AdvanceLogMatch(n, lines, forward).pane = n.pane
         /\ n.pane = "logs" /\ count # 0 =>
              AdvanceLogMatch(n, lines, forward).ordinal = NextOrdinal(n.ordinal, count, forward)
<1> DEFINE matches == FindLogMatches(lines, n.query)
           count   == Len(matches)
           ordinal == NextOrdinal(n.ordinal, count, forward)
           scroll  == Less(matches[ordinal + 1], kMatchContext)
           moved   == [n EXCEPT !.ordinal = ordinal, !.follow = FALSE, !.scroll = scroll]
<1>1. matches \in Seq(Nat) /\ count \in Nat
  BY MatchesFacts
<1>2. AdvanceLogMatch(n, lines, forward) = IF n.pane # "logs" \/ count = 0 THEN n ELSE moved
  BY DEF AdvanceLogMatch, NextOrdinal
<1>3. CASE n.pane # "logs" \/ count = 0
  BY <1>2, <1>3 DEF KeepsQuery
<1>4. CASE n.pane = "logs" /\ count # 0
  <2>1. n.ordinal \in Nat
    BY DEF NavigationState
  <2>2. ordinal \in 0..count - 1
    <3>1. n.ordinal + (IF forward THEN 1 ELSE count - 1) \in Nat /\ count \in Nat \ {0}
      BY <1>1, <1>4, <2>1
    <3> HIDE DEF count
    <3> QED BY <3>1, RemainderFacts DEF NextOrdinal
  <2> HIDE DEF ordinal, matches
  <2>3. ordinal + 1 \in 1..Len(matches) /\ ordinal \in Nat
    BY <1>1, <2>2
  <2>4. scroll \in Nat
    <3>1. matches[ordinal + 1] \in Nat
      BY <1>1, <2>3
    <3> QED BY <3>1, PageAssumption, LessFacts
  <2> HIDE DEF scroll
  <2>5. KeepsQuery(n, moved)
    BY <2>3, <2>4, ReplacedFacts
  <2>6. moved.ordinal = ordinal /\ moved.pane = n.pane
    BY DEF NavigationState
  <2> QED
    BY <1>2, <1>4, <2>5, <2>6 DEF ordinal, matches
<1> QED
  BY <1>3, <1>4

-----------------------------------------------------------------------------
(* Type correctness.  A snapshot has an end because the table is finite.    *)

TypeInv == TypeOK /\ IsFiniteSet(rows)

\* A navigation state whose scroll position and query are within their bounds.
Bounded(n) == n \in NavigationState /\ n.scroll <= MaxScroll /\ Len(n.query) <= MaxQuery

\* Forgetting a first g, or setting one, keeps the bounds.
LEMMA PendingKeepsBounds ==
  ASSUME NEW n, Bounded(n), NEW g \in BOOLEAN
  PROVE  Bounded([n EXCEPT !.pending_g = g])
BY DEF Bounded, NavigationState

\* A movement keeps the bounds where it stays within the scroll position's.
LEMMA KeptQueryKeepsBounds ==
  ASSUME NEW n, Bounded(n), NEW m, KeepsQuery(n, m), m.scroll <= MaxScroll
  PROVE  Bounded(m)
BY DEF Bounded, KeepsQuery

\* LogBuffer::Push keeps at most kMaxEntries lines.
LEMMA PushFacts ==
  ASSUME NEW entries \in Seq(Lines), Len(entries) <= kMaxEntries, NEW line \in Lines
  PROVE  Push(line, entries) \in Seq(Lines) /\ Len(Push(line, entries)) <= kMaxEntries
<1> DEFINE longer == Append(entries, line)
<1>1. longer \in Seq(Lines) /\ Len(longer) = Len(entries) + 1 /\ longer # << >>
  BY AppendProperties
<1>2. Tail(longer) \in Seq(Lines) /\ Len(Tail(longer)) = Len(longer) - 1
  BY <1>1, HeadTailProperties
<1> HIDE DEF longer
<1>3. Push(line, entries) = IF Len(longer) > kMaxEntries THEN Tail(longer) ELSE longer
  BY DEF Push, longer
<1> QED
  BY <1>1, <1>2, <1>3, AppAssumption

\* The log pane never has more lines than the log.
LEMMA VisibleFacts ==
  ASSUME TypeOK
  PROVE  Len(Visible) \in Nat /\ Len(Visible) <= Len(log)
<1> DEFINE matches == FindLogMatches(log, nav.query)
<1>1. log \in Seq(Lines) /\ Len(log) \in Nat
  BY DEF TypeOK
<1>2. Len(matches) \in 0..Len(log)
  BY <1>1, MatchesFacts
<1>3. Visible = IF nav.query = << >> THEN log
                ELSE [k \in 1..Len(matches) |-> log[matches[k] + 1]]
  BY DEF Visible
<1> HIDE DEF matches
<1> QED
  BY <1>1, <1>2, <1>3

\* The scroll position of a frame is within the bound,
LEMMA ScrollForFacts ==
  ASSUME TypeOK, NEW lines \in LogLines
  PROVE  ScrollFor(lines) \in Nat /\ ScrollFor(lines) <= MaxScroll
<1>1. Len(Visible) \in Nat /\ Len(Visible) <= MaxScroll
  BY VisibleFacts, AppAssumption DEF TypeOK
<1>2. nav.scroll \in Nat /\ nav.scroll <= MaxScroll
  BY DEF TypeOK, NavigationState
<1> QED
  BY <1>1, <1>2, AppAssumption DEF ScrollFor, Less

\* and its selection is a row, where there is one.
LEMMA ClampedFacts ==
  ASSUME TypeInv
  PROVE  /\ ClampedSelection \in Nat
         /\ rows # {} => Snapshot[ClampedSelection + 1] \in rows
<1>1. nav.selected \in Nat /\ rows \subseteq Relays
  BY DEF TypeInv, TypeOK, NavigationState
<1>2. Snapshot \in Seq(rows) /\ Len(Snapshot) \in Nat /\ (Len(Snapshot) = 0 <=> rows = {})
  BY <1>1, SnapshotFacts, SnapshotIsEmpty DEF TypeInv
<1>3. rows # {} => ClampedSelection \in 0..Len(Snapshot) - 1
  BY <1>1, <1>2 DEF ClampedSelection, Least
<1> QED
  BY <1>1, <1>2, <1>3 DEF ClampedSelection

\* A key of Normal mode that moves keeps the types.
LEMMA MoveType ==
  ASSUME TypeInv, NEW to, KeepsQuery(nav, to), Move(to)
  PROVE  TypeInv'
<1>1. Bounded(nav)
  BY DEF TypeInv, TypeOK, Bounded
<1>2. Bounded(to)
  BY <1>1, KeptQueryKeepsBounds DEF Move
<1>3. Bounded(nav')
  BY <1>2, PendingKeepsBounds DEF Move
<1> QED
  BY <1>3 DEF Move, TypeInv, TypeOK, Bounded

\* So does one that enters a mode.
LEMMA EnterType ==
  ASSUME TypeInv, NEW m \in {"insert", "command", "search"}, NEW to,
         KeepsQuery(nav, to), to.scroll = nav.scroll, Enter(m, to)
  PROVE  TypeInv'
<1>1. Bounded(nav)
  BY DEF TypeInv, TypeOK, Bounded
<1>2. Bounded(to)
  BY <1>1, KeptQueryKeepsBounds DEF Bounded
<1>3. Bounded(nav')
  BY <1>2, PendingKeepsBounds DEF Enter
<1> QED
  BY <1>3 DEF Enter, TypeInv, TypeOK, Bounded

\* So does typing a search, whose length Searching's callers limit.
LEMMA SearchingType ==
  ASSUME TypeInv, NEW query \in Seq(Characters), Len(query) <= MaxQuery, NEW ordinal \in Nat,
         NEW next \in {"search", "normal"}, Searching(query, ordinal, next)
  PROVE  TypeInv'
<1>1. nav \in NavigationState /\ nav.scroll <= MaxScroll
  BY DEF TypeInv, TypeOK
<1> DEFINE g == IF next = "normal" THEN FALSE ELSE nav.pending_g
<1>2. g \in BOOLEAN
  BY <1>1 DEF NavigationState
<1>3. nav' = [nav EXCEPT !.query = query, !.ordinal = ordinal, !.pending_g = g]
  BY DEF Searching
<1> HIDE DEF g
<1>4. Bounded(nav')
  BY <1>1, <1>2, <1>3 DEF Bounded, NavigationState
<1> QED
  BY <1>4 DEF Searching, TypeInv, TypeOK, Bounded

\* A query that is short enough keeps the bounds.
LEMMA QueryReplaced ==
  ASSUME NEW n \in NavigationState, n.scroll <= MaxScroll,
         NEW query \in Seq(Characters), Len(query) <= MaxQuery
  PROVE  /\ Bounded([n EXCEPT !.query = query, !.ordinal = 0])
         /\ Bounded([n EXCEPT !.query = query, !.ordinal = 0, !.follow = FALSE])
<1> DEFINE ordinal == 0
           follow  == FALSE
<1>1. ordinal \in Nat /\ follow \in BOOLEAN
  OBVIOUS
<1> HIDE DEF ordinal, follow
<1>2. /\ Bounded([n EXCEPT !.query = query, !.ordinal = ordinal])
      /\ Bounded([n EXCEPT !.query = query, !.ordinal = ordinal, !.follow = follow])
  BY <1>1 DEF Bounded, NavigationState
<1> QED BY <1>2 DEF ordinal, follow

\* What a command leaves of the navigation state is within the bounds.
LEMMA NavAfterFacts ==
  ASSUME TypeInv
  PROVE  Bounded(NavAfter(command_line))
<1>1. /\ nav \in NavigationState /\ nav.scroll <= MaxScroll /\ Len(nav.query) <= MaxQuery
      /\ command_line \in CommandLines \cup {NoCommand}
  BY DEF TypeInv, TypeOK
<1>2. CASE command_line.name = "clearlogs"
  <2>1. NavAfter(command_line) = [nav EXCEPT !.scroll = 0, !.follow = TRUE]
    BY <1>2 DEF NavAfter
  <2>2. KeepsQuery(nav, NavAfter(command_line))
    BY <1>1, <2>1, ReplacedFacts
  <2>3. NavAfter(command_line).scroll = 0
    BY <1>1, <2>1 DEF NavigationState
  <2>4. Bounded(nav) /\ 0 <= MaxScroll
    BY <1>1, AppAssumption DEF Bounded
  <2> QED BY <2>2, <2>3, <2>4, KeptQueryKeepsBounds
<1>3. CASE command_line.name = "set follow"
  <2>1. NavAfter(command_line) = [nav EXCEPT !.follow = TRUE]
    BY <1>3 DEF NavAfter
  <2> QED BY <1>1, <2>1 DEF Bounded, NavigationState
<1>4. CASE command_line.name = "set nofollow"
  <2>1. NavAfter(command_line) = [nav EXCEPT !.follow = FALSE]
    BY <1>4 DEF NavAfter
  <2> QED BY <1>1, <2>1 DEF Bounded, NavigationState
<1>5. CASE command_line.name = "filter"
  <2>1. command_line.arg \in Seq(Characters) /\ Len(command_line.arg) <= MaxQuery
    <3>1. NoCommand.name # "filter"
      BY DEF NoCommand
    <3>2. command_line \in CommandLines
      BY <1>1, <1>5, <3>1
    <3> QED BY <1>5, <3>2, AppAssumption
  <2>2. NavAfter(command_line) =
          IF command_line.arg = << >> THEN [nav EXCEPT !.query = << >>, !.ordinal = 0]
          ELSE [nav EXCEPT !.query = command_line.arg, !.ordinal = 0, !.follow = FALSE]
    BY <1>5 DEF NavAfter
  <2>3. CASE command_line.arg = << >>
    <3>1. Len(<< >>) <= MaxQuery /\ << >> \in Seq(Characters)
      BY AppAssumption
    <3>2. NavAfter(command_line) = [nav EXCEPT !.query = << >>, !.ordinal = 0]
      BY <2>2, <2>3
    <3> QED BY <1>1, <3>1, <3>2, QueryReplaced
  <2>4. CASE command_line.arg # << >>
    <3>1. NavAfter(command_line) =
            [nav EXCEPT !.query = command_line.arg, !.ordinal = 0, !.follow = FALSE]
      BY <2>2, <2>4
    <3> QED BY <1>1, <2>1, <3>1, QueryReplaced
  <2> QED BY <2>3, <2>4
<1>6. CASE command_line.name \notin {"clearlogs", "set follow", "set nofollow", "filter"}
  <2>1. NavAfter(command_line) = nav
    BY <1>6 DEF NavAfter
  <2> QED BY <1>1, <2>1 DEF Bounded
<1> QED
  BY <1>2, <1>3, <1>4, <1>5, <1>6

\* A command keeps the types.
LEMMA CommandReturnType ==
  ASSUME TypeInv, CommandReturn
  PROVE  TypeInv'
<1>1. Bounded(nav')
  BY NavAfterFacts, PendingKeepsBounds DEF CommandReturn
<1>2. compact' \in {"auto", "compact", "wide"}
  BY DEF CommandReturn, CompactAfter, TypeInv, TypeOK
<1>3. log' \in Seq(Lines) /\ Len(log') <= kMaxEntries
  <2>1. log \in Seq(Lines) /\ Len(log) <= kMaxEntries
    BY DEF TypeInv, TypeOK
  <2>2. << >> \in Seq(Lines) /\ Len(<< >>) <= kMaxEntries
    BY AppAssumption
  <2>3. CASE Report(<< >>)
    BY <2>2, <2>3, PushFacts DEF Report
  <2>4. CASE Report(log)
    BY <2>1, <2>4, PushFacts DEF Report
  <2>5. CASE UNCHANGED log
    BY <2>1, <2>5
  <2> QED BY <2>3, <2>4, <2>5 DEF CommandReturn
<1>4. running' \in BOOLEAN /\ mode' = "normal" /\ command_line' = NoCommand
      /\ UNCHANGED <<input, rows, highlighted>>
  BY DEF CommandReturn, LeaveCommandMode
<1> QED
  BY <1>1, <1>2, <1>3, <1>4 DEF TypeInv, TypeOK, Bounded

\* The program starts with the types right.
LEMMA TypeInit == Init => TypeInv
<1> SUFFICES ASSUME Init PROVE TypeInv
  OBVIOUS
<1>1. nav \in NavigationState /\ nav.scroll <= MaxScroll /\ Len(nav.query) <= MaxQuery
  BY AppAssumption DEF Init, NavigationState
<1>2. log \in Seq(Lines) /\ Len(log) <= kMaxEntries
  BY AppAssumption DEF Init
<1>3. IsFiniteSet(rows)
  BY FS_EmptySet DEF Init
<1> QED
  BY <1>1, <1>2, <1>3 DEF Init, TypeInv, TypeOK, Text, NoText

\* Every key keeps the types.
LEMMA KeysType ==
  ASSUME TypeInv, Keys
  PROVE  TypeInv'
<1>1. /\ nav \in NavigationState /\ nav.scroll <= MaxScroll /\ Len(nav.query) <= MaxQuery
      /\ Bounded(nav) /\ log \in Seq(Lines) /\ input \in Text
  BY DEF TypeInv, TypeOK, Bounded
<1>2. Len(Snapshot) \in Nat /\ Len(log) \in Nat
  BY <1>1, SnapshotFacts DEF TypeInv, TypeOK
<1>3. KeepsQuery(nav, nav)
  BY <1>1 DEF KeepsQuery
<1>4. CASE PressI BY <1>3, <1>4, EnterType DEF PressI
<1>5. CASE PressColon BY <1>3, <1>5, EnterType DEF PressColon
<1>6. CASE PressSlash
  <2> DEFINE to == [nav EXCEPT !.pane = "logs", !.follow = FALSE]
  <2>1. KeepsQuery(nav, to) /\ to.scroll = nav.scroll
    BY <1>1 DEF KeepsQuery, NavigationState
  <2>2. Enter("search", to)
    BY <1>6 DEF PressSlash
  <2> HIDE DEF to
  <2> QED BY <2>1, <2>2, EnterType
<1>7. CASE PressH
  <2>1. KeepsQuery(nav, [nav EXCEPT !.pane = "relays"])
    BY <1>1 DEF KeepsQuery, NavigationState
  <2> QED BY <1>7, <2>1, MoveType DEF PressH
<1>8. CASE PressL
  <2>1. KeepsQuery(nav, [nav EXCEPT !.pane = "logs"])
    BY <1>1 DEF KeepsQuery, NavigationState
  <2> QED BY <1>8, <2>1, MoveType DEF PressL
<1>9. CASE PressF
  <2>1. KeepsQuery(nav, [nav EXCEPT !.follow = ~nav.follow])
    BY <1>1 DEF KeepsQuery, NavigationState
  <2> QED BY <1>9, <2>1, MoveType DEF PressF
<1>10. CASE PressG
  <2>1. Bounded([nav EXCEPT !.pending_g = TRUE])
    BY <1>1, PendingKeepsBounds
  <2>2. Bounded(JumpToTop(nav))
    <3>1. KeepsQuery(nav, JumpToTop(nav))
      BY <1>1, MovementFacts
    <3>2. JumpToTop(nav).scroll = 0 /\ 0 <= MaxScroll
      BY <1>1, AppAssumption DEF JumpToTop, NavigationState
    <3> QED BY <1>1, <3>1, <3>2, KeptQueryKeepsBounds
  <2>3. Bounded(nav')
    BY <1>10, <2>1, <2>2 DEF PressG
  <2> QED BY <1>10, <2>3 DEF PressG, TypeInv, TypeOK, Bounded
<1>11. CASE PressShiftG BY <1>1, <1>2, <1>11, MovementFacts, MoveType DEF PressShiftG
<1>12. CASE Press0 BY <1>1, <1>2, <1>12, MovementFacts, MoveType DEF Press0
<1>13. CASE PressDollar BY <1>1, <1>2, <1>13, MovementFacts, MoveType DEF PressDollar
<1>14. ASSUME NEW forward \in BOOLEAN, PressN(forward)
       PROVE  TypeInv'
  <2>1. KeepsQuery(nav, AdvanceLogMatch(nav, log, forward))
    BY <1>1, AdvanceFacts
  <2> QED BY <1>14, <2>1, MoveType DEF PressN
<1>15. CASE PressJ BY <1>1, <1>2, <1>15, MovementFacts, MoveType DEF PressJ
<1>16. CASE PressK BY <1>1, <1>2, <1>16, MovementFacts, MoveType DEF PressK
<1>17. CASE PressPageDown BY <1>1, <1>2, <1>17, MovementFacts, MoveType DEF PressPageDown
<1>18. CASE PressPageUp BY <1>1, <1>2, <1>18, MovementFacts, MoveType DEF PressPageUp
<1>19. CASE PressEscape BY <1>3, <1>19, MoveType DEF PressEscape
<1>20. ASSUME NEW c \in Characters, SearchType(c)
       PROVE  TypeInv'
  <2>1. nav.query \in Seq(Characters) /\ nav.ordinal \in Nat
    BY <1>1 DEF NavigationState
  <2>2. Append(nav.query, c) \in Seq(Characters) /\ Len(Append(nav.query, c)) = Len(nav.query) + 1
    BY <2>1, AppendProperties
  <2>3. Len(Append(nav.query, c)) <= MaxQuery
    BY <1>20, <2>1, <2>2, AppAssumption DEF SearchType
  <2> QED BY <1>20, <2>1, <2>2, <2>3, SearchingType DEF SearchType
<1>21. CASE SearchBackspace
  <2>1. nav.query \in Seq(Characters) /\ nav.query # << >> /\ nav.ordinal \in Nat
    BY <1>1, <1>21 DEF NavigationState, SearchBackspace
  <2>2. Front(nav.query) \in Seq(Characters) /\ Len(Front(nav.query)) <= Len(nav.query)
    BY <2>1 DEF Front
  <2>3. Len(Front(nav.query)) <= MaxQuery
    BY <1>1, <2>1, <2>2, AppAssumption
  <2> QED BY <1>21, <2>1, <2>2, <2>3, SearchingType DEF SearchBackspace
<1>22. CASE SearchReturn
  <2>1. nav.query \in Seq(Characters)
    BY <1>1 DEF NavigationState
  <2> QED BY <1>1, <1>22, <2>1, SearchingType DEF SearchReturn
<1>23. CASE SearchEscape
  <2>1. nav.query \in Seq(Characters) /\ nav.ordinal \in Nat
    BY <1>1 DEF NavigationState
  <2> QED BY <1>1, <1>23, <2>1, SearchingType DEF SearchEscape
<1>24. Bounded([nav EXCEPT !.pending_g = FALSE])
  BY <1>1, PendingKeepsBounds
<1>25. ASSUME NEW text \in Texts, InsertType(text)
       PROVE  TypeInv'
  BY <1>25, AppAssumption DEF InsertType, TypeInv, TypeOK
<1>26. CASE InsertEscape
  BY <1>24, <1>26 DEF InsertEscape, TypeInv, TypeOK, Bounded, Text, NoText
<1>27. CASE InsertReturn
  BY <1>24, <1>27 DEF InsertReturn, TypeInv, TypeOK, Bounded, Text, NoText
<1>28. ASSUME NEW line \in CommandLines, CommandType(line)
       PROVE  TypeInv'
  BY <1>28 DEF CommandType, TypeInv, TypeOK
<1>29. CASE CommandEscape
  BY <1>24, <1>29 DEF CommandEscape, LeaveCommandMode, TypeInv, TypeOK, Bounded
<1>30. CASE CommandReturn BY <1>30, CommandReturnType
<1> QED
  BY <1>4, <1>5, <1>6, <1>7, <1>8, <1>9, <1>10, <1>11, <1>12, <1>13, <1>14, <1>15, <1>16, <1>17,
     <1>18, <1>19, <1>20, <1>21, <1>22, <1>23, <1>25, <1>26, <1>27, <1>28, <1>29, <1>30 DEF Keys

\* And so do the other threads and a frame.
LEMMA TypeNext == TypeInv /\ [Next]_vars => TypeInv'
<1> SUFFICES ASSUME TypeInv, [Next]_vars PROVE TypeInv'
  OBVIOUS
<1>1. CASE Keys BY <1>1, KeysType
<1>2. CASE LineArrives
  <2>1. PICK line \in Lines : log' = Push(line, log)
    BY <1>2 DEF LineArrives
  <2>2. log' \in Seq(Lines) /\ Len(log') <= kMaxEntries
    BY <2>1, PushFacts DEF TypeInv, TypeOK
  <2> QED BY <1>2, <2>2 DEF LineArrives, TypeInv, TypeOK
<1>3. CASE RowsChange
  <2>1. rows' \subseteq Relays /\ IsFiniteSet(rows')
    <3>1. rows \subseteq Relays /\ IsFiniteSet(rows)
      BY DEF TypeInv, TypeOK
    <3>2. \A relay \in Relays \ rows : IsFiniteSet(rows \cup {relay})
      BY <3>1, FS_AddElement
    <3>3. rows' = {} \/ \E relay \in Relays \ rows : rows' = rows \cup {relay}
      BY <1>3 DEF RowsChange
    <3> QED BY <3>1, <3>2, <3>3, FS_EmptySet
  <2> QED BY <1>3, <2>1 DEF RowsChange, TypeInv, TypeOK
<1>4. ASSUME NEW lines \in LogLines, Render(lines)
      PROVE  TypeInv'
  <2>1. ScrollFor(lines) \in Nat /\ ScrollFor(lines) <= MaxScroll /\ ClampedSelection \in Nat
    BY ScrollForFacts, ClampedFacts DEF TypeInv
  <2>2. nav \in NavigationState /\ Bounded(nav)
    BY DEF TypeInv, TypeOK, Bounded
  <2> DEFINE to == [nav EXCEPT !.scroll = ScrollFor(lines), !.selected = ClampedSelection]
  <2>3. KeepsQuery(nav, to)
    BY <2>1, <2>2, ReplacedFacts
  <2>4. to.scroll = ScrollFor(lines)
    BY <2>2 DEF NavigationState
  <2>5. nav' = to
    BY <1>4 DEF Render
  <2> HIDE DEF to
  <2>6. Bounded(nav')
    BY <2>1, <2>2, <2>3, <2>4, <2>5, KeptQueryKeepsBounds
  <2>7. highlighted' \in Relays \cup {NoRelay}
    BY <1>4, ClampedFacts DEF Render, TypeInv, TypeOK
  <2> QED BY <1>4, <2>6, <2>7 DEF Render, TypeInv, TypeOK, Bounded
<1>5. CASE UNCHANGED vars
  BY <1>5 DEF vars, TypeInv, TypeOK
<1> QED
  BY <1>1, <1>2, <1>3, <1>4, <1>5 DEF Next

\* The UI keeps its types: the scroll position, the query and the log never leave
\* their bounds, and what a frame highlights is a relay.
THEOREM AppTypeCorrect == Spec => []TypeOK
<1>1. TypeInv => TypeOK
  BY DEF TypeInv
<1> QED
  BY TypeInit, TypeNext, <1>1, PTL DEF Spec

\* The strengthened invariant, for the theorems below.
LEMMA TypeInvariant == Spec => []TypeInv
BY TypeInit, TypeNext, PTL DEF Spec

-----------------------------------------------------------------------------
(* What is typed, and where it goes.                                       *)

\* README.md:160, "transient input buffers are cleared after submission": a key or a
\* command that was typed is gone once its mode is left, however it is left.
THEOREM TypedTextIsGone == Spec => []NoLingeringInput
<1>1. Init => NoLingeringInput
  BY DEF Init, NoLingeringInput
<1>2. NoLingeringInput /\ [Next]_vars => NoLingeringInput'
  <2> SUFFICES ASSUME NoLingeringInput, [Next]_vars PROVE NoLingeringInput'
    OBVIOUS
  <2> USE DEF NoLingeringInput
  <2>1. ASSUME mode' = mode, input' = input, command_line' = command_line PROVE NoLingeringInput'
    BY <2>1
  <2>2. ASSUME NEW m, mode = "normal", mode' = m, UNCHANGED <<input, command_line>>
        PROVE  NoLingeringInput'
    BY <2>2
  <2>3. ASSUME NEW to, Move(to) PROVE NoLingeringInput'
    BY <2>1, <2>3 DEF Move
  <2>4. ASSUME NEW m, NEW to, Enter(m, to) PROVE NoLingeringInput'
    BY <2>2, <2>4 DEF Enter, Normal
  <2>5. ASSUME NEW query, NEW ordinal, NEW next \in {"search", "normal"},
               Searching(query, ordinal, next)
        PROVE  NoLingeringInput'
    BY <2>5 DEF Searching
  <2>6. CASE Keys
    <3>1. CASE PressI \/ PressColon \/ PressSlash
      BY <2>4, <3>1 DEF PressI, PressColon, PressSlash
    <3>2. CASE PressG
      BY <2>1, <3>2 DEF PressG
    <3>3. CASE PressH \/ PressL \/ PressF \/ PressShiftG \/ Press0 \/ PressDollar
      BY <2>3, <3>3 DEF PressH, PressL, PressF, PressShiftG, Press0, PressDollar
    <3>4. CASE \/ (\E forward \in BOOLEAN : PressN(forward))
               \/ PressJ \/ PressK \/ PressPageDown \/ PressPageUp \/ PressEscape
      BY <2>3, <3>4 DEF PressN, PressJ, PressK, PressPageDown, PressPageUp, PressEscape
    <3>5. CASE (\E c \in Characters : SearchType(c)) \/ SearchBackspace \/ SearchReturn \/ SearchEscape
      BY <2>5, <3>5 DEF SearchType, SearchBackspace, SearchReturn, SearchEscape
    <3>6. CASE \E text \in Texts : InsertType(text)
      BY <3>6 DEF InsertType
    <3>7. CASE InsertEscape
      BY <3>7 DEF InsertEscape
    <3>8. CASE InsertReturn
      BY <3>8 DEF InsertReturn
    <3>9. CASE \E line \in CommandLines : CommandType(line)
      BY <3>9 DEF CommandType
    <3>10. CASE CommandEscape
      BY <3>10 DEF CommandEscape, LeaveCommandMode
    <3>11. CASE CommandReturn
      BY <3>11 DEF CommandReturn, LeaveCommandMode
    <3> QED
      BY <2>6, <3>1, <3>2, <3>3, <3>4, <3>5, <3>6, <3>7, <3>8, <3>9, <3>10, <3>11 DEF Keys
  <2>7. CASE LineArrives \/ RowsChange \/ \E lines \in LogLines : Render(lines)
    BY <2>1, <2>7 DEF LineArrives, RowsChange, Render
  <2>8. CASE UNCHANGED vars
    BY <2>1, <2>8 DEF vars
  <2> QED
    BY <2>6, <2>7, <2>8 DEF Next
<1> QED
  BY <1>1, <1>2, PTL DEF Spec

\* Only Return, in Insert or Command mode, calls anybody.
LEMMA OthersCallNobody ==
  ASSUME [Next]_vars, ~InsertReturn, ~CommandReturn
  PROVE  called' = called
<1>1. ASSUME NEW to, Move(to) PROVE called' = called
  BY <1>1 DEF Move
<1>2. ASSUME NEW m, NEW to, Enter(m, to) PROVE called' = called
  BY <1>2 DEF Enter
<1>3. ASSUME NEW query, NEW ordinal, NEW next, Searching(query, ordinal, next)
      PROVE  called' = called
  BY <1>3 DEF Searching
<1>4. CASE Keys
  <2>1. CASE PressI \/ PressColon \/ PressSlash
    BY <1>2, <2>1 DEF PressI, PressColon, PressSlash
  <2>2. CASE PressG
    BY <2>2 DEF PressG
  <2>3. CASE PressH \/ PressL \/ PressF \/ PressShiftG \/ Press0 \/ PressDollar
    BY <1>1, <2>3 DEF PressH, PressL, PressF, PressShiftG, Press0, PressDollar
  <2>4. CASE \/ (\E forward \in BOOLEAN : PressN(forward))
             \/ PressJ \/ PressK \/ PressPageDown \/ PressPageUp \/ PressEscape
    BY <1>1, <2>4 DEF PressN, PressJ, PressK, PressPageDown, PressPageUp, PressEscape
  <2>5. CASE (\E c \in Characters : SearchType(c)) \/ SearchBackspace \/ SearchReturn \/ SearchEscape
    BY <1>3, <2>5 DEF SearchType, SearchBackspace, SearchReturn, SearchEscape
  <2>6. CASE (\E text \in Texts : InsertType(text)) \/ InsertEscape
    BY <2>6 DEF InsertType, InsertEscape
  <2>7. CASE (\E line \in CommandLines : CommandType(line)) \/ CommandEscape
    BY <2>7 DEF CommandType, CommandEscape
  <2> QED
    BY <1>4, <2>1, <2>2, <2>3, <2>4, <2>5, <2>6, <2>7 DEF Keys
<1>5. CASE LineArrives \/ RowsChange \/ \E lines \in LogLines : Render(lines)
  BY <1>5 DEF LineArrives, RowsChange, Render
<1>6. CASE UNCHANGED vars
  BY <1>6 DEF vars
<1> QED
  BY <1>4, <1>5, <1>6 DEF Next

\* A private key that was typed, in small letters or capitals, with or without blanks
\* around it, never goes to the callback for public keys.
THEOREM NsecGoesToAuth == Spec => []PrivateKeyGoesToAuth
<1>1. Init => PrivateKeyGoesToAuth
  BY DEF Init, PrivateKeyGoesToAuth
<1>2. TypeInv /\ PrivateKeyGoesToAuth /\ [Next]_vars => PrivateKeyGoesToAuth'
  <2> SUFFICES ASSUME TypeInv, PrivateKeyGoesToAuth, [Next]_vars PROVE PrivateKeyGoesToAuth'
    OBVIOUS
  <2>1. CASE InsertReturn
    <3> DEFINE submitted == TrimCopy(input)
    <3>1. submitted \in Text /\ submitted.padded = FALSE
      BY DEF TypeInv, TypeOK, TrimCopy, Text
    <3>2. called' = IF submitted.word = "none" THEN called
                    ELSE [to   |-> IF LooksLikeNsecInput(submitted) THEN "on_auth" ELSE "on_submit",
                          with |-> submitted]
      BY <2>1 DEF InsertReturn
    <3> HIDE DEF submitted
    <3>3. LooksLikeNsecInput(submitted) <=> submitted.word \in {"nsec", "NSEC"}
      BY <3>1 DEF LooksLikeNsecInput
    <3> QED
      BY <3>2, <3>3 DEF PrivateKeyGoesToAuth
  <2>2. CASE CommandReturn
    <3>1. called' = called \/ called'.to # "on_submit"
      <4>1. called' = CallAfter(command_line)
        BY <2>2 DEF CommandReturn
      <4> QED
        BY <4>1 DEF CallAfter
    <3> QED
      BY <3>1 DEF PrivateKeyGoesToAuth
  <2>3. CASE ~InsertReturn /\ ~CommandReturn
    BY <2>3, OthersCallNobody DEF PrivateKeyGoesToAuth
  <2> QED
    BY <2>1, <2>2, <2>3
<1> QED
  BY <1>1, <1>2, TypeInvariant, PTL DEF Spec

-----------------------------------------------------------------------------
(* Going through the matches.                                              *)

\* One step forward or back in a circle of `n` places.
LEMMA CircleStep ==
  ASSUME NEW n \in Nat \ {0}, NEW x \in 0..n - 1
  PROVE  /\ (x + 1) % n = IF x + 1 = n THEN 0 ELSE x + 1
         /\ (x + (n - 1)) % n = IF x = 0 THEN n - 1 ELSE x - 1
<1>1. CASE x = 0
  BY <1>1
<1>2. CASE x # 0
  <2>1. (x + (n - 1)) % n = x - 1
    BY <1>2
  <2> QED BY <1>2, <2>1
<1> QED BY <1>1, <1>2

\* The place after `k` more steps.
Place(r, k, n, forward) ==
  IF forward THEN IF r + k < n THEN r + k ELSE r + k - n
  ELSE IF k <= r THEN r - k ELSE r + n - k

\* Steps in a circle go from place to place,
LEMMA PlaceStep ==
  ASSUME NEW n \in Nat \ {0}, NEW r \in 0..n - 1, NEW k \in 0..n - 2, NEW forward \in BOOLEAN
  PROVE  NextOrdinal(Place(r, k, n, forward), n, forward) = Place(r, k + 1, n, forward)
<1> DEFINE x == Place(r, k, n, forward)
<1>1. x \in 0..n - 1
  BY DEF Place
<1>2. NextOrdinal(x, n, forward) = IF forward THEN IF x + 1 = n THEN 0 ELSE x + 1
                                   ELSE IF x = 0 THEN n - 1 ELSE x - 1
  <2> HIDE DEF x
  <2> QED BY <1>1, CircleStep DEF NextOrdinal
<1> QED
  BY <1>1, <1>2 DEF Place

\* and n places in a row are all there are.
LEMMA PlacesCover ==
  ASSUME NEW n \in Nat \ {0}, NEW r \in 0..n - 1, NEW forward \in BOOLEAN
  PROVE  {Place(r, k, n, forward) : k \in 0..n - 1} = 0..n - 1
<1>1. \A k \in 0..n - 1 : Place(r, k, n, forward) \in 0..n - 1
  BY DEF Place
<1>2. ASSUME NEW t \in 0..n - 1
      PROVE  \E k \in 0..n - 1 : Place(r, k, n, forward) = t
  <2> DEFINE ahead == IF r <= t THEN t - r ELSE t + n - r
             back  == IF t <= r THEN r - t ELSE r + n - t
  <2>1. ahead \in 0..n - 1 /\ back \in 0..n - 1
    OBVIOUS
  <2>2. CASE forward
    <3>1. Place(r, ahead, n, forward) = t
      BY <2>2 DEF Place
    <3> QED BY <2>1, <3>1
  <2>3. CASE ~forward
    <3>1. Place(r, back, n, forward) = t
      BY <2>3 DEF Place
    <3> QED BY <2>1, <3>1
  <2> QED BY <2>2, <2>3
<1> QED
  BY <1>1, <1>2

\* Pressing n, or N, as often as there are matches goes to all of them, wherever the
\* ordinal was.
LEMMA AdvanceCovers ==
  ASSUME nav \in NavigationState, NEW T, log \in Seq(T), nav.pane = "logs",
         NEW forward \in BOOLEAN, MatchCount # 0,
         NEW after, after[0] = nav,
         \A k \in 1..MatchCount : after[k] = AdvanceLogMatch(after[k - 1], log, forward)
  PROVE  {after[k].ordinal : k \in 1..MatchCount} = 0..MatchCount - 1
<1> DEFINE n == MatchCount
           r == after[1].ordinal
           At(k) == /\ after[k] \in NavigationState /\ after[k].pane = "logs"
                    /\ after[k].query = nav.query
                    /\ k > 0 => after[k].ordinal = Place(r, k - 1, n, forward)
           Reached == {k \in 0..n : At(k)}
<1>1. n \in Nat \ {0}
  BY MatchesFacts DEF MatchCount
<1>2. ASSUME NEW k \in 1..n, after[k - 1] \in NavigationState, after[k - 1].pane = "logs",
             after[k - 1].query = nav.query
      PROVE  /\ after[k] \in NavigationState /\ after[k].pane = "logs"
             /\ after[k].query = nav.query
             /\ after[k].ordinal = NextOrdinal(after[k - 1].ordinal, n, forward)
  <2>1. after[k] = AdvanceLogMatch(after[k - 1], log, forward)
    <3>1. k \in 0..n /\ k # 0
      BY <1>1
    <3> QED BY <3>1
  <2>2. Len(FindLogMatches(log, after[k - 1].query)) = n
    BY <1>2 DEF MatchCount
  <2> QED
    BY <1>1, <1>2, <2>1, <2>2, AdvanceFacts DEF KeepsQuery
<1>3. 0 \in Reached
  <2>1. after[0] = nav
    BY <1>1
  <2> QED BY <1>1, <2>1
<1>4. r \in 0..n - 1
  <2>1. after[0] = nav /\ 1 \in 1..n
    BY <1>1
  <2>2. after[1].ordinal = NextOrdinal(nav.ordinal, n, forward)
    <3> DEFINE k == 1
    <3>1. k \in 1..n /\ after[k - 1] = nav
      BY <1>1, <2>1
    <3> HIDE DEF k, n
    <3>2. after[k].ordinal = NextOrdinal(nav.ordinal, n, forward)
      BY <1>2, <3>1
    <3> QED BY <3>2 DEF k
  <2>3. nav.ordinal + (IF forward THEN 1 ELSE n - 1) \in Nat
    BY <1>1 DEF NavigationState
  <2> HIDE DEF n
  <2> QED BY <1>1, <2>2, <2>3, RemainderFacts DEF NextOrdinal
<1>5. ASSUME NEW k \in 1..n, k - 1 \in Reached PROVE k \in Reached
  <2>1. /\ after[k] \in NavigationState /\ after[k].pane = "logs" /\ after[k].query = nav.query
        /\ after[k].ordinal = NextOrdinal(after[k - 1].ordinal, n, forward)
    BY <1>2, <1>5
  <2>2. CASE k = 1
    <3>1. Place(r, 0, n, forward) = r
      <4> HIDE DEF r, n
      <4> QED BY <1>1, <1>4 DEF Place
    <3> QED BY <1>1, <2>1, <2>2, <3>1
  <2>3. CASE k # 1
    <3>1. k - 2 \in 0..n - 2 /\ (k - 2) + 1 = k - 1 /\ k \in 0..n
      BY <1>1, <2>3
    <3>2. after[k - 1].ordinal = Place(r, k - 2, n, forward)
      BY <1>5, <2>3
    <3>3. after[k].ordinal = Place(r, k - 1, n, forward)
      <4> HIDE DEF r, n
      <4> QED BY <1>1, <1>4, <2>1, <3>1, <3>2, PlaceStep
    <3> QED BY <2>1, <3>1, <3>3
  <2> QED BY <2>2, <2>3
<1> HIDE DEF Reached
<1>6. \A k \in 0..n : k \in Reached
  BY <1>1, <1>3, <1>5, InductionUpTo
<1>7. \A k \in 1..n : after[k].ordinal = Place(r, k - 1, n, forward)
  BY <1>1, <1>6 DEF Reached
<1>8. {after[k].ordinal : k \in 1..n} = {Place(r, j, n, forward) : j \in 0..n - 1}
  <2> HIDE DEF r, n
  <2>1. ASSUME NEW j \in 0..n - 1 PROVE \E k \in 1..n : after[k].ordinal = Place(r, j, n, forward)
    <3>1. j + 1 \in 1..n /\ (j + 1) - 1 = j
      BY <1>1
    <3> QED BY <1>7, <3>1
  <2>2. \A k \in 1..n : k - 1 \in 0..n - 1
    BY <1>1
  <2> QED BY <1>7, <2>1, <2>2
<1> HIDE DEF r
<1> QED
  BY <1>1, <1>4, <1>8, PlacesCover

\* f is where n, or N, pressed 0 to n times takes start.
Presses(f, start, lines, forward, n) ==
  f = [k \in 0..n |-> IF k = 0 THEN start ELSE AdvanceLogMatch(f[k - 1], lines, forward)]

\* The keys n and N can be pressed any number of times.
LEMMA AdvanceIterates ==
  ASSUME NEW start, NEW T, NEW lines, NEW forward, NEW n
  PROVE  start \in NavigationState /\ lines \in Seq(T) /\ forward \in BOOLEAN /\ n \in Nat
         => \E f : Presses(f, start, lines, forward, n)
<1>0. SUFFICES ASSUME start \in NavigationState /\ lines \in Seq(T) /\ forward \in BOOLEAN /\ n \in Nat
               PROVE  \E f : Presses(f, start, lines, forward, n)
  OBVIOUS
<1> DEFINE V    == NavigationState
           step == [k \in 1..n |-> [m \in V |-> AdvanceLogMatch(m, lines, forward)]]
<1>1. \A m \in V : AdvanceLogMatch(m, lines, forward) \in V
  BY <1>0, AdvanceFacts DEF KeepsQuery
<1>2. start \in V /\ n \in Nat /\ step \in [1..n -> [V -> V]]
  BY <1>0, <1>1
<1>3. PICK f \in [0..n -> V] : f[0] = start /\ \A k \in 1..n : f[k] = step[k][f[k - 1]]
  <2> HIDE DEF V, step
  <2>1. \E f \in [0..n -> V] : f[0] = start /\ \A k \in 1..n : f[k] = step[k][f[k - 1]]
    BY <1>2, RecursionUpTo
  <2> QED BY <2>1
<1> DEFINE g == [k \in 0..n |-> IF k = 0 THEN start ELSE AdvanceLogMatch(f[k - 1], lines, forward)]
<1>4. ASSUME NEW k \in 0..n PROVE g[k] = f[k]
  <2>1. CASE k = 0
    BY <1>3, <2>1
  <2>2. CASE k # 0
    <3>1. k \in 1..n /\ k - 1 \in 0..n
      BY <1>0, <2>2
    <3>2. f[k] = step[k][f[k - 1]] /\ f[k - 1] \in V
      <4> HIDE DEF V, step
      <4> QED BY <1>3, <3>1
    <3>3. step[k][f[k - 1]] = AdvanceLogMatch(f[k - 1], lines, forward)
      <4> HIDE DEF V
      <4> QED BY <3>1, <3>2
    <3> QED BY <2>2, <3>2, <3>3
  <2> QED BY <2>1, <2>2
<1>5. g = f
  <2>1. g = [k \in 0..n |-> g[k]] /\ f = [k \in 0..n |-> f[k]]
    BY <1>3
  <2> HIDE DEF g
  <2> QED BY <1>4, <2>1
<1> QED
  BY <1>5 DEF Presses

\* Pressing n, or N, as often as there are matches goes to every one of them, although
\* the log and the query may have changed since the ordinal was set.
THEOREM AllMatchesAreReached == Spec => []EveryMatchIsReached
<1>1. TypeInv => EveryMatchIsReached
  <2> SUFFICES ASSUME TypeInv, nav.pane = "logs", NEW forward \in BOOLEAN
               PROVE  LET after[k \in 0..MatchCount] ==
                            IF k = 0 THEN nav ELSE AdvanceLogMatch(after[k - 1], log, forward)
                      IN  {after[k].ordinal : k \in 1..MatchCount} = 0..MatchCount - 1
    BY DEF EveryMatchIsReached
  <2>1. nav \in NavigationState /\ log \in Seq(Lines)
    BY DEF TypeInv, TypeOK
  <2>2. MatchCount \in Nat
    BY <2>1, MatchesFacts DEF MatchCount
  <2> DEFINE after == CHOOSE f : f = [k \in 0..MatchCount |->
                                        IF k = 0 THEN nav ELSE AdvanceLogMatch(f[k - 1], log, forward)]
  <2>3. after = [k \in 0..MatchCount |->
                   IF k = 0 THEN nav ELSE AdvanceLogMatch(after[k - 1], log, forward)]
    <3>1. \E f : Presses(f, nav, log, forward, MatchCount)
      <4>1. nav \in NavigationState /\ log \in Seq(Lines) /\ forward \in BOOLEAN /\ MatchCount \in Nat
        BY <2>1, <2>2
      <4> QED BY <4>1, AdvanceIterates
    <3>2. \E f : f = [k \in 0..MatchCount |->
                       IF k = 0 THEN nav ELSE AdvanceLogMatch(f[k - 1], log, forward)]
      BY <3>1 DEF Presses
    <3> QED BY <3>2, Zenon
  <2> SUFFICES {after[k].ordinal : k \in 1..MatchCount} = 0..MatchCount - 1
    OBVIOUS
  <2> HIDE DEF after
  <2>4. CASE MatchCount = 0
    BY <2>4
  <2>5. CASE MatchCount # 0
    <3>1. after[0] = nav /\ \A k \in 1..MatchCount : after[k] = AdvanceLogMatch(after[k - 1], log, forward)
      BY <2>2, <2>3
    <3> QED BY <2>1, <2>5, <3>1, AdvanceCovers
  <2> QED BY <2>4, <2>5
<1> QED
  BY <1>1, TypeInvariant, PTL

=============================================================================
