--------------------------- MODULE Functions_proofs ---------------------------
(***************************************************************************)
(* The functions without a state, for every input: the windows and scroll  *)
(* bars of a table or log of any length at any terminal height, the delay  *)
(* of every attempt, and the parts of a relay URL of any length over any   *)
(* characters.                                                             *)
(***************************************************************************)
EXTENDS MCFunctions, SequenceTheorems, Induction_proofs

-----------------------------------------------------------------------------
(* Windows.                                                                *)

\* A window with the selected row in it, and as many rows as fit.
ShowsSelection(total, selected, rows, w) ==
  /\ w.start <= Least(selected, total - 1)
  /\ Least(selected, total - 1) < w.end
  /\ w.end <= total
  /\ w.end - w.start = IF rows = 0 THEN total ELSE Least(rows, total)

\* ComputeRelayListViewport shows the selected row and fills its window.
LEMMA ViewportShowsSelection ==
  ASSUME NEW total \in Nat \ {0}, NEW selected \in Nat, NEW rows \in Nat,
         NEW w, w = RelayListViewport(total, selected, rows)
  PROVE  ShowsSelection(total, selected, rows, w)
<1> DEFINE visible == IF rows = 0 THEN total ELSE Least(rows, total)
           offset  == IF visible > 2 THEN visible \div 2 ELSE 0
           chosen  == Least(selected, total - 1)
           centred == IF chosen > offset THEN chosen - offset ELSE 0
           start   == IF centred + visible > total THEN total - visible ELSE centred
<1>1. visible \in 1..total
  BY DEF Least
<1>2. offset \in 0..visible - 1
  BY <1>1
<1>3. chosen \in 0..total - 1
  BY DEF Least
<1>4. w = [start |-> start, end |-> start + visible]
  BY DEF RelayListViewport
<1> HIDE DEF visible, offset, chosen
<1>5. centred \in 0..chosen /\ chosen < centred + visible
  BY <1>1, <1>2, <1>3
<1> HIDE DEF centred
<1>6. start \in 0..chosen /\ chosen < start + visible /\ start + visible <= total
  BY <1>1, <1>3, <1>5
<1> QED
  BY <1>1, <1>4, <1>6 DEF visible, chosen, ShowsSelection

\* RenderLogs shows as many lines as fit, whatever the scroll position.
LEMMA LogWindowFills ==
  ASSUME NEW total \in Nat, NEW lines \in Nat, NEW scroll \in Nat,
         NEW w, w = LogWindow(total, lines, scroll)
  PROVE  0 <= w.start /\ w.end <= total /\ w.end - w.start = Least(lines, total)
BY DEF LogWindow, Least

-----------------------------------------------------------------------------
(* Scroll bars.                                                            *)

\* A quotient is the largest number that fits so many times.
LEMMA QuotientFacts ==
  ASSUME NEW a \in Nat, NEW b \in Nat \ {0}
  PROVE  a \div b \in Nat /\ b * (a \div b) <= a /\ a < b * (a \div b) + b
OBVIOUS

\* What is at most `c` times the divisor has a quotient of at most `c`,
LEMMA QuotientBound ==
  ASSUME NEW a \in Nat, NEW b \in Nat \ {0}, NEW c \in Nat, a <= b * c
  PROVE  a \div b <= c
<1> DEFINE q == a \div b
<1>1. q \in Nat /\ b * q <= a
  BY QuotientFacts
<1> HIDE DEF q
<1>2. ASSUME q >= c + 1 PROVE FALSE
  <2>1. b * q >= b * (c + 1)
    BY <1>1, <1>2
  <2>2. b * (c + 1) = b * c + b
    OBVIOUS
  <2> QED BY <1>1, <2>1, <2>2
<1> QED
  BY <1>1, <1>2 DEF q

\* and `c` times the divisor has the quotient `c`.
LEMMA QuotientOfProduct ==
  ASSUME NEW b \in Nat \ {0}, NEW c \in Nat
  PROVE  (c * b) \div b = c
<1> DEFINE q == (c * b) \div b
<1>1. q \in Nat /\ c * b < b * q + b
  BY QuotientFacts
<1>2. q <= c
  BY QuotientBound
<1> HIDE DEF q
<1>3. ASSUME q <= c - 1 PROVE FALSE
  <2>1. b * q <= b * (c - 1)
    BY <1>1, <1>3
  <2>2. b * (c - 1) = c * b - b
    OBVIOUS
  <2> QED BY <1>1, <2>1, <2>2
<1> QED
  BY <1>1, <1>2, <1>3 DEF q

\* A thumb stays in its bar, at the top for the first line, at the bottom for
\* the last, if the window fits into the list.
LEMMA ThumbFacts ==
  ASSUME NEW total \in Nat, NEW first \in Nat, NEW visible \in Nat \ {0},
         NEW height \in Nat \ {0},
         total > visible => first <= total - visible,
         NEW thumb, thumb = ScrollThumb(total, first, visible, height)
  PROVE  /\ InBar(thumb, height)
         /\ first = 0 => thumb.pos = 0
         /\ total > visible /\ first = total - visible => thumb.pos + thumb.size = height
         /\ total <= visible => thumb.pos + thumb.size = height
<1>1. CASE total <= visible
  BY <1>1 DEF ScrollThumb, InBar
<1>2. CASE total > visible
  <2> DEFINE share == (height * visible) \div total
             size  == Greatest(1, share)
             room  == height - size
             pos   == (room * first) \div (total - visible)
  <2>1. thumb = [size |-> size, pos |-> pos]
    BY <1>2 DEF ScrollThumb
  <2>2. share \in Nat /\ share <= height
    <3>1. height * visible \in Nat /\ height * visible <= total * height
      <4>1. height * visible <= height * total
        BY <1>2
      <4> QED BY <4>1
    <3> QED BY <1>2, <3>1, QuotientFacts, QuotientBound
  <2> HIDE DEF share
  <2>3. size \in 1..height
    BY <2>2 DEF Greatest
  <2> HIDE DEF size
  <2>4. room \in Nat /\ room + size = height
    BY <2>3
  <2> HIDE DEF room
  <2>5. total - visible \in Nat \ {0} /\ room * first \in Nat
    BY <1>2, <2>4
  <2>6. pos \in Nat /\ pos <= room
    <3>1. room * first <= (total - visible) * room
      <4>1. room * first <= room * (total - visible)
        BY <1>2, <2>4
      <4> QED BY <4>1, <2>4
    <3> QED BY <2>4, <2>5, <3>1, QuotientFacts, QuotientBound
  <2>7. first = 0 => pos = 0
    BY <2>4, <2>5
  <2>8. first = total - visible => pos = room
    BY <2>4, <2>5, QuotientOfProduct
  <2> HIDE DEF pos
  <2> QED
    BY <1>2, <2>1, <2>3, <2>4, <2>6, <2>7, <2>8 DEF InBar
<1> QED
  BY <1>1, <1>2

-----------------------------------------------------------------------------
(* Delays.  Base is the delay without jitter and without its limit.         *)

Exponent(attempt) == Lesser(IF attempt > 0 THEN attempt - 1 ELSE 0, 8)
Base(attempt)     == 500 * 2 ^ Exponent(attempt)

\* The base of the first attempts, and of all later ones.
LEMMA BaseValues ==
  ASSUME NEW attempt \in Nat
  PROVE  /\ attempt \in 0..1 => Base(attempt) = 500
         /\ attempt = 2 => Base(attempt) = 1000
         /\ attempt = 3 => Base(attempt) = 2000
         /\ attempt = 4 => Base(attempt) = 4000
         /\ attempt = 5 => Base(attempt) = 8000
         /\ attempt = 6 => Base(attempt) = 16000
         /\ attempt >= 7 => Base(attempt) \in Nat /\ Base(attempt) >= 30000
<1> DEFINE e == Exponent(attempt)
<1>2. Base(attempt) = 500 * 2 ^ e
  BY DEF Base
<1>3. /\ attempt \in 0..1 => e = 0
      /\ \A n \in 2..8 : attempt = n => e = n - 1
      /\ attempt >= 7 => e \in {6, 7, 8}
  BY DEF Exponent, Lesser
<1> HIDE DEF e
<1>4. /\ (e = 0 => 2 ^ e = 1)  /\ (e = 1 => 2 ^ e = 2)   /\ (e = 2 => 2 ^ e = 4)
      /\ (e = 3 => 2 ^ e = 8)  /\ (e = 4 => 2 ^ e = 16)  /\ (e = 5 => 2 ^ e = 32)
      /\ (e = 6 => 2 ^ e = 64) /\ (e = 7 => 2 ^ e = 128) /\ (e = 8 => 2 ^ e = 256)
  <2>1. e = 0 => 2 ^ e = 1
    <3>1. 2 ^ 0 = 1
      OBVIOUS
    <3> QED BY <3>1, Zenon
  <2>2. e = 1 => 2 ^ e = 2
    <3>1. 2 ^ 1 = 2
      OBVIOUS
    <3> QED BY <3>1, Zenon
  <2>3. e = 2 => 2 ^ e = 4
    <3>1. 2 ^ 2 = 4
      OBVIOUS
    <3> QED BY <3>1, Zenon
  <2>4. e = 3 => 2 ^ e = 8
    <3>1. 2 ^ 3 = 8
      OBVIOUS
    <3> QED BY <3>1, Zenon
  <2>5. e = 4 => 2 ^ e = 16
    <3>1. 2 ^ 4 = 16
      OBVIOUS
    <3> QED BY <3>1, Zenon
  <2>6. e = 5 => 2 ^ e = 32
    <3>1. 2 ^ 5 = 32
      OBVIOUS
    <3> QED BY <3>1, Zenon
  <2>7. e = 6 => 2 ^ e = 64
    <3>1. 2 ^ 6 = 64
      OBVIOUS
    <3> QED BY <3>1, Zenon
  <2>8. e = 7 => 2 ^ e = 128
    <3>1. 2 ^ 7 = 128
      OBVIOUS
    <3> QED BY <3>1, Zenon
  <2>9. e = 8 => 2 ^ e = 256
    <3>1. 2 ^ 8 = 256
      OBVIOUS
    <3> QED BY <3>1, Zenon
  <2> QED BY <2>1, <2>2, <2>3, <2>4, <2>5, <2>6, <2>7, <2>8, <2>9
<1> QED
  BY <1>2, <1>3, <1>4

\* There is a function that doubles from 500 up to 30000, so Doubling is one.
LEMMA DoublingUnfolds ==
  ASSUME NEW attempt \in Nat
  PROVE  Doubling[attempt] =
           IF attempt <= 1 THEN 500 ELSE Lesser(30000, 2 * Doubling[attempt - 1])
<1> DEFINE g == [n \in Nat |-> IF n <= 1 THEN 500 ELSE IF n = 2 THEN 1000 ELSE IF n = 3 THEN 2000
                                ELSE IF n = 4 THEN 4000 ELSE IF n = 5 THEN 8000
                                ELSE IF n = 6 THEN 16000 ELSE 30000]
<1>1. \A n \in Nat : g[n] = IF n <= 1 THEN 500 ELSE Lesser(30000, 2 * g[n - 1])
  BY DEF Lesser
<1>2. g = [n \in Nat |-> g[n]]
  OBVIOUS
<1> HIDE DEF g
<1>3. g = [n \in Nat |-> IF n <= 1 THEN 500 ELSE Lesser(30000, 2 * g[n - 1])]
  <2> DEFINE h == [n \in Nat |-> IF n <= 1 THEN 500 ELSE Lesser(30000, 2 * g[n - 1])]
  <2>1. \A n \in Nat : h[n] = g[n]
    BY <1>1
  <2>2. h = [n \in Nat |-> h[n]]
    OBVIOUS
  <2> HIDE DEF h
  <2>3. h = g
    BY <1>2, <2>1, <2>2
  <2> QED BY <2>3 DEF h
<1>4. Doubling = [n \in Nat |-> IF n <= 1 THEN 500 ELSE Lesser(30000, 2 * Doubling[n - 1])]
  BY <1>3 DEF Doubling
<1> QED
  BY <1>4

\* The delay of a session is that of the doubling, before the jitter.
LEMMA DoublingIsBase ==
  ASSUME NEW attempt \in Nat
  PROVE  Doubling[attempt] = Lesser(30000, Base(attempt))
<1>1. /\ \A n \in 0..1 : Doubling[n] = 500
      /\ Doubling[2] = 1000 /\ Doubling[3] = 2000 /\ Doubling[4] = 4000
      /\ Doubling[5] = 8000 /\ Doubling[6] = 16000 /\ Doubling[7] = 30000
  BY DoublingUnfolds DEF Lesser
<1> DEFINE Other == {n \in Nat : n >= 7 /\ Doubling[n] # 30000}
<1>2. Other = {}
  <2> SUFFICES ASSUME Other # {} PROVE FALSE
    OBVIOUS
  <2>1. Other \subseteq Nat
    OBVIOUS
  <2>2. PICK n \in Other : \A m \in Other : n <= m
    <3> HIDE DEF Other
    <3> QED BY <2>1, LeastMember
  <2>3. n > 7 /\ Doubling[n - 1] = 30000
    BY <1>1, <2>2
  <2>4. Doubling[n] = Lesser(30000, 60000)
    BY <2>3, DoublingUnfolds
  <2> QED
    BY <2>2, <2>4 DEF Lesser
<1>3. attempt \in 0..1 \/ attempt \in {2, 3, 4, 5, 6} \/ attempt >= 7
  OBVIOUS
<1> QED
  BY <1>1, <1>2, <1>3, BaseValues DEF Lesser

\* The base doubles, so a jitter of a quarter of a second never makes up for it.
LEMMA BaseGrows ==
  ASSUME NEW a \in 1..7, NEW b \in 1..7, a < b
  PROVE  Base(a) \in Nat /\ Base(b) \in Nat /\ Base(a) + 250 < Base(b) /\ Base(a) + 250 < 30000
<1>1. a \in {1, 2, 3, 4, 5, 6} /\ b \in {2, 3, 4, 5, 6} \cup {7}
  OBVIOUS
<1> QED
  BY <1>1, BaseValues

-----------------------------------------------------------------------------
(* Relay URLs.  Both cuts are at the first delimiter of a kind:             *)
(* FirstIsFirst says that there is one, CutAtFirst what is on its two       *)
(* sides.                                                                  *)

\* A set of positions that is not empty has a first one.
LEMMA FirstIsFirst ==
  ASSUME NEW P, P \subseteq Nat, P # {}
  PROVE  FirstOf(P) \in P /\ \A j \in P : FirstOf(P) <= j
BY LeastMember DEF FirstOf

\* A cut of `s` in front of position `cut`, the first with one of `chars`.
CutAt(C, s, chars, cut) ==
  /\ cut \in 1..Len(s) /\ s[cut] \in chars
  /\ SubSeq(s, 1, cut - 1) \in Seq(C)
  /\ Len(SubSeq(s, 1, cut - 1)) = cut - 1
  /\ \A i \in 1..cut - 1 : SubSeq(s, 1, cut - 1)[i] = s[i]
  /\ Positions(SubSeq(s, 1, cut - 1), chars) = {}
  /\ SubSeq(s, cut, Len(s)) \in Seq(C)
  /\ SubSeq(s, cut, Len(s)) # << >>
  /\ SubSeq(s, cut, Len(s))[1] = s[cut]
  /\ SubSeq(s, cut + 1, Len(s)) \in Seq(C)
  /\ SubSeq(s, cut, Len(s)) = <<s[cut]>> \o SubSeq(s, cut + 1, Len(s))
  /\ SubSeq(s, 1, cut - 1) \o SubSeq(s, cut, Len(s)) = s

\* What is cut off in front of the first delimiter holds none, and nothing of
\* the sequence is lost.
LEMMA CutAtFirst ==
  ASSUME NEW C, NEW s \in Seq(C), NEW chars, Positions(s, chars) # {}
  PROVE  CutAt(C, s, chars, FirstOf(Positions(s, chars)))
<1> DEFINE cut == FirstOf(Positions(s, chars))
<1>1. cut \in 1..Len(s) /\ s[cut] \in chars /\ \A j \in 1..Len(s) : s[j] \in chars => cut <= j
  <2>1. Len(s) \in Nat
    BY LenProperties
  <2>2. Positions(s, chars) \subseteq Nat
    BY <2>1 DEF Positions
  <2>3. cut \in Positions(s, chars) /\ \A j \in Positions(s, chars) : cut <= j
    BY <2>2, FirstIsFirst
  <2> QED
    BY <2>3 DEF Positions
<1> HIDE DEF cut
<1>2. Len(s) \in Nat /\ \A i \in 1..Len(s) : s[i] \in C
  BY LenProperties, ElementOfSeq
<1>3. /\ SubSeq(s, 1, cut - 1) \in Seq(C)
      /\ Len(SubSeq(s, 1, cut - 1)) = cut - 1
      /\ \A i \in 1..cut - 1 : SubSeq(s, 1, cut - 1)[i] = s[i]
  <2>1. 1 \in Int /\ cut - 1 \in Int /\ \A i \in 1..cut - 1 : s[i] \in C
    BY <1>1, <1>2
  <2>2. /\ SubSeq(s, 1, cut - 1) \in Seq(C)
        /\ Len(SubSeq(s, 1, cut - 1)) = IF 1 <= cut - 1 THEN cut - 1 - 1 + 1 ELSE 0
        /\ \A i \in 1..cut - 1 - 1 + 1 : SubSeq(s, 1, cut - 1)[i] = s[1 + i - 1]
    BY <2>1, SubSeqProperties
  <2> QED
    BY <2>2, <1>1
<1>4. Positions(SubSeq(s, 1, cut - 1), chars) = {}
  <2> SUFFICES ASSUME NEW i \in 1..cut - 1 PROVE SubSeq(s, 1, cut - 1)[i] \notin chars
    BY <1>3 DEF Positions
  <2>1. i \in 1..Len(s) /\ ~(cut <= i)
    BY <1>1, <1>2
  <2> QED
    BY <2>1, <1>1, <1>3
<1>5. /\ SubSeq(s, cut, Len(s)) \in Seq(C)
      /\ Len(SubSeq(s, cut, Len(s))) = Len(s) - cut + 1
      /\ SubSeq(s, cut, Len(s))[1] = s[cut]
  <2>1. cut \in Int /\ Len(s) \in Int /\ \A i \in cut..Len(s) : s[i] \in C
    BY <1>1, <1>2
  <2>2. /\ SubSeq(s, cut, Len(s)) \in Seq(C)
        /\ Len(SubSeq(s, cut, Len(s))) = IF cut <= Len(s) THEN Len(s) - cut + 1 ELSE 0
        /\ \A i \in 1..Len(s) - cut + 1 : SubSeq(s, cut, Len(s))[i] = s[cut + i - 1]
    BY <2>1, SubSeqProperties
  <2> QED
    BY <2>2, <1>1, <1>2
<1>6. SubSeq(s, cut, Len(s)) # << >>
  BY <1>1, <1>2, <1>5, EmptySeq
<1>7. /\ SubSeq(s, cut + 1, Len(s)) \in Seq(C)
      /\ SubSeq(s, cut, Len(s)) = <<s[cut]>> \o SubSeq(s, cut + 1, Len(s))
  <2>1. cut \in 1..Len(s) /\ Len(s) \in cut..Len(s)
    BY <1>1, <1>2
  <2>2. cut + 1 \in Int /\ Len(s) \in Int /\ \A i \in cut + 1..Len(s) : s[i] \in C
    BY <1>1, <1>2
  <2>3. SubSeq(s, cut + 1, Len(s)) \in Seq(C)
    BY <2>2, SubSeqProperties
  <2> QED
    BY <2>1, <2>3, SubSeqRecursiveFirst
<1>8. SubSeq(s, 1, cut - 1) \o SubSeq(s, cut, Len(s)) = s
  <2>1. SubSeq(s, 1, cut - 1) \o SubSeq(s, (cut - 1) + 1, Len(s)) = SubSeq(s, 1, Len(s))
    <3>1. 1 \in 1..Len(s) + 1 /\ cut - 1 \in 1 - 1..Len(s) /\ Len(s) \in cut - 1..Len(s)
      BY <1>1, <1>2
    <3> QED
      BY <3>1, ConcatAdjacentSubSeq
  <2>2. (cut - 1) + 1 = cut
    BY <1>1, <1>2
  <2> QED
    BY <2>1, <2>2, SubSeqFull
<1> QED
  BY <1>1, <1>3, <1>4, <1>5, <1>6, <1>7, <1>8 DEF CutAt, cut

\* The characters of a URL, with those that ParseRelayUrl adds.
Characters == UrlCharacters \cup {":", "/", "?", "443", "80"}

\* The rest of a URL is the part before the target, and the target but for a
\* slash; that part holds neither "/" nor "?".
LEMMA SplitKeepsAll ==
  ASSUME NEW rest \in Seq(Characters),
         NEW split, split = SplitRelayHostAndTarget(rest)
  PROVE  /\ split.host \in Seq(Characters)
         /\ Positions(split.host, {"/", "?"}) = {}
         /\ split.target[1] = "/"
         /\ rest = split.host \o split.target \/ rest = split.host \o Tail(split.target)
<1> DEFINE cuts == Positions(rest, {"/", "?"})
           cut  == FirstOf(cuts)
           tail == SubSeq(rest, cut, Len(rest))
<1>1. CASE cuts = {}
  <2>1. split.host = rest /\ split.target = <<"/">>
    BY <1>1 DEF SplitRelayHostAndTarget
  <2>2. Tail(<<"/">>) = << >> /\ <<"/">>[1] = "/"
    OBVIOUS
  <2>3. rest = rest \o << >>
    BY ConcatEmptySeq
  <2> QED
    BY <1>1, <2>1, <2>2, <2>3
<1>2. CASE cuts # {}
  <2>1. split.host = SubSeq(rest, 1, cut - 1)
    BY <1>2 DEF SplitRelayHostAndTarget
  <2>2. split.target = IF rest[cut] = "?" THEN <<"/">> \o tail ELSE tail
    BY <1>2 DEF SplitRelayHostAndTarget
  <2>3. /\ rest[cut] \in {"/", "?"}
        /\ split.host \in Seq(Characters)
        /\ Positions(split.host, {"/", "?"}) = {}
        /\ tail \in Seq(Characters) /\ tail # << >> /\ tail[1] = rest[cut]
        /\ split.host \o tail = rest
    <3>1. CutAt(Characters, rest, {"/", "?"}, cut)
      BY <1>2, CutAtFirst
    <3> HIDE DEF cut
    <3> QED
      BY <3>1, <2>1 DEF CutAt
  <2>4. CASE rest[cut] = "?"
    <3> HIDE DEF tail
    <3>1. split.target = <<"/">> \o tail
      BY <2>2, <2>4
    <3>2. Tail(<<"/">> \o tail) = tail /\ (<<"/">> \o tail)[1] = "/"
      BY <2>3
    <3> QED
      BY <2>3, <3>1, <3>2
  <2>5. CASE rest[cut] # "?"
    BY <2>2, <2>3, <2>5
  <2> QED
    BY <2>4, <2>5
<1> QED
  BY <1>1, <1>2

\* The part before the target is the host, and the port if it is not the
\* scheme's, with a colon between them.
LEMMA PortIsCut ==
  ASSUME url.rest \in Seq(Characters), Dialed.ok
  PROVE  /\ Dialed.host # << >>
         /\ Positions(Dialed.host, {":", "/", "?"}) = {}
         /\ Positions(Dialed.port, {"/", "?"}) = {}
         /\ SplitRelayHostAndTarget(url.rest).host \in Authority
<1> DEFINE split  == SplitRelayHostAndTarget(url.rest)
           full   == split.host
           colons == Positions(full, {":"})
           colon  == FirstOf(colons)
           host   == IF colons = {} THEN full ELSE SubSeq(full, 1, colon - 1)
           port   == IF colons = {} THEN DefaultPort(url.scheme) ELSE SubSeq(full, colon + 1, Len(full))
<1>1. full \in Seq(Characters) /\ Positions(full, {"/", "?"}) = {}
  BY SplitKeepsAll
<1>2. Dialed.host = host /\ Dialed.port = port /\ host # << >>
  BY DEF Dialed, ParseRelayUrl, NoTarget
<1> HIDE DEF full
<1>3. CASE colons = {}
  <2>1. Positions(full, {":", "/", "?"}) = {}
    BY <1>1, <1>3 DEF Positions
  <2>2. Positions(DefaultPort(url.scheme), {"/", "?"}) = {}
    BY DEF Positions, DefaultPort
  <2> QED
    BY <1>2, <1>3, <2>1, <2>2 DEF Authority, full
<1>4. CASE colons # {}
  <2>1. /\ colon \in 1..Len(full) /\ full[colon] = ":"
        /\ host \in Seq(Characters) /\ Len(host) = colon - 1
        /\ \A i \in 1..colon - 1 : host[i] = full[i]
        /\ Positions(host, {":"}) = {}
        /\ SubSeq(full, colon, Len(full)) \in Seq(Characters)
        /\ SubSeq(full, colon, Len(full)) = <<":">> \o port
        /\ port \in Seq(Characters)
        /\ host \o SubSeq(full, colon, Len(full)) = full
    <3>1. CutAt(Characters, full, {":"}, colon)
      BY <1>1, <1>4, CutAtFirst
    <3>2. host = SubSeq(full, 1, colon - 1) /\ port = SubSeq(full, colon + 1, Len(full))
      BY <1>4
    <3> HIDE DEF colon, host, port
    <3> QED
      BY <3>1, <3>2 DEF CutAt
  <2> HIDE DEF host, port, colon
  <2>2. Positions(host, {":", "/", "?"}) = {}
    <3> SUFFICES ASSUME NEW i \in 1..colon - 1 PROVE host[i] \notin {":", "/", "?"}
      BY <2>1 DEF Positions
    <3>1. host[i] # ":"
      BY <2>1 DEF Positions
    <3>2. i \in 1..Len(full) /\ host[i] = full[i]
      BY <2>1, <1>1, LenProperties
    <3> QED
      BY <3>1, <3>2, <1>1 DEF Positions
  <2>3. Positions(port, {"/", "?"}) = {}
    <3>1. Len(full) \in Nat /\ \A i \in 1..Len(full) : full[i] \in Characters /\ full[i] \notin {"/", "?"}
      BY <1>1, LenProperties, ElementOfSeq DEF Positions
    <3>2. /\ Len(SubSeq(full, colon + 1, Len(full))) = IF colon + 1 <= Len(full) THEN Len(full) - (colon + 1) + 1 ELSE 0
          /\ \A i \in 1..Len(full) - (colon + 1) + 1 : SubSeq(full, colon + 1, Len(full))[i] = full[(colon + 1) + i - 1]
      <4>1. colon + 1 \in Int /\ Len(full) \in Int /\ \A i \in colon + 1..Len(full) : full[i] \in Characters
        BY <2>1, <3>1
      <4> QED
        BY <4>1, SubSeqProperties
    <3>3. port = SubSeq(full, colon + 1, Len(full))
      BY <1>4 DEF port
    <3>4. 1..Len(port) \subseteq 1..Len(full) - (colon + 1) + 1
      BY <2>1, <3>1, <3>2, <3>3
    <3> SUFFICES ASSUME NEW i \in 1..Len(full) - (colon + 1) + 1
                 PROVE  port[i] \notin {"/", "?"}
      BY <3>4 DEF Positions
    <3>5. (colon + 1) + i - 1 \in 1..Len(full)
      BY <2>1, <3>1
    <3> QED
      BY <3>1, <3>2, <3>3, <3>5
  <2>4. full = host \o <<":">> \o port
    <3> DEFINE separator == <<":">>
    <3>1. separator \in Seq(Characters)
      BY DEF Characters
    <3>2. host \in Seq(Characters) /\ port \in Seq(Characters)
      BY <2>1
    <3>3. full = host \o (separator \o port)
      BY <2>1
    <3> HIDE DEF separator
    <3>4. (host \o separator) \o port = host \o (separator \o port)
      BY <3>1, <3>2, ConcatAssociative
    <3>5. full = host \o separator \o port
      BY <3>3, <3>4
    <3> QED
      BY <3>5 DEF separator
  <2> QED
    BY <1>2, <2>2, <2>3, <2>4 DEF Authority, full
<1> QED
  BY <1>3, <1>4

\* Preserved, for the URLs of the run and all longer ones.
LEMMA ParsePreserves == url.rest \in Seq(Characters) => UrlPreserved
<1> SUFFICES ASSUME url.rest \in Seq(Characters), Dialed.ok PROVE UrlPreserved
  BY DEF UrlPreserved
<1> DEFINE split == SplitRelayHostAndTarget(url.rest)
<1>1. Dialed.target = split.target
  BY DEF Dialed, ParseRelayUrl, NoTarget
<1>2. /\ split.target[1] = "/"
      /\ url.rest = split.host \o split.target \/ url.rest = split.host \o Tail(split.target)
  BY SplitKeepsAll
<1> HIDE DEF split
<1>3. split.host \in Authority
  BY PortIsCut DEF split
<1> QED
  BY <1>1, <1>2, <1>3, PortIsCut DEF UrlPreserved

-----------------------------------------------------------------------------
(* The inputs, and the theorems.                                           *)

\* What an input is, as numbers.
LEMMA InputNumbers ==
  ASSUME input \in Inputs
  PROVE  input.total \in Nat /\ input.chosen \in Nat /\ input.rows \in Nat
BY InputAssumption DEF Inputs

\* The characters of a URL are those it is made of.
LEMMA UrlTextsCharacters ==
  ASSUME NEW u \in UrlTexts
  PROVE  u.rest \in Seq(Characters)
<1>1. PICK n \in 0..MaxRest : u.rest \in [1..n -> UrlCharacters]
  BY DEF UrlTexts
<1>2. n \in Nat
  BY DialAssumption
<1>3. u.rest \in [1..n -> Characters]
  BY <1>1 DEF Characters
<1> QED
  BY <1>2, <1>3, SeqDef

\* Every state is one input, and a step keeps it.
LEMMA InputInvariant == FunctionsSpec => [](input \in Inputs /\ url.rest \in Seq(Characters))
<1>1. FunctionsInit => input \in Inputs /\ url.rest \in Seq(Characters)
  <2>1. NoInput \in Inputs /\ NoUrl.rest \in Seq(Characters)
    BY InputAssumption DEF NoInput, NoUrl, Inputs
  <2> QED
    BY <2>1, UrlTextsCharacters DEF FunctionsInit
<1>2. input \in Inputs /\ url.rest \in Seq(Characters) /\ [FunctionsNext]_<<input, delay, url>>
        => (input \in Inputs /\ url.rest \in Seq(Characters))'
  BY DEF FunctionsNext, Next, DialNext, Characters
<1> QED
  BY <1>1, <1>2, PTL DEF FunctionsSpec

\* The selected relay is never outside the rows a frame shows.
THEOREM SelectionIsOnScreen == FunctionsSpec => []SelectedRowShown
<1>1. input \in Inputs => SelectedRowShown
  <2> SUFFICES ASSUME input \in Inputs, input.total > 0
               PROVE  /\ Window.start <= Least(input.chosen, input.total - 1)
                      /\ Least(input.chosen, input.total - 1) < Window.end
                      /\ Window.end <= input.total
                      /\ Window.end - Window.start =
                           IF input.rows = 0 THEN input.total ELSE Least(input.rows, input.total)
    BY DEF SelectedRowShown
  <2>1. input.total \in Nat \ {0} /\ input.chosen \in Nat /\ input.rows \in Nat
    BY InputNumbers
  <2>2. PICK n \in Nat \ {0}, c \in Nat, r \in Nat : n = input.total /\ c = input.chosen /\ r = input.rows
    BY <2>1
  <2>3. PICK w : w = Window /\ w = RelayListViewport(n, c, r)
    BY <2>2 DEF Window
  <2>4. ShowsSelection(n, c, r, w)
    BY ONLY <2>2, <2>3, ViewportShowsSelection
  <2> QED
    BY <2>2, <2>3, <2>4 DEF ShowsSelection
<1> QED
  BY <1>1, InputInvariant, PTL

\* A scroll position past the end never leaves lines of the log pane empty.
THEOREM LogPaneIsFull == FunctionsSpec => []LogWindowFull
<1>1. input \in Inputs => LogWindowFull
  BY InputNumbers, LogWindowFills DEF LogWindowFull, Lines
<1> QED
  BY <1>1, InputInvariant, PTL

\* The thumb of either scroll bar stays in its bar, and that of the log touches the
\* top exactly where the log starts and the bottom where it ends.
THEOREM ThumbsStayInBar == FunctionsSpec => []ThumbTellsPosition
<1>1. input \in Inputs => ThumbTellsPosition
  <2> SUFFICES ASSUME input \in Inputs, input.rows > 0
               PROVE  /\ InBar(Thumb, input.rows) /\ InBar(RowThumb, BarCells)
                      /\ Lines.start = 0 => Thumb.pos = 0
                      /\ Lines.end = input.total => Thumb.pos + Thumb.size = input.rows
    BY DEF ThumbTellsPosition
  <2>1. input.total \in Nat /\ input.chosen \in Nat /\ input.rows \in Nat \ {0}
    BY InputNumbers
  <2>2. /\ Lines.start \in Nat
        /\ input.total > input.rows => Lines.start <= input.total - input.rows
        /\ input.total > input.rows /\ Lines.end = input.total =>
             Lines.start = input.total - input.rows
    BY <2>1 DEF Lines, LogWindow, Least
  <2>3. /\ Window.start \in Nat /\ BarCells \in Nat \ {0}
        /\ input.total > input.rows => Window.start <= input.total - input.rows
    <3>1. CASE input.total = 0
      BY <2>1, <3>1 DEF Window, BarCells, RelayListViewport
    <3>2. CASE input.total # 0
      <4>1. Window.start \in Nat /\ Window.end \in Nat
        BY <2>1, <3>2 DEF Window, RelayListViewport, Least
      <4>2. Window.end <= input.total /\ Window.end - Window.start = Least(input.rows, input.total)
        <5>1. PICK n \in Nat \ {0}, c \in Nat, r \in Nat \ {0} : n = input.total /\ c = input.chosen /\ r = input.rows
          BY <2>1, <3>2
        <5>2. PICK w : w = Window /\ w = RelayListViewport(n, c, r)
          BY <5>1 DEF Window
        <5>3. w.end <= n /\ w.end - w.start = Least(r, n)
          <6>1. ShowsSelection(n, c, r, w)
            BY ONLY <5>1, <5>2, ViewportShowsSelection
          <6> QED BY ONLY <5>1, <6>1 DEF ShowsSelection
        <5> QED BY <5>1, <5>2, <5>3
      <4> QED
        BY <2>1, <4>1, <4>2 DEF BarCells, Least
    <3> QED BY <3>1, <3>2
  <2>4. /\ InBar(Thumb, input.rows)
        /\ Lines.start = 0 => Thumb.pos = 0
        /\ Lines.end = input.total => Thumb.pos + Thumb.size = input.rows
    <3>1. /\ InBar(Thumb, input.rows)
          /\ Lines.start = 0 => Thumb.pos = 0
          /\ input.total > input.rows /\ Lines.start = input.total - input.rows =>
               Thumb.pos + Thumb.size = input.rows
          /\ input.total <= input.rows => Thumb.pos + Thumb.size = input.rows
      <4> DEFINE first == Lines.start
      <4>1. first \in Nat /\ (input.total > input.rows => first <= input.total - input.rows)
        BY <2>2
      <4>2. Thumb = ScrollThumb(input.total, first, input.rows, input.rows)
        BY DEF Thumb
      <4> SUFFICES /\ InBar(Thumb, input.rows)
                   /\ first = 0 => Thumb.pos = 0
                   /\ input.total > input.rows /\ first = input.total - input.rows =>
                        Thumb.pos + Thumb.size = input.rows
                   /\ input.total <= input.rows => Thumb.pos + Thumb.size = input.rows
        OBVIOUS
      <4> HIDE DEF first
      <4> QED BY <2>1, <4>1, <4>2, ThumbFacts
    <3>2. input.total > input.rows \/ input.total <= input.rows
      BY <2>1
    <3> QED BY <2>2, <3>1, <3>2
  <2>5. InBar(RowThumb, BarCells)
    BY <2>1, <2>3, ThumbFacts DEF RowThumb
  <2> QED
    BY <2>4, <2>5
<1> QED
  BY <1>1, InputInvariant, PTL

\* README.md:17, "exponential backoff and jitter": within the retry budget every
\* attempt waits longer than the one before, and no attempt waits beyond the limit.
THEOREM LaterAttemptsWaitLonger == FunctionsSpec => []DelayBacksOff
<1>1. delay \in Delays \cup {NoDelay} => DelayBacksOff
  <2> SUFFICES ASSUME delay \in Delays \cup {NoDelay} PROVE DelayBacksOff
    OBVIOUS
  <2> DEFINE a == delay.earlier
             b == delay.later
             i == delay.jitter
             j == delay.jitter2
  <2>1. a \in Nat /\ b \in Nat /\ i \in 0..250 /\ j \in 0..250
    <3>1. CASE delay = NoDelay
      BY <3>1 DEF NoDelay
    <3>2. CASE delay \in Delays
      <4>1. a \in 0..MaxAttempt /\ b \in 0..MaxAttempt /\ i \in Jitters /\ j \in Jitters
        BY <3>2 DEF Delays
      <4> HIDE DEF a, b, i, j
      <4> QED BY <4>1, DialAssumption
    <3> QED BY <3>1, <3>2
  <2>2. Delay = Lesser(30000, Base(a) + i) /\ Delay2 = Lesser(30000, Base(b) + j)
    BY DEF Delay, Delay2, ReconnectDelayMs, Base, Exponent
  <2>3. DelayBacksOff <=>
          /\ Doubling[a] <= Delay
          /\ Delay <= Lesser(30000, Doubling[a] + 250)
          /\ a < b /\ {a, b} \subseteq 1..kMaxReconnectAttempts => Delay < Delay2
    BY DEF DelayBacksOff
  <2> HIDE DEF a, b, i, j
  <2>4. Base(a) \in Nat /\ Doubling[a] = Lesser(30000, Base(a))
    <3>1. a \in 0..1 \/ a \in {2, 3, 4, 5, 6} \/ a >= 7
      BY <2>1
    <3> QED BY <2>1, <3>1, BaseValues, DoublingIsBase
  <2>5. Doubling[a] <= Delay /\ Delay <= Lesser(30000, Doubling[a] + 250)
    BY <2>1, <2>2, <2>4 DEF Lesser
  <2>6. ASSUME a < b, {a, b} \subseteq 1..kMaxReconnectAttempts PROVE Delay < Delay2
    <3>1. a \in 1..7 /\ b \in 1..7
      BY <2>1, <2>6, AttemptsAssumption, BudgetAssumption
    <3> QED
      BY <2>1, <2>2, <2>6, <3>1, BaseGrows DEF Lesser
  <2> QED
    BY <2>3, <2>5, <2>6
<1>2. FunctionsInit => delay \in Delays \cup {NoDelay}
  BY DEF FunctionsInit
<1>3. delay \in Delays \cup {NoDelay} /\ [FunctionsNext]_<<input, delay, url>>
        => (delay \in Delays \cup {NoDelay})'
  BY DEF FunctionsNext, DialNext, Delays
<1> QED
  BY <1>1, <1>2, <1>3, PTL DEF FunctionsSpec

\* copilot-instructions.md:26, "Preserve full relay URLs": of a relay URL of any
\* length, over any characters, no part is lost or moved by taking it apart.
THEOREM WholeUrlIsDialed == FunctionsSpec => []UrlPreserved
BY ParsePreserves, InputInvariant, PTL

=============================================================================
