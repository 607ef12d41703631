-------------------------------- MODULE MCKeys --------------------------------
(***************************************************************************)
(* Texts for Keys: encoded keys of two bytes, the same with up to two      *)
(* wrong symbols or two symbols swapped, and all symbols of a small set    *)
(* with a checksum that fits.                                              *)
(***************************************************************************)
EXTENDS Keys

CONSTANTS Payloads, Doubled, WrongSymbols, FreeSymbols

FirstPayloads == {<<0, 0>>, <<37, 255>>, <<128, 1>>}
OnePayload    == {<<37, 255>>}

\* A stand-in for the curve.
SomePubkey == [b \in Bytes \X Bytes |-> <<b[2], (b[1] + 1) % 256>>]

Entry(callback, text, encoded, damaged, payload) ==
  [callback |-> callback, text |-> text, encoded |-> encoded, damaged |-> damaged, payload |-> payload]

Encoded(hrp, payload) == EncodeBech32_32Bytes(hrp, payload)

Good ==
  {Entry(hrp, [Encoded(hrp, b) EXCEPT !.case = c], TRUE, FALSE, b) :
     hrp \in {"npub", "nsec"}, b \in Payloads, c \in {"lower", "upper"}}

Swap(s, i) == [s EXCEPT ![i] = s[i + 1], ![i + 1] = s[i]]

Damaged(hrp, b) ==
  LET text == Encoded(hrp, b)
      data == text.data
      one  == {[data EXCEPT ![i] = v] : i \in DOMAIN data, v \in 0..Foreign}
      two  == {[data EXCEPT ![p[1]] = v, ![p[2]] = w] :
                 p \in {q \in (DOMAIN data) \X (DOMAIN data) : q[1] < q[2] /\ b \in Doubled},
                 v \in WrongSymbols, w \in WrongSymbols}
      near == {Swap(data, i) : i \in 1..Len(data) - 1} \cup {SubSeq(data, 1, i) : i \in 0..Len(data) - 1}
  IN {[text EXCEPT !.data = d] : d \in (one \cup two \cup near) \ {data}}
       \cup {[text EXCEPT !.case = "mixed"]}
       \cup {[text EXCEPT !.hrp = h] : h \in ({NoHrp} \cup Hrps) \ {hrp}}

Bad ==
  UNION {{Entry(hrp, t, FALSE, TRUE, b) : t \in Damaged(hrp, b)} : hrp \in {"npub", "nsec"}, b \in Payloads}
    \cup {Entry("nsec", Encoded("npub", b), FALSE, TRUE, b) : b \in Payloads}

\* Texts nobody encoded, whose checksum is right: three to five symbols.
Free ==
  {Entry(hrp, [hrp |-> hrp, data |-> d \o CreateChecksum(hrp, d), case |-> "lower"], FALSE, FALSE, << >>) :
     hrp \in {"npub", "nsec"}, d \in UNION {[1..n -> FreeSymbols] : n \in 3..5}}

AllEntries == Good \cup Bad \cup Free

=============================================================================
