-------------------------------- MODULE Nip19 --------------------------------
(***************************************************************************)
(* nip19: the bech32 texts of public and private keys.                     *)
(*                                                                         *)
(* A text is what is in front of its last '1', the symbols behind it, and  *)
(* the case it is written in; a symbol is its index in the charset, or     *)
(* Foreign when it has none.  The 30 bits of a checksum under way are the  *)
(* set of the positions that are 1, so that ^ is the symmetric difference. *)
(* A hex string is the sequence of its digits.                             *)
(***************************************************************************)
EXTENDS Integers, Sequences, FiniteSets

CONSTANT PayloadBytes    \* 32 in the source

ASSUME PayloadAssumption == PayloadBytes \in Nat \ {0}

Foreign == 32
Bytes   == 0..255

\* The symbols of a key of 32 bytes, with their checksum.
KeySymbols == 58

Hrps == {"npub", "nsec", "note"}

\* No '1', or nothing in front of it.
NoHrp == "none"

\* The characters of a human-readable part.
Codes == [npub |-> <<110, 112, 117, 98>>, nsec |-> <<110, 115, 101, 99>>, note |-> <<110, 111, 116, 101>>]

Cases == {"lower", "upper", "mixed"}
Texts == [hrp : Hrps \cup {NoHrp}, data : Seq(0..Foreign), case : Cases]

-----------------------------------------------------------------------------
(* The checksum.                                                           *)

BitsOf(n)    == {i \in 0..29 : (n \div 2^i) % 2 = 1}
Number(bits) == LET sum[i \in 0..30] == IF i = 0 THEN 0
                                        ELSE sum[i - 1] + (IF i - 1 \in bits THEN 2^(i - 1) ELSE 0)
                IN sum[30]

\* The exclusive or of the words in a sequence.
XorAll(words) ==
  {b \in 0..29 : Cardinality({i \in DOMAIN words : b \in words[i]}) % 2 = 1}

kBech32Gen == <<BitsOf(\h3b6a57b2), BitsOf(\h26508e6d), BitsOf(\h1ea119fa),
                BitsOf(\h3d4233dd), BitsOf(\h2a1462b3)>>

\* Seeded bug: the fed back bits are one off, and nothing comes back of the last.
StepShifted(chk, value) ==
  XorAll(<<{b + 5 : b \in chk \cap 0..24}, BitsOf(value)>>
         \o [i \in 1..5 |-> IF i + 25 \in chk THEN kBech32Gen[i] ELSE {}])

\* The fed back words are those whose bit of the top five is 1.
Step(chk, value) ==
  XorAll(<<{b + 5 : b \in chk \cap 0..24}, BitsOf(value)>>
         \o [i \in 1..5 |-> IF i + 24 \in chk THEN kBech32Gen[i] ELSE {}])

Polymod(values) ==
  LET upTo[n \in 0..Len(values)] == IF n = 0 THEN {0} ELSE Step(upTo[n - 1], values[n])
  IN upTo[Len(values)]

\* What a wrong symbol may have made of the checksum n right symbols later.
Spread[n \in 0..KeySymbols - 1] ==
  IF n = 0 THEN {BitsOf(value) : value \in 1..31} ELSE {Step(chk, 0) : chk \in Spread[n - 1]}

\* Within the length of a key, no second wrong symbol can make up for the first:
\* the generators are chosen so.
ASSUME GeneratorAssumption ==
  \A n \in 1..KeySymbols - 1 : \A chk \in Spread[n] : chk \subseteq 0..4 => chk = {}

HrpExpand(hrp) ==
  [i \in DOMAIN hrp |-> hrp[i] \div 32] \o <<0>> \o [i \in DOMAIN hrp |-> hrp[i] % 32]

VerifyChecksum(hrp, data) == Polymod(HrpExpand(Codes[hrp]) \o data) = {0}

CreateChecksum(hrp, data) ==
  LET poly == XorAll(<<Polymod(HrpExpand(Codes[hrp]) \o data \o [i \in 1..6 |-> 0]), {0}>>)
  IN [i \in 1..6 |-> Number({b - 5 * (6 - i) : b \in poly \cap 5 * (6 - i)..5 * (6 - i) + 4})]

-----------------------------------------------------------------------------
(* Groups of `from` bits into groups of `to` bits.  What is left over is    *)
(* filled up with zeros, or must be fewer than `from` zeros.               *)

\* A value goes in; the whole groups come out, and the bits left over stay in acc.
Regrouped(state, value, from, to) ==
  LET acc  == (state.acc * 2^from + value) % 2^(from + to - 1)
      bits == state.bits + from
  IN [acc  |-> acc,
      bits |-> bits % to,
      out  |-> state.out \o [j \in 1..bits \div to |-> (acc \div 2^(bits - j * to)) % 2^to]]

\* The whole groups, the number of bits left over, and those bits filled up.
Regroup(in, from, to) ==
  LET upTo[n \in 0..Len(in)] == IF n = 0 THEN [acc |-> 0, bits |-> 0, out |-> << >>]
                                ELSE Regrouped(upTo[n - 1], in[n], from, to)
      end == upTo[Len(in)]
  IN [out |-> end.out, bits |-> end.bits, rest |-> (end.acc * 2^(to - end.bits)) % 2^to]

\* Seeded bug: what is left over may be anything.
ConvertBitsLax(in, from, to, pad) ==
  LET groups == Regroup(in, from, to) IN
  [ok |-> TRUE, out |-> IF pad /\ groups.bits > 0 THEN Append(groups.out, groups.rest) ELSE groups.out]

ConvertBits(in, from, to, pad) ==
  LET groups == Regroup(in, from, to) IN
  IF pad THEN [ok |-> TRUE, out |-> IF groups.bits > 0 THEN Append(groups.out, groups.rest) ELSE groups.out]
  ELSE [ok |-> groups.bits < from /\ groups.rest = 0, out |-> groups.out]

-----------------------------------------------------------------------------
(* Texts and bytes.                                                        *)

NoText == [hrp |-> NoHrp, data |-> << >>, case |-> "lower"]

Refused(error) == [ok |-> FALSE, error |-> error, bytes |-> << >>]

DecodeBech32_32Bytes(text, expected_hrp) ==
  LET data      == text.data
      converted == ConvertBits(SubSeq(data, 1, Len(data) - 6), 5, 8, FALSE)
  IN
  CASE text = NoText                            -> Refused("empty")
    [] text.case = "mixed"                      -> Refused("mixed case")
    [] text.hrp = NoHrp \/ Len(data) < 6        -> Refused("separator")
    [] text.hrp # expected_hrp                  -> Refused("hrp")
    [] \E i \in DOMAIN data : data[i] = Foreign -> Refused("character")
    [] OTHER ->
       IF ~VerifyChecksum(text.hrp, data) THEN Refused("checksum")
       ELSE IF ~converted.ok THEN Refused("conversion")
       ELSE IF Len(converted.out) # PayloadBytes THEN Refused("length")
       ELSE [ok |-> TRUE, error |-> "none", bytes |-> converted.out]

EncodeBech32_32Bytes(hrp, bytes) ==
  LET data5 == ConvertBits(bytes, 8, 5, TRUE).out IN
  IF Len(bytes) # PayloadBytes THEN NoText
  ELSE [hrp |-> hrp, data |-> data5 \o CreateChecksum(hrp, data5), case |-> "lower"]

-----------------------------------------------------------------------------
(* Hex.                                                                    *)

NoDigit == 16

BytesToHex(bytes) ==
  [i \in 1..2 * Len(bytes) |-> IF i % 2 = 1 THEN bytes[(i + 1) \div 2] \div 16
                               ELSE bytes[i \div 2] % 16]

HexToBytes(hex) ==
  IF Len(hex) % 2 # 0 \/ \E i \in DOMAIN hex : hex[i] = NoDigit THEN << >>
  ELSE [i \in 1..Len(hex) \div 2 |-> hex[2 * i - 1] * 16 + hex[2 * i]]

EncodeNpubFromHex(hex_pubkey) ==
  LET bytes == HexToBytes(hex_pubkey) IN
  IF Len(bytes) # PayloadBytes THEN NoText ELSE EncodeBech32_32Bytes("npub", bytes)

=============================================================================
