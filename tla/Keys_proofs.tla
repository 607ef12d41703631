------------------------------ MODULE Keys_proofs ------------------------------
(***************************************************************************)
(* The texts of keys, and what becomes of a key on its way through the     *)
(* program, for keys of every length and every text that is typed.         *)
(*                                                                         *)
(* What a return leaves behind is known by name: HeldInv gives the buffers *)
(* in use for each call that may come next.                                *)
(*                                                                         *)
(* ConvertBits and its way back are inverse to one another: the state of   *)
(* one follows that of the other, value by value.  The checksum is linear: *)
(* the difference of two checksums under way depends on the differences of *)
(* the values alone.  Both together say which texts are taken (IsTaken),   *)
(* and TextInv carries that through the steps of a key.                    *)
(***************************************************************************)
EXTENDS Keys, FiniteSetTheorems, SequenceTheorems, Induction_proofs

-----------------------------------------------------------------------------
(* What is held.                                                           *)

\* What a key that is set keeps.
OfTheKey == IF auth_key.set THEN {"privkey"} ELSE {}

\* The buffers in use before each call.
HeldInv ==
  /\ at = "entered"        => held \subseteq OfTheKey
  /\ at = "derive_context" => held \subseteq {"hex", "privkey"}
  /\ at = "derive_keypair" => held \subseteq {"hex", "privkey", "context"}
  /\ at = "derive_xonly"   => held \subseteq {"hex", "privkey", "context", "keypair"}
  /\ at = "idle"           => ("privkey" \in held => auth_key.set)
  /\ at = "auth_context"   => held \subseteq OfTheKey
  /\ at = "auth_seed"      => held \subseteq OfTheKey \cup {"context"}
  /\ at = "auth_keypair"   => held \subseteq OfTheKey \cup {"context", "ctx_seed"}
  /\ at = "auth_xonly"     => held \subseteq OfTheKey \cup {"context", "ctx_seed", "keypair"}
  /\ at = "auth_aux" =>
       held \subseteq OfTheKey \cup {"context", "ctx_seed", "keypair", "event_id"}
  /\ at = "auth_sign" =>
       held \subseteq OfTheKey \cup {"context", "ctx_seed", "keypair", "event_id", "aux_rand"}

\* What a return may leave: what the key keeps, and what that return does not clear.
LeavesNoMore ==
  at' = "idle" /\ at # "idle" => held' \subseteq OfTheKey' \cup NotCleared(at)

\* The initial states hold nothing.
LEMMA InitHolds == Init => HeldInv
BY DEF Init, HeldInv

\* Before the key is set, a return clears the hex and the bytes of the key.
LEMMA DeriveHolds ==
  ASSUME HeldInv, DeriveContext \/ DeriveKeypair \/ DeriveXonly
  PROVE  HeldInv' /\ LeavesNoMore
<1> USE DEF HeldInv, OfTheKey, LeavesNoMore, NotCleared
<1>1. CASE DeriveContext BY <1>1 DEF DeriveContext, Succeeds, Fails, NoPubkey
<1>2. CASE DeriveKeypair BY <1>2 DEF DeriveKeypair, Succeeds, Fails, NoPubkey
<1>3. CASE KeyIsSet
  <2>1. at = "derive_xonly" /\ at' = "idle" /\ auth_key'.set BY <1>3 DEF KeyIsSet, KeyOf
  <2>2. held' \subseteq {"privkey"} BY <1>3, <2>1 DEF KeyIsSet
  <2> QED BY <2>1, <2>2
<1>4. CASE Fails("derive_xonly", {}, {"keypair", "context"} \cup NoPubkey)
  BY <1>4 DEF Fails, NoPubkey
<1> QED BY <1>1, <1>2, <1>3, <1>4 DEF DeriveXonly

\* BuildAuthEvent starts with what the key keeps, and clears the rest but for what
\* a failing source of randomness leaves.
LEMMA AuthHolds ==
  ASSUME HeldInv,
         \/ Challenge \/ AuthContext \/ AuthSeed \/ AuthKeypair \/ AuthXonly \/ AuthAux \/ AuthSign
  PROVE  HeldInv' /\ LeavesNoMore
<1> USE DEF HeldInv, OfTheKey, LeavesNoMore, NotCleared
<1>1. CASE Challenge BY <1>1 DEF Challenge
<1>2. CASE AuthContext BY <1>2 DEF AuthContext, Succeeds, Fails
<1>3. CASE AuthSeed BY <1>3 DEF AuthSeed, Succeeds, Fails
<1>4. CASE AuthKeypair BY <1>4 DEF AuthKeypair, Succeeds, Fails
<1>5. CASE AuthXonly BY <1>5 DEF AuthXonly, Succeeds, Fails
<1>6. CASE AuthAux BY <1>6 DEF AuthAux, Succeeds, Fails
<1>7. CASE AuthSign BY <1>7 DEF AuthSign, Fails
<1> QED BY <1>1, <1>2, <1>3, <1>4, <1>5, <1>6, <1>7

\* No step holds more than the call it leads to accounts for, and no return
\* leaves more than it is known to.
LEMMA StepHolds == HeldInv /\ [Next]_vars => HeldInv' /\ [LeavesNoMore]_vars
<1> SUFFICES ASSUME HeldInv, [Next]_vars PROVE HeldInv' /\ (LeavesNoMore \/ UNCHANGED vars)
  OBVIOUS
<1> USE DEF HeldInv, OfTheKey
<1>1. CASE NpubSubmit
  BY <1>1 DEF NpubSubmit, LeftBy, LeavesNoMore, NotCleared
<1>2. CASE NsecSubmit
  BY <1>2 DEF NsecSubmit, LeftBy, LeavesNoMore, NotCleared
<1>3. CASE UNCHANGED vars BY <1>3 DEF vars
<1> QED BY <1>1, <1>2, <1>3, DeriveHolds, AuthHolds DEF Next, Idle

\* No return of the decoder, of the derivation or of the signature, at whichever
\* call, leaves behind what the source clears by name, but for the three that do
\* not clear everything, and those leave nothing else.
THEOREM NothingElseIsLeft == Spec => NothingElseLeft
<1>1. HeldInv /\ [Next]_vars =>
        [at' = "idle" /\ at # "idle" =>
           held' \subseteq (IF auth_key'.set THEN {"privkey"} ELSE {}) \cup NotCleared(at)]_vars
  BY StepHolds DEF LeavesNoMore, OfTheKey
<1>2. HeldInv /\ [Next]_vars => HeldInv'
  BY StepHolds
<1> QED BY InitHolds, <1>1, <1>2, PTL DEF Spec, NothingElseLeft

-----------------------------------------------------------------------------
(* Hex.                                                                    *)

\* A byte has two digits.
LEMMA Nibbles ==
  ASSUME NEW b \in 0..255, NEW q, NEW r, q = b \div 16, r = b % 16
  PROVE  q # 16 /\ r # 16 /\ b = q * 16 + r
OBVIOUS

\* Two digits for each byte.
LEMMA Twice == ASSUME NEW n \in Nat PROVE (2 * n) % 2 = 0 /\ (2 * n) \div 2 = n
OBVIOUS

\* Hex digits give back the bytes they were made from.
THEOREM HexRoundTrip ==
  ASSUME NEW bytes \in Seq(Bytes)
  PROVE  HexToBytes(BytesToHex(bytes)) = bytes
<1> DEFINE N   == Len(bytes)
           hex == BytesToHex(bytes)
<1>1. /\ N \in Nat /\ DOMAIN bytes = 1..N
      /\ \A i \in 1..N : bytes[i] \in 0..255
  <2>1. N \in Nat /\ DOMAIN bytes = 1..N /\ \A i \in 1..N : bytes[i] \in Bytes
    OBVIOUS
  <2> QED BY <2>1 DEF Bytes
<1>0. \A b \in 0..255 : \A q, r :
        q = b \div 16 /\ r = b % 16 => q # 16 /\ r # 16 /\ b = q * 16 + r
  BY Nibbles
<1>2. hex = [i \in 1..2 * N |-> IF i % 2 = 1 THEN bytes[(i + 1) \div 2] \div 16
                                ELSE bytes[i \div 2] % 16]
  BY DEF BytesToHex
<1>3. Len(hex) = 2 * N /\ DOMAIN hex = 1..2 * N
  BY <1>1, <1>2
<1>4. ASSUME NEW i \in 1..N
      PROVE  /\ hex[2 * i - 1] = bytes[i] \div 16 /\ hex[2 * i] = bytes[i] % 16
  <2>1. /\ 2 * i \in 1..2 * N /\ 2 * i - 1 \in 1..2 * N
        /\ (2 * i) % 2 = 0 /\ (2 * i - 1) % 2 = 1
        /\ (2 * i) \div 2 = i /\ (2 * i - 1 + 1) \div 2 = i
    BY <1>1
  <2> HIDE DEF hex
  <2> QED BY <1>2, <2>1
<1>5. \A i \in DOMAIN hex : hex[i] # NoDigit
  <2>1. ASSUME NEW i \in 1..2 * N PROVE hex[i] # 16
    <3>1. CASE i % 2 = 1
      <4>1. (i + 1) \div 2 \in 1..N
        BY <1>1, <3>1
      <4>2. bytes[(i + 1) \div 2] \div 16 # 16
        BY <1>0, <1>1, <4>1
      <4> HIDE DEF hex
      <4> QED BY <1>2, <3>1, <4>2
    <3>2. CASE i % 2 # 1
      <4>1. i \div 2 \in 1..N
        BY <1>1, <3>2
      <4>2. bytes[i \div 2] % 16 # 16
        BY <1>0, <1>1, <4>1
      <4> HIDE DEF hex
      <4> QED BY <1>2, <3>2, <4>2
    <3> QED BY <3>1, <3>2
  <2> QED BY <1>3, <2>1 DEF NoDigit
<1>6. Len(hex) % 2 = 0 /\ Len(hex) \div 2 = N
  <2>1. (2 * N) % 2 = 0 /\ (2 * N) \div 2 = N
    BY <1>1, Twice
  <2> DEFINE n == Len(hex)
  <2>2. n = 2 * N
    BY <1>3
  <2> HIDE DEF n, N
  <2>3. n % 2 = 0 /\ n \div 2 = N
    BY <2>1, <2>2
  <2> QED BY <2>3 DEF n
<1>7. HexToBytes(hex) = [i \in 1..N |-> hex[2 * i - 1] * 16 + hex[2 * i]]
  <2> HIDE DEF hex, N
  <2> QED BY <1>5, <1>6 DEF HexToBytes
<1>8. \A i \in 1..N : bytes[i] = hex[2 * i - 1] * 16 + hex[2 * i]
  <2> SUFFICES ASSUME NEW i \in 1..N PROVE bytes[i] = hex[2 * i - 1] * 16 + hex[2 * i]
    OBVIOUS
  <2> DEFINE b == bytes[i]
             q == hex[2 * i - 1]
             r == hex[2 * i]
  <2>1. b \in 0..255 /\ q = b \div 16 /\ r = b % 16
    BY <1>1, <1>4
  <2> HIDE DEF b, q, r
  <2>2. b = q * 16 + r
    BY <2>1, Nibbles
  <2> QED BY <2>2 DEF b, q, r
<1>9. HexToBytes(hex) = [i \in 1..N |-> bytes[i]]
  <2> HIDE DEF hex, N
  <2> QED BY <1>7, <1>8
<1>10. bytes = [i \in 1..N |-> bytes[i]]
  OBVIOUS
<1> QED
  BY <1>9, <1>10

-----------------------------------------------------------------------------
(* ConvertBits: what a value brings out, and what is left over.            *)

\* The states of a change from bytes to symbols, and from symbols to bytes.
Symbols == 0..31
Wide    == [acc : 0..4095, bits : 0..4, out : Seq(Symbols)]
Narrow  == [acc : 0..4095, bits : 0..7, out : Seq(Bytes)]

\* The parts of a state.
LEMMA WideTypes ==
  ASSUME NEW s \in Wide
  PROVE  s.acc \in 0..4095 /\ s.bits \in 0..4 /\ s.out \in Seq(Symbols)
BY DEF Wide

\* The same the other way.
LEMMA NarrowTypes ==
  ASSUME NEW s \in Narrow
  PROVE  s.acc \in 0..4095 /\ s.bits \in 0..7 /\ s.out \in Seq(Bytes)
BY DEF Narrow

\* The bits that are left over, as a number.
Pending(s) == s.acc % 2^s.bits

\* A last group of one or two values.
LEMMA LastGroups ==
  ASSUME NEW S, NEW out \in Seq(S), NEW x \in S, NEW y \in S
  PROVE  /\ out \o [j \in 1..0 |-> x] = out
         /\ out \o [j \in 1..1 |-> x] = Append(out, x)
         /\ out \o [j \in 1..2 |-> IF j = 1 THEN x ELSE y] = Append(Append(out, x), y)
<1>1. [j \in 1..0 |-> x] = << >>
  OBVIOUS
<1>2. [j \in 1..1 |-> x] = <<x>>
  OBVIOUS
<1>3. [j \in 1..2 |-> IF j = 1 THEN x ELSE y] = <<x, y>>
  OBVIOUS
<1>4. out \o << >> = out /\ out \o <<x>> = Append(out, x) /\ out \o <<x, y>> = Append(Append(out, x), y)
  OBVIOUS
<1> QED
  BY <1>1, <1>2, <1>3, <1>4

\* The value of a group of bits.
LEMMA Powers == 2^0 = 1 /\ 2^1 = 2 /\ 2^2 = 4 /\ 2^3 = 8 /\ 2^4 = 16 /\ 2^5 = 32 /\ 2^6 = 64
                /\ 2^7 = 128 /\ 2^8 = 256 /\ 2^12 = 4096
OBVIOUS

\* The number in the `to` bits of acc from bit `low` on, and the whole groups when acc has `bits` bits.
Part(acc, low, to)    == (acc \div 2^low) % 2^to
\* The whole groups of the bits in acc, the high one first.
Groups(acc, bits, to) == [j \in 1..bits \div to |-> Part(acc, bits - j * to, to)]

\* They are put behind the others in order.
LEMMA NoGroup ==
  ASSUME NEW out, NEW S, out \in Seq(S), NEW acc, NEW bits, NEW to, bits \div to = 0
  PROVE  out \o Groups(acc, bits, to) = out
<1>1. Groups(acc, bits, to) = << >>
  BY DEF Groups
<1> QED
  BY <1>1

\* One whole group is put behind what is out.
LEMMA OneGroup ==
  ASSUME NEW S, NEW out, out \in Seq(S), NEW acc, NEW bits \in Nat, NEW to \in Nat,
         bits \div to = 1, Part(acc, bits - to, to) \in S
  PROVE  out \o Groups(acc, bits, to) = Append(out, Part(acc, bits - to, to))
<1> DEFINE x   == Part(acc, bits - to, to)
           new == Groups(acc, bits, to)
<1>1. new = [j \in 1..1 |-> x]
  <2>1. new = [j \in 1..1 |-> Part(acc, bits - j * to, to)]
    BY DEF Groups
  <2>2. \A j \in 1..1 : bits - j * to = bits - to
    OBVIOUS
  <2>3. \A j \in 1..1 : Part(acc, bits - j * to, to) = x
    BY <2>2
  <2> HIDE DEF new
  <2> QED BY <2>1, <2>3
<1> HIDE DEF new
<1>2. out \o new = Append(out, x)
  <2>1. x \in S
    OBVIOUS
  <2> HIDE DEF x
  <2> QED BY <1>1, <2>1, LastGroups
<1> QED
  BY <1>2 DEF new

\* Two whole groups are put behind what is out, the high one first.
LEMMA TwoGroups ==
  ASSUME NEW out \in Seq(Symbols), NEW acc, NEW bits \in Nat, bits \div 5 = 2,
         NEW high \in Nat, NEW low \in Nat, bits - 5 = high, high - 5 = low,
         Part(acc, high, 5) \in Symbols, Part(acc, low, 5) \in Symbols
  PROVE  out \o Groups(acc, bits, 5) = Append(Append(out, Part(acc, high, 5)), Part(acc, low, 5))
<1> DEFINE x   == Part(acc, high, 5)
           y   == Part(acc, low, 5)
           new == Groups(acc, bits, 5)
<1>1. new = [j \in 1..2 |-> IF j = 1 THEN x ELSE y]
  <2>1. new = [j \in 1..2 |-> Part(acc, bits - j * 5, 5)]
    BY DEF Groups
  <2>2. bits - 1 * 5 = high /\ bits - 2 * 5 = low
    OBVIOUS
  <2>3. Part(acc, bits - 1 * 5, 5) = x /\ Part(acc, bits - 2 * 5, 5) = y
    BY <2>2
  <2>4. \A j \in 1..2 : j = 1 \/ j = 2
    OBVIOUS
  <2> HIDE DEF new
  <2>5. \A j \in 1..2 : Part(acc, bits - j * 5, 5) = IF j = 1 THEN x ELSE y
    BY <2>3, <2>4
  <2> QED BY <2>1, <2>5
<1> HIDE DEF new
<1>2. out \o new = Append(Append(out, x), y)
  <2>1. x \in Symbols /\ y \in Symbols
    OBVIOUS
  <2> HIDE DEF x, y
  <2> QED BY <1>1, <2>1, LastGroups
<1> QED
  BY <1>2 DEF new

\* Twelve bits.
LEMMA Room == ASSUME NEW n \in Nat PROVE n % 4096 \in 0..4095
OBVIOUS

\* The state after a symbol, by the number of bits that were left over.
NarrowMoveAcc(s, v, t, acc) ==
  /\ s \in Narrow /\ v \in Symbols /\ t = Regrouped(s, v, 5, 8)
  /\ acc = (s.acc * 2^5 + v) % 2^(5 + 8 - 1)

\* A symbol brings out a byte when there are eight bits with it.
NarrowOut(s, t, acc) ==
  /\ t.acc = acc /\ acc \in 0..4095
  /\ s.bits = 0 => t.bits = 5 /\ t.out = s.out
  /\ s.bits = 1 => t.bits = 6 /\ t.out = s.out
  /\ s.bits = 2 => t.bits = 7 /\ t.out = s.out
  /\ s.bits = 3 => t.bits = 0 /\ t.out = Append(s.out, (acc \div 1) % 256)
  /\ s.bits = 4 => t.bits = 1 /\ t.out = Append(s.out, (acc \div 2) % 256)
  /\ s.bits = 5 => t.bits = 2 /\ t.out = Append(s.out, (acc \div 4) % 256)
  /\ s.bits = 6 => t.bits = 3 /\ t.out = Append(s.out, (acc \div 8) % 256)
  /\ s.bits = 7 => t.bits = 4 /\ t.out = Append(s.out, (acc \div 16) % 256)

\* A state is its three parts.
LEMMA NarrowParts ==
  ASSUME NEW s, NEW v, NEW t, NEW acc, NarrowMoveAcc(s, v, t, acc)
  PROVE  t = [acc |-> acc, bits |-> t.bits, out |-> t.out]
BY DEF NarrowMoveAcc, Regrouped

\* What Regrouped does with a symbol is NarrowOut.
LEMMA NarrowGroups ==
  ASSUME NEW s, NEW v, NEW t, NEW acc, NarrowMoveAcc(s, v, t, acc)
  PROVE  NarrowOut(s, t, acc)
<1>1. s.bits \in 0..7 /\ s.out \in Seq(Bytes)
  BY DEF NarrowMoveAcc, Narrow
<1>2. acc \in 0..4095
  <2>1. s.acc \in 0..4095 /\ v \in Symbols
    BY DEF NarrowMoveAcc, Narrow
  <2>3. acc = (s.acc * 2^5 + v) % 2^(5 + 8 - 1)
    BY DEF NarrowMoveAcc
  <2>4. acc = (s.acc * 32 + v) % 4096
    BY <2>3, Powers
  <2>5. PICK a \in 0..4095 : a = s.acc
    BY <2>1
  <2>6. v \in Nat
    BY <2>1 DEF Symbols
  <2>7. PICK n \in Nat : n = a * 32 + v
    BY <2>6
  <2>8. acc = n % 4096
    BY <2>4, <2>5, <2>7
  <2> QED BY <2>8, Room
<1>3. PICK bits \in Nat : bits = s.bits + 5
  BY <1>1
<1>4. t.acc = acc /\ t.bits = bits % 8 /\ t.out = s.out \o Groups(acc, bits, 8)
  BY <1>3 DEF NarrowMoveAcc, Regrouped, Groups, Part
<1>5. /\ Part(acc, 0, 8) = (acc \div 1) % 256
      /\ Part(acc, 1, 8) = (acc \div 2) % 256
      /\ Part(acc, 2, 8) = (acc \div 4) % 256
      /\ Part(acc, 3, 8) = (acc \div 8) % 256
      /\ Part(acc, 4, 8) = (acc \div 16) % 256
  BY Powers DEF Part
<1>6. /\ Part(acc, 0, 8) \in Bytes
      /\ Part(acc, 1, 8) \in Bytes
      /\ Part(acc, 2, 8) \in Bytes
      /\ Part(acc, 3, 8) \in Bytes
      /\ Part(acc, 4, 8) \in Bytes
  <2>1. \A x \in Nat : x % 256 \in Bytes
    BY DEF Bytes
  <2>2. \A d \in {1, 2, 4, 8, 16} : acc \div d \in Nat
    BY <1>2
  <2> QED BY <1>5, <2>1, <2>2
<1>7. ASSUME s.bits = 0 PROVE t.bits = 5 /\ t.out = s.out
  <2>1. bits \div 8 = 0 /\ bits % 8 = 5
    BY <1>3, <1>7
  <2>2. s.out \o Groups(acc, bits, 8) = s.out
    BY <1>1, <2>1, NoGroup
  <2> QED BY <1>4, <1>7, <2>1, <2>2
<1>8. ASSUME s.bits = 1 PROVE t.bits = 6 /\ t.out = s.out
  <2>1. bits \div 8 = 0 /\ bits % 8 = 6
    BY <1>3, <1>8
  <2>2. s.out \o Groups(acc, bits, 8) = s.out
    BY <1>1, <2>1, NoGroup
  <2> QED BY <1>4, <1>8, <2>1, <2>2
<1>9. ASSUME s.bits = 2 PROVE t.bits = 7 /\ t.out = s.out
  <2>1. bits \div 8 = 0 /\ bits % 8 = 7
    BY <1>3, <1>9
  <2>2. s.out \o Groups(acc, bits, 8) = s.out
    BY <1>1, <2>1, NoGroup
  <2> QED BY <1>4, <1>9, <2>1, <2>2
<1>10. ASSUME s.bits = 3 PROVE t.bits = 0 /\ t.out = Append(s.out, (acc \div 1) % 256)
  <2>1. bits \div 8 = 1 /\ bits % 8 = 0 /\ bits - 8 = 0
    BY <1>3, <1>10
  <2>2. s.out \o Groups(acc, bits, 8) = Append(s.out, Part(acc, 0, 8))
    BY <1>1, <1>6, <2>1, OneGroup
  <2> QED BY <1>4, <1>5, <1>10, <2>1, <2>2
<1>11. ASSUME s.bits = 4 PROVE t.bits = 1 /\ t.out = Append(s.out, (acc \div 2) % 256)
  <2>1. bits \div 8 = 1 /\ bits % 8 = 1 /\ bits - 8 = 1
    BY <1>3, <1>11
  <2>2. s.out \o Groups(acc, bits, 8) = Append(s.out, Part(acc, 1, 8))
    BY <1>1, <1>6, <2>1, OneGroup
  <2> QED BY <1>4, <1>5, <1>11, <2>1, <2>2
<1>12. ASSUME s.bits = 5 PROVE t.bits = 2 /\ t.out = Append(s.out, (acc \div 4) % 256)
  <2>1. bits \div 8 = 1 /\ bits % 8 = 2 /\ bits - 8 = 2
    BY <1>3, <1>12
  <2>2. s.out \o Groups(acc, bits, 8) = Append(s.out, Part(acc, 2, 8))
    BY <1>1, <1>6, <2>1, OneGroup
  <2> QED BY <1>4, <1>5, <1>12, <2>1, <2>2
<1>13. ASSUME s.bits = 6 PROVE t.bits = 3 /\ t.out = Append(s.out, (acc \div 8) % 256)
  <2>1. bits \div 8 = 1 /\ bits % 8 = 3 /\ bits - 8 = 3
    BY <1>3, <1>13
  <2>2. s.out \o Groups(acc, bits, 8) = Append(s.out, Part(acc, 3, 8))
    BY <1>1, <1>6, <2>1, OneGroup
  <2> QED BY <1>4, <1>5, <1>13, <2>1, <2>2
<1>14. ASSUME s.bits = 7 PROVE t.bits = 4 /\ t.out = Append(s.out, (acc \div 16) % 256)
  <2>1. bits \div 8 = 1 /\ bits % 8 = 4 /\ bits - 8 = 4
    BY <1>3, <1>14
  <2>2. s.out \o Groups(acc, bits, 8) = Append(s.out, Part(acc, 4, 8))
    BY <1>1, <1>6, <2>1, OneGroup
  <2> QED BY <1>4, <1>5, <1>14, <2>1, <2>2
<1>15. t.acc = acc
  BY <1>4
<1> QED
  BY ONLY <1>2, <1>7, <1>8, <1>9, <1>10, <1>11, <1>12, <1>13, <1>14, <1>15 DEF NarrowOut

\* The state after a byte.
WideMoveAcc(s, v, t, acc) ==
  /\ s \in Wide /\ v \in Bytes /\ t = Regrouped(s, v, 8, 5)
  /\ acc = (s.acc * 2^8 + v) % 2^(8 + 5 - 1)

\* A byte brings out one symbol or two.
WideOut(s, t, acc) ==
  /\ t.acc = acc /\ acc \in 0..4095
  /\ s.bits = 0 => t.bits = 3 /\ t.out = Append(s.out, (acc \div 8) % 32)
  /\ s.bits = 1 => t.bits = 4 /\ t.out = Append(s.out, (acc \div 16) % 32)
  /\ s.bits = 2 => t.bits = 0 /\ t.out = Append(Append(s.out, (acc \div 32) % 32), (acc \div 1) % 32)
  /\ s.bits = 3 => t.bits = 1 /\ t.out = Append(Append(s.out, (acc \div 64) % 32), (acc \div 2) % 32)
  /\ s.bits = 4 => t.bits = 2 /\ t.out = Append(Append(s.out, (acc \div 128) % 32), (acc \div 4) % 32)

\* A state is its three parts.
LEMMA WideParts ==
  ASSUME NEW s, NEW v, NEW t, NEW acc, WideMoveAcc(s, v, t, acc)
  PROVE  t = [acc |-> acc, bits |-> t.bits, out |-> t.out]
BY DEF WideMoveAcc, Regrouped

\* What Regrouped does with a byte is WideOut.
LEMMA WideGroups ==
  ASSUME NEW s, NEW v, NEW t, NEW acc, WideMoveAcc(s, v, t, acc)
  PROVE  WideOut(s, t, acc)
<1>1. s.bits \in 0..4 /\ s.out \in Seq(Symbols)
  BY DEF WideMoveAcc, Wide
<1>2. acc \in 0..4095
  <2>1. s.acc \in 0..4095 /\ v \in Bytes
    BY DEF WideMoveAcc, Wide
  <2>3. acc = (s.acc * 2^8 + v) % 2^(8 + 5 - 1)
    BY DEF WideMoveAcc
  <2>4. acc = (s.acc * 256 + v) % 4096
    BY <2>3, Powers
  <2>5. PICK a \in 0..4095 : a = s.acc
    BY <2>1
  <2>6. v \in Nat
    BY <2>1 DEF Bytes
  <2>7. PICK n \in Nat : n = a * 256 + v
    BY <2>6
  <2>8. acc = n % 4096
    BY <2>4, <2>5, <2>7
  <2> QED BY <2>8, Room
<1>3. PICK bits \in Nat : bits = s.bits + 8
  BY <1>1
<1>4. t.acc = acc /\ t.bits = bits % 5 /\ t.out = s.out \o Groups(acc, bits, 5)
  BY <1>3 DEF WideMoveAcc, Regrouped, Groups, Part
<1>5. /\ Part(acc, 0, 5) = (acc \div 1) % 32
      /\ Part(acc, 1, 5) = (acc \div 2) % 32
      /\ Part(acc, 2, 5) = (acc \div 4) % 32
      /\ Part(acc, 3, 5) = (acc \div 8) % 32
      /\ Part(acc, 4, 5) = (acc \div 16) % 32
      /\ Part(acc, 5, 5) = (acc \div 32) % 32
      /\ Part(acc, 6, 5) = (acc \div 64) % 32
      /\ Part(acc, 7, 5) = (acc \div 128) % 32
  BY Powers DEF Part
<1>6. /\ Part(acc, 0, 5) \in Symbols
      /\ Part(acc, 1, 5) \in Symbols
      /\ Part(acc, 2, 5) \in Symbols
      /\ Part(acc, 3, 5) \in Symbols
      /\ Part(acc, 4, 5) \in Symbols
      /\ Part(acc, 5, 5) \in Symbols
      /\ Part(acc, 6, 5) \in Symbols
      /\ Part(acc, 7, 5) \in Symbols
  <2>1. \A x \in Nat : x % 32 \in Symbols
    BY DEF Symbols
  <2>2. \A d \in {1, 2, 4, 8, 16, 32, 64, 128} : acc \div d \in Nat
    BY <1>2
  <2> QED BY <1>5, <2>1, <2>2
<1>7. ASSUME s.bits = 0 PROVE t.bits = 3 /\ t.out = Append(s.out, (acc \div 8) % 32)
  <2>1. bits \div 5 = 1 /\ bits % 5 = 3 /\ bits - 5 = 3
    BY <1>3, <1>7
  <2>2. s.out \o Groups(acc, bits, 5) = Append(s.out, Part(acc, 3, 5))
    BY <1>1, <1>6, <2>1, OneGroup
  <2> QED BY <1>4, <1>5, <1>7, <2>1, <2>2
<1>8. ASSUME s.bits = 1 PROVE t.bits = 4 /\ t.out = Append(s.out, (acc \div 16) % 32)
  <2>1. bits \div 5 = 1 /\ bits % 5 = 4 /\ bits - 5 = 4
    BY <1>3, <1>8
  <2>2. s.out \o Groups(acc, bits, 5) = Append(s.out, Part(acc, 4, 5))
    BY <1>1, <1>6, <2>1, OneGroup
  <2> QED BY <1>4, <1>5, <1>8, <2>1, <2>2
<1>9. ASSUME s.bits = 2 PROVE t.bits = 0 /\ t.out = Append(Append(s.out, (acc \div 32) % 32), (acc \div 1) % 32)
  <2>1. bits \div 5 = 2 /\ bits % 5 = 0 /\ bits - 5 = 5 /\ 5 - 5 = 0
    BY <1>3, <1>9
  <2>2. s.out \o Groups(acc, bits, 5) = Append(Append(s.out, Part(acc, 5, 5)), Part(acc, 0, 5))
    <3>1. PICK out \in Seq(Symbols), high \in Nat, low \in Nat : out = s.out /\ high = 5 /\ low = 0
      BY <1>1
    <3>2. bits \div 5 = 2 /\ bits - 5 = high /\ high - 5 = low
      BY <2>1, <3>1
    <3>3. Part(acc, high, 5) \in Symbols /\ Part(acc, low, 5) \in Symbols
      BY <1>6, <3>1
    <3>4. out \o Groups(acc, bits, 5) = Append(Append(out, Part(acc, high, 5)), Part(acc, low, 5))
      BY ONLY <3>2, <3>3, TwoGroups
    <3> QED BY <3>1, <3>4
  <2> QED BY <1>4, <1>5, <1>9, <2>1, <2>2
<1>10. ASSUME s.bits = 3 PROVE t.bits = 1 /\ t.out = Append(Append(s.out, (acc \div 64) % 32), (acc \div 2) % 32)
  <2>1. bits \div 5 = 2 /\ bits % 5 = 1 /\ bits - 5 = 6 /\ 6 - 5 = 1
    BY <1>3, <1>10
  <2>2. s.out \o Groups(acc, bits, 5) = Append(Append(s.out, Part(acc, 6, 5)), Part(acc, 1, 5))
    <3>1. PICK out \in Seq(Symbols), high \in Nat, low \in Nat : out = s.out /\ high = 6 /\ low = 1
      BY <1>1
    <3>2. bits \div 5 = 2 /\ bits - 5 = high /\ high - 5 = low
      BY <2>1, <3>1
    <3>3. Part(acc, high, 5) \in Symbols /\ Part(acc, low, 5) \in Symbols
      BY <1>6, <3>1
    <3>4. out \o Groups(acc, bits, 5) = Append(Append(out, Part(acc, high, 5)), Part(acc, low, 5))
      BY ONLY <3>2, <3>3, TwoGroups
    <3> QED BY <3>1, <3>4
  <2> QED BY <1>4, <1>5, <1>10, <2>1, <2>2
<1>11. ASSUME s.bits = 4 PROVE t.bits = 2 /\ t.out = Append(Append(s.out, (acc \div 128) % 32), (acc \div 4) % 32)
  <2>1. bits \div 5 = 2 /\ bits % 5 = 2 /\ bits - 5 = 7 /\ 7 - 5 = 2
    BY <1>3, <1>11
  <2>2. s.out \o Groups(acc, bits, 5) = Append(Append(s.out, Part(acc, 7, 5)), Part(acc, 2, 5))
    <3>1. PICK out \in Seq(Symbols), high \in Nat, low \in Nat : out = s.out /\ high = 7 /\ low = 2
      BY <1>1
    <3>2. bits \div 5 = 2 /\ bits - 5 = high /\ high - 5 = low
      BY <2>1, <3>1
    <3>3. Part(acc, high, 5) \in Symbols /\ Part(acc, low, 5) \in Symbols
      BY <1>6, <3>1
    <3>4. out \o Groups(acc, bits, 5) = Append(Append(out, Part(acc, high, 5)), Part(acc, low, 5))
      BY ONLY <3>2, <3>3, TwoGroups
    <3> QED BY <3>1, <3>4
  <2> QED BY <1>4, <1>5, <1>11, <2>1, <2>2
<1>12. t.acc = acc
  BY <1>4
<1> QED
  BY ONLY <1>2, <1>7, <1>8, <1>9, <1>10, <1>11, <1>12 DEF WideOut

\* A symbol goes into the accumulator behind what is left over.
NarrowAcc(a, v, acc) == a \in 0..4095 /\ v \in 0..31 /\ acc = (a * 32 + v) % 4096
\* A step of a change from symbols to bytes.
NarrowMove(s, v, t) == s \in Narrow /\ v \in Symbols /\ t = Regrouped(s, v, 5, 8)

\* What comes out after a symbol, and what is left over, from what was left over.
LEMMA NarrowStep ==
  ASSUME NEW s, NEW v, NEW t, NarrowMove(s, v, t)
  PROVE  /\ s.bits = 0 => t.bits = 5 /\ t.out = s.out /\ Pending(t) = v
         /\ s.bits = 1 => t.bits = 6 /\ t.out = s.out /\ Pending(t) = Pending(s) * 32 + v
         /\ s.bits = 2 => t.bits = 7 /\ t.out = s.out /\ Pending(t) = Pending(s) * 32 + v
         /\ s.bits = 3 => t.bits = 0 /\ t.out = Append(s.out, Pending(s) * 32 + v)
         /\ s.bits = 4 => t.bits = 1 /\ t.out = Append(s.out, Pending(s) * 16 + v \div 2) /\ Pending(t) = v % 2
         /\ s.bits = 5 => t.bits = 2 /\ t.out = Append(s.out, Pending(s) * 8 + v \div 4) /\ Pending(t) = v % 4
         /\ s.bits = 6 => t.bits = 3 /\ t.out = Append(s.out, Pending(s) * 4 + v \div 8) /\ Pending(t) = v % 8
         /\ s.bits = 7 => t.bits = 4 /\ t.out = Append(s.out, Pending(s) * 2 + v \div 16) /\ Pending(t) = v % 16
<1>1. PICK acc : acc = (s.acc * 2^5 + v) % 2^(5 + 8 - 1)
  OBVIOUS
<1>2. NarrowOut(s, t, acc)
  <2>1. NarrowMoveAcc(s, v, t, acc)
    BY <1>1 DEF NarrowMoveAcc, NarrowMove
  <2> QED BY <2>1, NarrowGroups
<1>3. PICK a \in 0..4095 : a = s.acc
  <2>1. s.acc \in 0..4095
    BY DEF Narrow, NarrowMove
  <2> QED BY <2>1
<1>4. NarrowAcc(a, v, acc)
  BY <1>1, <1>3, Powers DEF NarrowAcc, NarrowMove, Symbols
<1>5. t.acc = acc /\ acc \in 0..4095
  BY <1>2 DEF NarrowOut
<1>6. ASSUME s.bits = 0 PROVE t.bits = 5 /\ t.out = s.out /\ Pending(t) = v
  <2>1. Pending(s) = a % 1
    BY <1>3, <1>6, Powers DEF Pending
  <2>2. t.bits = 5 /\ t.out = s.out
    BY <1>2, <1>6 DEF NarrowOut
  <2>3. Pending(t) = acc % 32
    BY <1>5, <2>2, Powers DEF Pending
  <2>4. acc % 32 = v
    BY <1>4 DEF NarrowAcc
  <2> QED BY <2>1, <2>2, <2>3, <2>4
<1>7. ASSUME s.bits = 1 PROVE t.bits = 6 /\ t.out = s.out /\ Pending(t) = Pending(s) * 32 + v
  <2>1. Pending(s) = a % 2
    BY <1>3, <1>7, Powers DEF Pending
  <2>2. t.bits = 6 /\ t.out = s.out
    BY <1>2, <1>7 DEF NarrowOut
  <2>3. Pending(t) = acc % 64
    BY <1>5, <2>2, Powers DEF Pending
  <2>4. acc % 64 = (a % 2) * 32 + v
    BY <1>4 DEF NarrowAcc
  <2> QED BY <2>1, <2>2, <2>3, <2>4
<1>8. ASSUME s.bits = 2 PROVE t.bits = 7 /\ t.out = s.out /\ Pending(t) = Pending(s) * 32 + v
  <2>1. Pending(s) = a % 4
    BY <1>3, <1>8, Powers DEF Pending
  <2>2. t.bits = 7 /\ t.out = s.out
    BY <1>2, <1>8 DEF NarrowOut
  <2>3. Pending(t) = acc % 128
    BY <1>5, <2>2, Powers DEF Pending
  <2>4. acc % 128 = (a % 4) * 32 + v
    BY <1>4 DEF NarrowAcc
  <2> QED BY <2>1, <2>2, <2>3, <2>4
<1>9. ASSUME s.bits = 3 PROVE t.bits = 0 /\ t.out = Append(s.out, Pending(s) * 32 + v)
  <2>1. Pending(s) = a % 8
    BY <1>3, <1>9, Powers DEF Pending
  <2>2. t.bits = 0 /\ t.out = Append(s.out, (acc \div 1) % 256)
    BY <1>2, <1>9 DEF NarrowOut
  <2>3. Pending(t) = acc % 1
    BY <1>5, <2>2, Powers DEF Pending
  <2>4. (acc \div 1) % 256 = (a % 8) * 32 + v
    BY <1>4 DEF NarrowAcc
  <2> QED BY <2>1, <2>2, <2>3, <2>4
<1>10. ASSUME s.bits = 4 PROVE t.bits = 1 /\ t.out = Append(s.out, Pending(s) * 16 + v \div 2) /\ Pending(t) = v % 2
  <2>1. Pending(s) = a % 16
    BY <1>3, <1>10, Powers DEF Pending
  <2>2. t.bits = 1 /\ t.out = Append(s.out, (acc \div 2) % 256)
    BY <1>2, <1>10 DEF NarrowOut
  <2>3. Pending(t) = acc % 2
    BY <1>5, <2>2, Powers DEF Pending
  <2>4. acc % 2 = v % 2 /\ (acc \div 2) % 256 = (a % 16) * 16 + v \div 2
    BY <1>4 DEF NarrowAcc
  <2> QED BY <2>1, <2>2, <2>3, <2>4
<1>11. ASSUME s.bits = 5 PROVE t.bits = 2 /\ t.out = Append(s.out, Pending(s) * 8 + v \div 4) /\ Pending(t) = v % 4
  <2>1. Pending(s) = a % 32
    BY <1>3, <1>11, Powers DEF Pending
  <2>2. t.bits = 2 /\ t.out = Append(s.out, (acc \div 4) % 256)
    BY <1>2, <1>11 DEF NarrowOut
  <2>3. Pending(t) = acc % 4
    BY <1>5, <2>2, Powers DEF Pending
  <2>4. acc % 4 = v % 4 /\ (acc \div 4) % 256 = (a % 32) * 8 + v \div 4
    BY <1>4 DEF NarrowAcc
  <2> QED BY <2>1, <2>2, <2>3, <2>4
<1>12. ASSUME s.bits = 6 PROVE t.bits = 3 /\ t.out = Append(s.out, Pending(s) * 4 + v \div 8) /\ Pending(t) = v % 8
  <2>1. Pending(s) = a % 64
    BY <1>3, <1>12, Powers DEF Pending
  <2>2. t.bits = 3 /\ t.out = Append(s.out, (acc \div 8) % 256)
    BY <1>2, <1>12 DEF NarrowOut
  <2>3. Pending(t) = acc % 8
    BY <1>5, <2>2, Powers DEF Pending
  <2>4. acc % 8 = v % 8 /\ (acc \div 8) % 256 = (a % 64) * 4 + v \div 8
    BY <1>4 DEF NarrowAcc
  <2> QED BY <2>1, <2>2, <2>3, <2>4
<1>13. ASSUME s.bits = 7 PROVE t.bits = 4 /\ t.out = Append(s.out, Pending(s) * 2 + v \div 16) /\ Pending(t) = v % 16
  <2>1. Pending(s) = a % 128
    BY <1>3, <1>13, Powers DEF Pending
  <2>2. t.bits = 4 /\ t.out = Append(s.out, (acc \div 16) % 256)
    BY <1>2, <1>13 DEF NarrowOut
  <2>3. Pending(t) = acc % 16
    BY <1>5, <2>2, Powers DEF Pending
  <2>4. acc % 16 = v % 16 /\ (acc \div 16) % 256 = (a % 128) * 2 + v \div 16
    BY <1>4 DEF NarrowAcc
  <2> QED BY <2>1, <2>2, <2>3, <2>4
<1> QED
  BY <1>6, <1>7, <1>8, <1>9, <1>10, <1>11, <1>12, <1>13

\* A byte goes into the accumulator behind what is left over.
WideAcc(a, v, acc) == a \in 0..4095 /\ v \in 0..255 /\ acc = (a * 256 + v) % 4096
\* A step of a change from bytes to symbols.
WideMove(s, v, t) == s \in Wide /\ v \in Bytes /\ t = Regrouped(s, v, 8, 5)

\* What comes out after a byte, and what is left over, from what was left over.
LEMMA WideStep ==
  ASSUME NEW s, NEW v, NEW t, WideMove(s, v, t)
  PROVE  /\ s.bits = 0 => t.bits = 3 /\ t.out = Append(s.out, v \div 8) /\ Pending(t) = v % 8
         /\ s.bits = 1 => t.bits = 4 /\ t.out = Append(s.out, Pending(s) * 16 + v \div 16) /\ Pending(t) = v % 16
         /\ s.bits = 2 => t.bits = 0 /\ t.out = Append(Append(s.out, Pending(s) * 8 + v \div 32), v % 32)
         /\ s.bits = 3 => t.bits = 1 /\ t.out = Append(Append(s.out, Pending(s) * 4 + v \div 64), (v \div 2) % 32) /\ Pending(t) = v % 2
         /\ s.bits = 4 => t.bits = 2 /\ t.out = Append(Append(s.out, Pending(s) * 2 + v \div 128), (v \div 4) % 32) /\ Pending(t) = v % 4
<1>1. PICK acc : acc = (s.acc * 2^8 + v) % 2^(8 + 5 - 1)
  OBVIOUS
<1>2. WideOut(s, t, acc)
  <2>1. WideMoveAcc(s, v, t, acc)
    BY <1>1 DEF WideMoveAcc, WideMove
  <2> QED BY <2>1, WideGroups
<1>3. PICK a \in 0..4095 : a = s.acc
  <2>1. s.acc \in 0..4095
    BY DEF Wide, WideMove
  <2> QED BY <2>1
<1>4. WideAcc(a, v, acc)
  BY <1>1, <1>3, Powers DEF WideAcc, WideMove, Bytes
<1>5. t.acc = acc /\ acc \in 0..4095
  BY ONLY <1>2 DEF WideOut
<1>6. ASSUME s.bits = 0 PROVE t.bits = 3 /\ t.out = Append(s.out, v \div 8) /\ Pending(t) = v % 8
  <2>1. Pending(s) = a % 1
    BY <1>3, <1>6, Powers DEF Pending
  <2>2. t.bits = 3 /\ t.out = Append(s.out, (acc \div 8) % 32)
    BY <1>2, <1>6 DEF WideOut
  <2>3. Pending(t) = acc % 8
    BY <1>5, <2>2, Powers DEF Pending
  <2>4. acc % 8 = v % 8 /\ (acc \div 8) % 32 = v \div 8
    BY <1>4 DEF WideAcc
  <2> QED BY <2>1, <2>2, <2>3, <2>4
<1>7. ASSUME s.bits = 1 PROVE t.bits = 4 /\ t.out = Append(s.out, Pending(s) * 16 + v \div 16) /\ Pending(t) = v % 16
  <2>1. Pending(s) = a % 2
    BY <1>3, <1>7, Powers DEF Pending
  <2>2. t.bits = 4 /\ t.out = Append(s.out, (acc \div 16) % 32)
    BY <1>2, <1>7 DEF WideOut
  <2>3. Pending(t) = acc % 16
    BY <1>5, <2>2, Powers DEF Pending
  <2>4. acc % 16 = v % 16 /\ (acc \div 16) % 32 = (a % 2) * 16 + v \div 16
    BY <1>4 DEF WideAcc
  <2> QED BY <2>1, <2>2, <2>3, <2>4
<1>8. ASSUME s.bits = 2 PROVE t.bits = 0 /\ t.out = Append(Append(s.out, Pending(s) * 8 + v \div 32), v % 32)
  <2>1. Pending(s) = a % 4
    BY <1>3, <1>8, Powers DEF Pending
  <2>2. t.bits = 0 /\ t.out = Append(Append(s.out, (acc \div 32) % 32), (acc \div 1) % 32)
    BY <1>2, <1>8 DEF WideOut
  <2>3. Pending(t) = acc % 1
    BY <1>5, <2>2, Powers DEF Pending
  <2>4. (acc \div 32) % 32 = (a % 4) * 8 + v \div 32 /\ (acc \div 1) % 32 = v % 32
    BY <1>4 DEF WideAcc
  <2> QED BY <2>1, <2>2, <2>3, <2>4
<1>9. ASSUME s.bits = 3 PROVE t.bits = 1 /\ t.out = Append(Append(s.out, Pending(s) * 4 + v \div 64), (v \div 2) % 32) /\ Pending(t) = v % 2
  <2>1. Pending(s) = a % 8
    BY <1>3, <1>9, Powers DEF Pending
  <2>2. t.bits = 1 /\ t.out = Append(Append(s.out, (acc \div 64) % 32), (acc \div 2) % 32)
    BY <1>2, <1>9 DEF WideOut
  <2>3. Pending(t) = acc % 2
    BY <1>5, <2>2, Powers DEF Pending
  <2>4. acc % 2 = v % 2 /\ (acc \div 64) % 32 = (a % 8) * 4 + v \div 64 /\ (acc \div 2) % 32 = (v \div 2) % 32
    BY <1>4 DEF WideAcc
  <2> QED BY <2>1, <2>2, <2>3, <2>4
<1>10. ASSUME s.bits = 4 PROVE t.bits = 2 /\ t.out = Append(Append(s.out, Pending(s) * 2 + v \div 128), (v \div 4) % 32) /\ Pending(t) = v % 4
  <2>1. Pending(s) = a % 16
    BY <1>3, <1>10, Powers DEF Pending
  <2>2. t.bits = 2 /\ t.out = Append(Append(s.out, (acc \div 128) % 32), (acc \div 4) % 32)
    BY <1>2, <1>10 DEF WideOut
  <2>3. Pending(t) = acc % 4
    BY <1>5, <2>2, Powers DEF Pending
  <2>4. acc % 4 = v % 4 /\ (acc \div 128) % 32 = (a % 16) * 2 + v \div 128 /\ (acc \div 4) % 32 = (v \div 4) % 32
    BY <1>4 DEF WideAcc
  <2> QED BY <2>1, <2>2, <2>3, <2>4
<1> QED
  BY <1>6, <1>7, <1>8, <1>9, <1>10

\* The state before the first value.
Start == [acc |-> 0, bits |-> 0, out |-> << >>]

\* Nothing is left over at the start.
LEMMA StartStates == Start \in Narrow /\ Start \in Wide /\ Pending(Start) = 0
<1>1. Start.acc = 0 /\ Start.bits = 0 /\ Start.out = << >>
  BY DEF Start
<1>2. << >> \in Seq(Bytes) /\ << >> \in Seq(Symbols)
  OBVIOUS
<1>3. 0 % 2^0 = 0
  BY Powers
<1> QED
  BY <1>1, <1>2, <1>3 DEF Start, Narrow, Wide, Pending

\* The states of a change from symbols to bytes are not left.
LEMMA NarrowTyped ==
  ASSUME NEW s, NEW v, NEW t, NarrowMove(s, v, t)
  PROVE  t \in Narrow
<1>1. PICK acc : acc = (s.acc * 2^5 + v) % 2^(5 + 8 - 1)
  OBVIOUS
<1>2. NarrowMoveAcc(s, v, t, acc)
  BY <1>1 DEF NarrowMoveAcc, NarrowMove
<1>9. NarrowOut(s, t, acc)
  BY <1>2, NarrowGroups
<1>3. t = [acc |-> acc, bits |-> t.bits, out |-> t.out] /\ acc \in 0..4095
  BY <1>2, <1>9, NarrowParts DEF NarrowOut
<1>4. s.bits \in 0..7 /\ s.out \in Seq(Bytes)
  BY DEF NarrowMove, Narrow
<1>5. \A x \in Nat : x % 256 \in Bytes
  BY DEF Bytes
<1>6. \A d \in {1, 2, 4, 8, 16} : acc \div d \in Nat
  <2>1. acc \in 0..4095
    BY <1>3
  <2> QED BY <2>1
<1>7. t.bits \in 0..7 /\ (t.out = s.out \/ \E d \in {1, 2, 4, 8, 16} : t.out = Append(s.out, (acc \div d) % 256))
  <2>1. s.bits \in {0, 1, 2, 3, 4, 5, 6, 7}
    BY <1>4
  <2> QED BY <1>9, <2>1 DEF NarrowOut
<1>8. t.out \in Seq(Bytes)
  <2>1. CASE t.out = s.out
    BY <1>4, <2>1
  <2>2. CASE t.out # s.out
    <3>1. PICK d \in {1, 2, 4, 8, 16} : t.out = Append(s.out, (acc \div d) % 256)
      BY <1>7, <2>2
    <3>2. PICK x : x = (acc \div d) % 256
      OBVIOUS
    <3>3. x \in Bytes
      BY <1>5, <1>6, <3>2
    <3>4. t.out = Append(s.out, x)
      BY <3>1, <3>2
    <3> QED BY <1>4, <3>3, <3>4
  <2> QED BY <2>1, <2>2
<1> QED
  BY <1>3, <1>7, <1>8 DEF Narrow

\* The states of a change from bytes to symbols are not left.
LEMMA WideTyped ==
  ASSUME NEW s, NEW v, NEW t, WideMove(s, v, t)
  PROVE  t \in Wide
<1>1. PICK acc : acc = (s.acc * 2^8 + v) % 2^(8 + 5 - 1)
  OBVIOUS
<1>2. WideMoveAcc(s, v, t, acc)
  BY <1>1 DEF WideMoveAcc, WideMove
<1>9. WideOut(s, t, acc)
  BY <1>2, WideGroups
<1>3. t = [acc |-> acc, bits |-> t.bits, out |-> t.out] /\ acc \in 0..4095
  BY <1>2, <1>9, WideParts DEF WideOut
<1>4. s.bits \in 0..4 /\ s.out \in Seq(Symbols)
  BY DEF WideMove, Wide
<1>5. \A x \in Nat : x % 32 \in Symbols
  BY DEF Symbols
<1>6. \A d \in {1, 2, 4, 8, 16, 32, 64, 128} : acc \div d \in Nat
  <2>1. acc \in 0..4095
    BY <1>3
  <2> QED BY <2>1
<1> DEFINE Group(d) == (acc \div d) % 32
<1>7. \A d \in {1, 2, 4, 8, 16, 32, 64, 128} : Group(d) \in Symbols
  BY <1>5, <1>6
<1> HIDE DEF Group
<1>8. t.bits \in 0..4 /\ t.out \in Seq(Symbols)
  <2>1. \A out \in Seq(Symbols) : \A d \in {1, 2, 4, 8, 16, 32, 64, 128} : Append(out, Group(d)) \in Seq(Symbols)
    BY <1>7
  <2>2. CASE s.bits = 0
    <3>1. t.bits = 3 /\ t.out = Append(s.out, Group(8))
      BY <1>9, <2>2 DEF WideOut, Group
    <3> QED BY <1>4, <2>1, <3>1
  <2>3. CASE s.bits = 1
    <3>1. t.bits = 4 /\ t.out = Append(s.out, Group(16))
      BY <1>9, <2>3 DEF WideOut, Group
    <3> QED BY <1>4, <2>1, <3>1
  <2>4. CASE s.bits = 2
    <3>1. t.bits = 0 /\ t.out = Append(Append(s.out, Group(32)), Group(1))
      BY <1>9, <2>4 DEF WideOut, Group
    <3> QED BY <1>4, <2>1, <3>1
  <2>5. CASE s.bits = 3
    <3>1. t.bits = 1 /\ t.out = Append(Append(s.out, Group(64)), Group(2))
      BY <1>9, <2>5 DEF WideOut, Group
    <3> QED BY <1>4, <2>1, <3>1
  <2>6. CASE s.bits = 4
    <3>1. t.bits = 2 /\ t.out = Append(Append(s.out, Group(128)), Group(4))
      BY <1>9, <2>6 DEF WideOut, Group
    <3> QED BY <1>4, <2>1, <3>1
  <2> QED BY <1>4, <2>2, <2>3, <2>4, <2>5, <2>6
<1> QED
  BY <1>3, <1>8 DEF Wide

-----------------------------------------------------------------------------
(* ConvertBits: the states one after the other.                            *)

\* One sequence is the beginning of another.
Begins(out, in) == Len(out) <= Len(in) /\ \A i \in 1..Len(out) : out[i] = in[i]

\* A sequence with one more value begins another one, if the value is the next.
LEMMA AppendBegins ==
  ASSUME NEW S, NEW out \in Seq(S), NEW x \in S, NEW in \in Seq(S)
  PROVE  /\ Len(Append(out, x)) = Len(out) + 1
         /\ Begins(Append(out, x), in) <=> Begins(out, in) /\ Len(out) < Len(in) /\ in[Len(out) + 1] = x
<1> DEFINE more == Append(out, x)
<1>1. Len(more) = Len(out) + 1 /\ more[Len(out) + 1] = x /\ \A i \in 1..Len(out) : more[i] = out[i]
  OBVIOUS
<1>2. Len(out) \in Nat /\ Len(in) \in Nat
  OBVIOUS
<1> HIDE DEF more
<1>3. ASSUME Begins(more, in) PROVE Begins(out, in) /\ Len(out) < Len(in) /\ in[Len(out) + 1] = x
  BY <1>1, <1>2, <1>3 DEF Begins
<1>4. ASSUME Begins(out, in), Len(out) < Len(in), in[Len(out) + 1] = x PROVE Begins(more, in)
  <2>1. ASSUME NEW i \in 1..Len(more) PROVE more[i] = in[i]
    <3>1. i \in 1..Len(out) \/ i = Len(out) + 1
      BY <1>1, <1>2
    <3> QED BY <1>1, <1>4, <3>1 DEF Begins
  <2> QED BY <1>1, <1>2, <1>4, <2>1 DEF Begins
<1> QED
  BY <1>1, <1>3, <1>4 DEF more

\* The states of a change of groups, one after each value.
Stages(in, from, to) ==
  LET upTo[n \in 0..Len(in)] == IF n = 0 THEN [acc |-> 0, bits |-> 0, out |-> << >>]
                                ELSE Regrouped(upTo[n - 1], in[n], from, to)
  IN upTo

\* The states of a change, one after each value.
AreStages(f, in, from, to) ==
  f = [n \in 0..Len(in) |-> IF n = 0 THEN [acc |-> 0, bits |-> 0, out |-> << >>]
                            ELSE Regrouped(f[n - 1], in[n], from, to)]

\* States that are not left.
AreStates(V, S, in, from, to) ==
  in \in Seq(S) /\ Start \in V /\ \A s \in V : \A v \in S : Regrouped(s, v, from, to) \in V

\* The stages exist, start with nothing, and follow one another by Regrouped.
LEMMA StagesAre ==
  ASSUME NEW S, NEW V, NEW in, NEW from, NEW to, AreStates(V, S, in, from, to)
  PROVE  /\ Stages(in, from, to) \in [0..Len(in) -> V]
         /\ Stages(in, from, to)[0] = Start
         /\ \A n \in 1..Len(in) : Stages(in, from, to)[n] = Regrouped(Stages(in, from, to)[n - 1], in[n], from, to)
<1> DEFINE N    == Len(in)
           step == [n \in 1..N |-> [s \in V |-> Regrouped(s, in[n], from, to)]]
<1>1. N \in Nat /\ \A n \in 1..N : in[n] \in S
  BY DEF AreStates
<1>2. Start \in V /\ step \in [1..N -> [V -> V]]
  BY <1>1 DEF AreStates
<1>3. PICK f \in [0..N -> V] : f[0] = Start /\ \A n \in 1..N : f[n] = step[n][f[n - 1]]
  <2> DEFINE base == Start
  <2>1. N \in Nat /\ base \in V /\ step \in [1..N -> [V -> V]]
    BY <1>1, <1>2
  <2> HIDE DEF step, N, base
  <2>2. \E f \in [0..N -> V] : f[0] = base /\ \A n \in 1..N : f[n] = step[n][f[n - 1]]
    BY <2>1, RecursionUpTo
  <2> QED BY <2>2 DEF base
<1>4. AreStages(f, in, from, to)
  <2>1. \A n \in 1..N : f[n - 1] \in V
    BY <1>1
  <2>2. \A n \in 1..N : f[n] = Regrouped(f[n - 1], in[n], from, to)
    BY <1>3, <2>1
  <2> DEFINE h == [n \in 0..N |-> IF n = 0 THEN Start ELSE Regrouped(f[n - 1], in[n], from, to)]
  <2>3. \A n \in 0..N : h[n] = f[n]
    BY <1>1, <1>3, <2>2
  <2>4. f = [n \in 0..N |-> f[n]] /\ h = [n \in 0..N |-> h[n]]
    OBVIOUS
  <2>5. f = h
    <3> HIDE DEF h, N
    <3> QED BY <2>3, <2>4
  <2> QED BY <2>5 DEF AreStages, Start
<1> DEFINE g == Stages(in, from, to)
<1>5. g = CHOOSE h : AreStages(h, in, from, to)
  BY DEF Stages, AreStages
<1>6. AreStages(g, in, from, to)
  <2> HIDE DEF g
  <2> QED BY <1>4, <1>5
<1> HIDE DEF g, N
<1>7. g = [n \in 0..N |-> IF n = 0 THEN Start ELSE Regrouped(g[n - 1], in[n], from, to)]
  BY <1>6 DEF AreStages, Start, N
<1>8. g[0] = Start /\ \A n \in 1..N : g[n] = Regrouped(g[n - 1], in[n], from, to)
  BY <1>1, <1>7
<1>9. \A n \in 0..N : g[n] \in V
  <2> DEFINE Typed == {n \in 0..N : g[n] \in V}
  <2>0. N \in Nat /\ \A n \in 1..N : in[n] \in S
    BY <1>1 DEF N
  <2>1. 0 \in Typed
    BY <2>0, <1>8 DEF AreStates
  <2>2. \A n \in 1..N : n - 1 \in Typed => n \in Typed
    BY <1>1, <1>8 DEF AreStates
  <2> HIDE DEF Typed
  <2>3. \A n \in 0..N : n \in Typed
    BY <1>1, <2>1, <2>2, InductionUpTo
  <2> QED BY <2>3 DEF Typed
<1> QED
  BY <1>7, <1>8, <1>9 DEF g, N

\* The bits left over, with zeros behind them.
Rest(s, to) == (s.acc * 2^(to - s.bits)) % 2^to

\* Regroup returns what the last stage holds.
LEMMA RegroupIs ==
  ASSUME NEW in, NEW from, NEW to, NEW end, end = Stages(in, from, to)[Len(in)]
  PROVE  Regroup(in, from, to) = [out |-> end.out, bits |-> end.bits, rest |-> Rest(end, to)]
BY DEF Regroup, Stages, Rest

\* The stages of bytes that become symbols.
LEMMA WideStages ==
  ASSUME NEW bytes \in Seq(Bytes), NEW f, f = Stages(bytes, 8, 5)
  PROVE  /\ f[0] = Start /\ \A n \in 0..Len(bytes) : f[n] \in Wide
         /\ \A n \in 1..Len(bytes) : WideMove(f[n - 1], bytes[n], f[n])
<1>1. ASSUME NEW s \in Wide, NEW v \in Bytes PROVE Regrouped(s, v, 8, 5) \in Wide
  <2> DEFINE t == Regrouped(s, v, 8, 5)
  <2>1. WideMove(s, v, t)
    BY DEF WideMove
  <2> HIDE DEF t
  <2>2. t \in Wide
    BY <2>1, WideTyped
  <2> QED BY <2>2 DEF t
<1>0. AreStates(Wide, Bytes, bytes, 8, 5)
  BY <1>1, StartStates DEF AreStates
<1>4. /\ Stages(bytes, 8, 5) \in [0..Len(bytes) -> Wide] /\ Stages(bytes, 8, 5)[0] = Start
      /\ \A n \in 1..Len(bytes) : Stages(bytes, 8, 5)[n] = Regrouped(Stages(bytes, 8, 5)[n - 1], bytes[n], 8, 5)
  BY <1>0, StagesAre
<1>2. /\ f \in [0..Len(bytes) -> Wide] /\ f[0] = Start
      /\ \A n \in 1..Len(bytes) : f[n] = Regrouped(f[n - 1], bytes[n], 8, 5)
  BY <1>4
<1>3. \A n \in 1..Len(bytes) : n - 1 \in 0..Len(bytes) /\ bytes[n] \in Bytes
  OBVIOUS
<1> QED
  BY <1>2, <1>3 DEF WideMove

\* The stages of symbols that become bytes.
LEMMA NarrowStages ==
  ASSUME NEW data \in Seq(Symbols), NEW g, g = Stages(data, 5, 8)
  PROVE  /\ g[0] = Start /\ \A n \in 0..Len(data) : g[n] \in Narrow
         /\ \A n \in 1..Len(data) : NarrowMove(g[n - 1], data[n], g[n])
<1>1. ASSUME NEW s \in Narrow, NEW v \in Symbols PROVE Regrouped(s, v, 5, 8) \in Narrow
  <2> DEFINE t == Regrouped(s, v, 5, 8)
  <2>1. NarrowMove(s, v, t)
    BY DEF NarrowMove
  <2> HIDE DEF t
  <2>2. t \in Narrow
    BY <2>1, NarrowTyped
  <2> QED BY <2>2 DEF t
<1>0. AreStates(Narrow, Symbols, data, 5, 8)
  BY <1>1, StartStates DEF AreStates
<1>4. /\ Stages(data, 5, 8) \in [0..Len(data) -> Narrow] /\ Stages(data, 5, 8)[0] = Start
      /\ \A n \in 1..Len(data) : Stages(data, 5, 8)[n] = Regrouped(Stages(data, 5, 8)[n - 1], data[n], 5, 8)
  BY <1>0, StagesAre
<1>2. /\ g \in [0..Len(data) -> Narrow] /\ g[0] = Start
      /\ \A n \in 1..Len(data) : g[n] = Regrouped(g[n - 1], data[n], 5, 8)
  BY <1>4
<1>3. \A n \in 1..Len(data) : n - 1 \in 0..Len(data) /\ data[n] \in Symbols
  OBVIOUS
<1> QED
  BY <1>2, <1>3 DEF NarrowMove

\* The range of what is pending.
LEMMA PendingRange ==
  ASSUME NEW s, s \in Wide \cup Narrow
  PROVE  /\ Pending(s) \in Nat
         /\ s.bits = 0 => Pending(s) = 0
         /\ s.bits = 1 => Pending(s) \in 0..1
         /\ s.bits = 2 => Pending(s) \in 0..3
         /\ s.bits = 3 => Pending(s) \in 0..7
         /\ s.bits = 4 => Pending(s) \in 0..15
         /\ s.bits = 5 => Pending(s) \in 0..31
         /\ s.bits = 6 => Pending(s) \in 0..63
         /\ s.bits = 7 => Pending(s) \in 0..127
<1>1. s.acc \in 0..4095 /\ s.bits \in 0..7
  <2>1. CASE s \in Wide
    BY <2>1, WideTypes
  <2>2. CASE s \in Narrow
    BY <2>2, NarrowTypes
  <2> QED BY <2>1, <2>2
<1>2. PICK a \in 0..4095 : a = s.acc
  BY <1>1
<1>3. s.bits = 0 => Pending(s) = a % 1
  BY <1>2, Powers DEF Pending
<1>4. s.bits = 1 => Pending(s) = a % 2
  BY <1>2, Powers DEF Pending
<1>5. s.bits = 2 => Pending(s) = a % 4
  BY <1>2, Powers DEF Pending
<1>6. s.bits = 3 => Pending(s) = a % 8
  BY <1>2, Powers DEF Pending
<1>7. s.bits = 4 => Pending(s) = a % 16
  BY <1>2, Powers DEF Pending
<1>8. s.bits = 5 => Pending(s) = a % 32
  BY <1>2, Powers DEF Pending
<1>9. s.bits = 6 => Pending(s) = a % 64
  BY <1>2, Powers DEF Pending
<1>10. s.bits = 7 => Pending(s) = a % 128
  BY <1>2, Powers DEF Pending
<1>11. /\ a % 1 = 0 /\ a % 2 \in 0..1 /\ a % 4 \in 0..3 /\ a % 8 \in 0..7 /\ a % 16 \in 0..15
      /\ a % 32 \in 0..31 /\ a % 64 \in 0..63 /\ a % 128 \in 0..127
  OBVIOUS
<1> QED
  BY <1>1, <1>3, <1>4, <1>5, <1>6, <1>7, <1>8, <1>9, <1>10, <1>11

-----------------------------------------------------------------------------
(* ConvertBits: symbols that were bytes become these bytes again.          *)

\* The two parts of a byte.
Halves(v, h, r, m) == v \in 0..255 /\ h = v \div m /\ r = v % m

\* A byte is made up of its two parts.
LEMMA HalvesFacts ==
  ASSUME NEW v, NEW h, NEW r
  PROVE  /\ Halves(v, h, r, 2) => v = h * 2 + r /\ h \in 0..127
         /\ Halves(v, h, r, 4) => v = h * 4 + r /\ h \in 0..63
         /\ Halves(v, h, r, 8) => v = h * 8 + r /\ h \in 0..31
         /\ Halves(v, h, r, 16) => v = h * 16 + r /\ h \in 0..15
         /\ Halves(v, h, r, 32) => v = h * 32 + r /\ h \in 0..7
BY DEF Halves

\* A state of the way back, when the first n bytes are in the symbols it has read: it
\* has them all but, when bits of the last are still to come, the last.
Follows(s, t, bytes, n) ==
  /\ s \in Wide /\ t \in Narrow /\ n \in 0..Len(bytes)
  /\ Begins(t.out, bytes)
  /\ \/ s.bits = 0 /\ t.bits = 0 /\ Len(t.out) = n
     \/ /\ n > 0 /\ Len(t.out) = n - 1
        /\ \/ s.bits = 1 /\ t.bits = 7 /\ bytes[n] = Pending(t) * 2 + Pending(s)
           \/ s.bits = 2 /\ t.bits = 6 /\ bytes[n] = Pending(t) * 4 + Pending(s)
           \/ s.bits = 3 /\ t.bits = 5 /\ bytes[n] = Pending(t) * 8 + Pending(s)
           \/ s.bits = 4 /\ t.bits = 4 /\ bytes[n] = Pending(t) * 16 + Pending(s)

\* With bits of the last byte still to come.
LEMMA BitsToCome ==
  ASSUME NEW s \in Wide, NEW t \in Narrow, NEW bytes, NEW n \in 1..Len(bytes), Len(bytes) \in Nat,
         Begins(t.out, bytes), Len(t.out) = n - 1,
         \/ s.bits = 1 /\ t.bits = 7 /\ bytes[n] = Pending(t) * 2 + Pending(s)
         \/ s.bits = 2 /\ t.bits = 6 /\ bytes[n] = Pending(t) * 4 + Pending(s)
         \/ s.bits = 3 /\ t.bits = 5 /\ bytes[n] = Pending(t) * 8 + Pending(s)
         \/ s.bits = 4 /\ t.bits = 4 /\ bytes[n] = Pending(t) * 16 + Pending(s)
  PROVE  Follows(s, t, bytes, n)
<1>1. n \in 0..Len(bytes) /\ n > 0
  OBVIOUS
<1> QED BY <1>1, Zenon DEF Follows

\* The next byte goes in, and the symbols that come out are read.
Reads(s, t, u, bytes, data, n) ==
  /\ bytes \in Seq(Bytes) /\ data \in Seq(Symbols) /\ n + 1 \in 1..Len(bytes)
  /\ Follows(s, t, bytes, n) /\ WideMove(s, bytes[n + 1], u) /\ Begins(u.out, data)

\* The high bits of a byte behind the bits left over, and its low bits, are symbols.
LEMMA TwoSymbols ==
  ASSUME NEW v \in 0..255
  PROVE  /\ \A p \in 0..3 : p * 8 + v \div 32 \in Symbols
         /\ \A p \in 0..7 : p * 4 + v \div 64 \in Symbols
         /\ \A p \in 0..15 : p * 2 + v \div 128 \in Symbols
         /\ v % 32 \in Symbols /\ (v \div 2) % 32 \in Symbols /\ (v \div 4) % 32 \in Symbols
<1>1. v \div 32 \in 0..7 /\ v \div 64 \in 0..3 /\ v \div 128 \in 0..1
  OBVIOUS
<1>2. \A h \in 0..7 : \A p \in 0..3 : p * 8 + h \in Symbols
  BY DEF Symbols
<1>3. \A h \in 0..3 : \A p \in 0..7 : p * 4 + h \in Symbols
  BY DEF Symbols
<1>4. \A h \in 0..1 : \A p \in 0..15 : p * 2 + h \in Symbols
  BY DEF Symbols
<1>5. v \in Nat /\ v \div 2 \in Nat /\ v \div 4 \in Nat
  OBVIOUS
<1>6. \A n \in Nat : n % 32 \in Symbols
  BY DEF Symbols
<1> QED BY ONLY <1>1, <1>2, <1>3, <1>4, <1>5, <1>6, Zenon

\* The types that come with a byte that is read.
LEMMA ReadsFacts ==
  ASSUME NEW s, NEW t, NEW u, NEW bytes, NEW data, NEW n, Reads(s, t, u, bytes, data, n)
  PROVE  /\ s \in Wide /\ s.out \in Seq(Symbols) /\ u \in Wide /\ t \in Narrow /\ t.out \in Seq(Bytes)
         /\ n \in Nat /\ n < Len(bytes) /\ bytes[n + 1] \in Bytes /\ data \in Seq(Symbols) /\ bytes \in Seq(Bytes)
         /\ Begins(t.out, bytes) /\ Begins(u.out, data) /\ WideMove(s, bytes[n + 1], u)
<1>1. bytes \in Seq(Bytes) /\ n \in 0..Len(bytes) /\ n + 1 \in 1..Len(bytes)
  BY DEF Reads, Follows
<1>2. bytes[n + 1] \in Bytes /\ n \in Nat /\ n < Len(bytes)
  BY <1>1
<1>3. s \in Wide /\ t \in Narrow /\ WideMove(s, bytes[n + 1], u)
  BY DEF Reads, Follows
<1>4. u \in Wide
  BY <1>3, WideTyped
<1>5. s.out \in Seq(Symbols) /\ t.out \in Seq(Bytes)
  BY <1>3 DEF Wide, Narrow
<1> QED
  BY <1>1, <1>2, <1>3, <1>4, <1>5 DEF Reads, Follows

\* A byte behind whole symbols: its first five bits are read.
LEMMA FollowNoBits ==
  ASSUME NEW s, NEW t, NEW u, NEW bytes, NEW data, NEW n, Reads(s, t, u, bytes, data, n), s.bits = 0,
         NEW t1, NarrowMove(t, data[Len(s.out) + 1], t1)
  PROVE  Follows(u, t1, bytes, n + 1) /\ Len(u.out) = Len(s.out) + 1
<1> DEFINE v == bytes[n + 1]
           p == Pending(s)
           q == Pending(t)
           k == Len(s.out)
           x == data[k + 1]
<1>1. v \in 0..255 /\ p \in 0..0 /\ q \in Nat
  <2>1. s \in Wide /\ t \in Narrow /\ v \in Bytes
    BY ReadsFacts
  <2>2. p \in 0..0 /\ q \in Nat
    BY <2>1, PendingRange
  <2> QED BY <2>1, <2>2 DEF Bytes
<1>2. t.bits = 0 /\ Len(t.out) = n
  BY DEF Reads, Follows
<1>3. u.bits = 3 /\ u.out = Append(s.out, v \div 8) /\ Pending(u) = v % 8
  <2>1. WideMove(s, v, u)
    BY ReadsFacts
  <2> HIDE DEF v
  <2> QED BY <2>1, WideStep DEF p
<1>4. x = v \div 8 /\ Len(u.out) = k + 1
  <2>1. PICK a : a = v \div 8 /\ u.out = Append(s.out, a)
    BY <1>3
  <2>2. a \in Symbols
    <3> HIDE DEF v, p
    <3> QED BY <1>1, <2>1 DEF Symbols
  <2>3. s.out \in Seq(Symbols) /\ data \in Seq(Symbols) /\ Begins(Append(s.out, a), data)
    BY <2>1, ReadsFacts
  <2>4. Len(Append(s.out, a)) = k + 1 /\ data[k + 1] = a
    BY <2>2, <2>3, AppendBegins
  <2> QED BY <2>1, <2>4
<1>5. t1.bits = 5 /\ t1.out = t.out /\ Pending(t1) = x
  <2>1. NarrowMove(t, x, t1) /\ t.bits = 0
    BY <1>2
  <2> HIDE DEF x
  <2> QED BY <2>1, NarrowStep DEF q
<1>6. t1 \in Narrow /\ u \in Wide /\ n + 1 \in 0..Len(bytes)
  BY ReadsFacts, NarrowTyped
<1>7. bytes[n + 1] = Pending(t1) * 8 + Pending(u)
  <2> HIDE DEF v, p, q, x
  <2>1. PICK h, r : h = v \div 8 /\ r = v % 8
    OBVIOUS
  <2>2. Halves(v, h, r, 8)
    BY <1>1, <2>1 DEF Halves
  <2>3. v = h * 8 + r /\ h \in 0..31
    BY <2>2, HalvesFacts
  <2>4. Pending(u) = r
    BY <1>3, <2>1
  <2>5. Pending(t1) = h
    BY <1>4, <1>5, <2>1
  <2> QED BY <2>3, <2>4, <2>5 DEF v
<1> HIDE DEF v, p, q, x
<1> QED
  <2>1. PICK m : m = n + 1
    OBVIOUS
  <2>2. n \in Nat /\ n < Len(bytes) /\ bytes \in Seq(Bytes) /\ Begins(t1.out, bytes) /\ Len(t1.out) = n
    BY <1>2, <1>5, <1>6, <1>7, ReadsFacts
  <2>3. m \in 1..Len(bytes) /\ Len(bytes) \in Nat /\ Len(t1.out) = m - 1
    BY <2>1, <2>2
  <2>4. u.bits = 3 /\ t1.bits = 5 /\ bytes[m] = Pending(t1) * 8 + Pending(u) /\ u \in Wide /\ t1 \in Narrow
    BY <1>3, <1>2, <1>5, <1>6, <1>7, <2>1
  <2>5. Follows(u, t1, bytes, m)
    BY ONLY <2>2, <2>3, <2>4, BitsToCome
  <2> QED BY <1>4, <2>1, <2>5 DEF k

\* A byte behind one bit: four of its bits are read, and the byte before is complete.
LEMMA FollowOneBits ==
  ASSUME NEW s, NEW t, NEW u, NEW bytes, NEW data, NEW n, Reads(s, t, u, bytes, data, n), s.bits = 1,
         NEW t1, NarrowMove(t, data[Len(s.out) + 1], t1)
  PROVE  Follows(u, t1, bytes, n + 1) /\ Len(u.out) = Len(s.out) + 1
<1> DEFINE v == bytes[n + 1]
           p == Pending(s)
           q == Pending(t)
           k == Len(s.out)
           x == data[k + 1]
<1>1. v \in 0..255 /\ p \in 0..1 /\ q \in Nat
  <2>1. s \in Wide /\ t \in Narrow /\ v \in Bytes
    BY ReadsFacts
  <2>2. p \in 0..1 /\ q \in Nat
    BY <2>1, PendingRange
  <2> QED BY <2>1, <2>2 DEF Bytes
<1>2. t.bits = 7 /\ Len(t.out) = n - 1 /\ n > 0 /\ bytes[n] = q * 2 + p
  BY DEF Reads, Follows
<1>3. u.bits = 4 /\ u.out = Append(s.out, p * 16 + v \div 16) /\ Pending(u) = v % 16
  <2>1. WideMove(s, v, u)
    BY ReadsFacts
  <2> HIDE DEF v
  <2> QED BY <2>1, WideStep DEF p
<1>4. x = p * 16 + v \div 16 /\ Len(u.out) = k + 1
  <2>1. PICK a : a = p * 16 + v \div 16 /\ u.out = Append(s.out, a)
    BY <1>3
  <2>2. a \in Symbols
    <3> HIDE DEF v, p
    <3> QED BY <1>1, <2>1 DEF Symbols
  <2>3. s.out \in Seq(Symbols) /\ data \in Seq(Symbols) /\ Begins(Append(s.out, a), data)
    BY <2>1, ReadsFacts
  <2>4. Len(Append(s.out, a)) = k + 1 /\ data[k + 1] = a
    BY <2>2, <2>3, AppendBegins
  <2> QED BY <2>1, <2>4
<1>5. t1.bits = 4 /\ t1.out = Append(t.out, q * 2 + x \div 16) /\ Pending(t1) = x % 16
  <2>1. NarrowMove(t, x, t1) /\ t.bits = 7
    BY <1>2
  <2> HIDE DEF x
  <2> QED BY <2>1, NarrowStep DEF q
<1>6. t1 \in Narrow /\ u \in Wide /\ n + 1 \in 0..Len(bytes)
  BY ReadsFacts, NarrowTyped
<1>7. Begins(t1.out, bytes) /\ Len(t1.out) = n
  <2>1. q * 2 + x \div 16 = q * 2 + p
    <3> HIDE DEF v, p, q, x
    <3> QED BY <1>1, <1>4
  <2>2. t1.out = Append(t.out, bytes[n]) /\ t.out \in Seq(Bytes) /\ Begins(t.out, bytes) /\ Len(t.out) = n - 1
    BY <1>2, <1>5, <2>1, ReadsFacts
  <2>3. n \in Nat /\ n < Len(bytes) /\ bytes \in Seq(Bytes) /\ bytes[n] \in Bytes
    BY <1>2, ReadsFacts
  <2> QED BY <2>2, <2>3, AppendBegins
<1>8. bytes[n + 1] = Pending(t1) * 16 + Pending(u)
  <2> HIDE DEF v, p, q, x
  <2>1. PICK h, r : h = v \div 16 /\ r = v % 16
    OBVIOUS
  <2>2. Halves(v, h, r, 16)
    BY <1>1, <2>1 DEF Halves
  <2>3. v = h * 16 + r /\ h \in 0..15
    BY <2>2, HalvesFacts
  <2>4. Pending(u) = r
    BY <1>3, <2>1
  <2>5. Pending(t1) = h
    <3>1. x = p * 16 + h /\ p \in 0..1
      BY <1>1, <1>4, <2>1
    <3>2. x % 16 = h
      BY <2>3, <3>1
    <3> QED BY <1>5, <3>2
  <2> QED BY <2>3, <2>4, <2>5 DEF v
<1> HIDE DEF v, p, q, x
<1> QED
  <2>1. PICK m : m = n + 1
    OBVIOUS
  <2>2. n \in Nat /\ n < Len(bytes) /\ bytes \in Seq(Bytes) /\ Begins(t1.out, bytes) /\ Len(t1.out) = n
    BY <1>2, <1>5, <1>6, <1>8, <1>7, ReadsFacts
  <2>3. m \in 1..Len(bytes) /\ Len(bytes) \in Nat /\ Len(t1.out) = m - 1
    BY <2>1, <2>2
  <2>4. u.bits = 4 /\ t1.bits = 4 /\ bytes[m] = Pending(t1) * 16 + Pending(u) /\ u \in Wide /\ t1 \in Narrow
    BY <1>3, <1>2, <1>5, <1>6, <1>8, <1>7, <2>1
  <2>5. Follows(u, t1, bytes, m)
    BY ONLY <2>2, <2>3, <2>4, BitsToCome
  <2> QED BY <1>4, <2>1, <2>5 DEF k

\* A byte behind two bits: two symbols are read, and both bytes are complete.
LEMMA FollowTwoBits ==
  ASSUME NEW s, NEW t, NEW u, NEW bytes, NEW data, NEW n, Reads(s, t, u, bytes, data, n), s.bits = 2,
         NEW t1, NarrowMove(t, data[Len(s.out) + 1], t1), NEW t2, NarrowMove(t1, data[Len(s.out) + 2], t2)
  PROVE  Follows(u, t2, bytes, n + 1) /\ Len(u.out) = Len(s.out) + 2
<1> DEFINE v == bytes[n + 1]
           p == Pending(s)
           q == Pending(t)
           k == Len(s.out)
           x == data[k + 1]
           y == data[k + 2]
<1>1. v \in 0..255 /\ p \in 0..3 /\ q \in Nat
  <2>1. s \in Wide /\ t \in Narrow /\ v \in Bytes
    BY ReadsFacts
  <2>2. p \in 0..3 /\ q \in Nat
    BY <2>1, PendingRange
  <2> QED BY <2>1, <2>2 DEF Bytes
<1>2. t.bits = 6 /\ Len(t.out) = n - 1 /\ n > 0 /\ bytes[n] = q * 4 + p
  BY DEF Reads, Follows
<1>3. u.bits = 0 /\ u.out = Append(Append(s.out, p * 8 + v \div 32), v % 32)
  <2>1. WideMove(s, v, u)
    BY ReadsFacts
  <2> HIDE DEF v
  <2> QED BY <2>1, WideStep DEF p
<1>4. x = p * 8 + v \div 32 /\ y = v % 32 /\ Len(u.out) = k + 2
  <2>1. PICK a, c : a = p * 8 + v \div 32 /\ c = v % 32 /\ u.out = Append(Append(s.out, a), c)
    BY <1>3
  <2>2. a \in Symbols /\ c \in Symbols
    <3> HIDE DEF v, p
    <3> QED BY ONLY <1>1, <2>1, TwoSymbols, Zenon
  <2> DEFINE out == Append(s.out, a)
  <2>3. s.out \in Seq(Symbols) /\ data \in Seq(Symbols) /\ Begins(Append(out, c), data)
    BY <2>1, ReadsFacts
  <2>4. out \in Seq(Symbols) /\ k \in Nat
    BY <2>2, <2>3
  <2>5. Len(Append(out, c)) = Len(out) + 1 /\ Begins(out, data) /\ data[Len(out) + 1] = c
    <3> HIDE DEF out
    <3> QED BY <2>2, <2>3, <2>4, AppendBegins
  <2>6. Len(out) = k + 1 /\ data[k + 1] = a
    BY <2>2, <2>3, <2>5, AppendBegins
  <2>7. k + 1 + 1 = k + 2
    BY <2>4
  <2> QED BY <2>1, <2>5, <2>6, <2>7
<1>5. t1.bits = 3 /\ t1.out = Append(t.out, q * 4 + x \div 8) /\ Pending(t1) = x % 8
  <2>1. NarrowMove(t, x, t1) /\ t.bits = 6
    BY <1>2
  <2> HIDE DEF x
  <2> QED BY <2>1, NarrowStep DEF q
<1>6. t2.bits = 0 /\ t2.out = Append(t1.out, Pending(t1) * 32 + y)
  <2>1. NarrowMove(t1, y, t2) /\ t1.bits = 3
    BY <1>5
  <2> HIDE DEF y
  <2> QED BY <2>1, NarrowStep
<1>7. t2 \in Narrow /\ u \in Wide /\ n + 1 \in 0..Len(bytes)
  BY ReadsFacts, NarrowTyped
<1>8. Begins(t1.out, bytes) /\ Len(t1.out) = n
  <2>1. q * 4 + x \div 8 = q * 4 + p
    <3> HIDE DEF v, p, q, x, y
    <3> QED BY <1>1, <1>4
  <2>2. t1.out = Append(t.out, bytes[n]) /\ t.out \in Seq(Bytes) /\ Begins(t.out, bytes) /\ Len(t.out) = n - 1
    BY <1>2, <1>5, <2>1, ReadsFacts
  <2>3. n \in Nat /\ n < Len(bytes) /\ bytes \in Seq(Bytes) /\ bytes[n] \in Bytes
    BY <1>2, ReadsFacts
  <2> QED BY <2>2, <2>3, AppendBegins
<1>9. Begins(t2.out, bytes) /\ Len(t2.out) = n + 1
  <2>1. Pending(t1) * 32 + y = v
    <3> HIDE DEF v, p, q, x, y
    <3>1. PICK h, l : h = v \div 32 /\ l = v % 32
      OBVIOUS
    <3>2. Halves(v, h, l, 32)
      BY <1>1, <3>1 DEF Halves
    <3>3. v = h * 32 + l /\ h \in 0..7
      BY <3>2, HalvesFacts
    <3>4. x = p * 8 + h /\ p \in 0..3
      BY <1>1, <1>4, <3>1
    <3>5. x % 8 = h
      BY ONLY <3>3, <3>4
    <3>6. Pending(t1) = h /\ y = l
      BY ONLY <1>4, <1>5, <3>1, <3>5
    <3> QED BY ONLY <3>3, <3>6
  <2>2. t2.out = Append(t1.out, bytes[n + 1]) /\ t1.out \in Seq(Bytes) /\ Begins(t1.out, bytes) /\ Len(t1.out) = n
    <3>1. t2.out = Append(t1.out, v)
      <4> HIDE DEF v, y
      <4> QED BY ONLY <1>6, <2>1
    <3>2. t1 \in Narrow
      BY ReadsFacts, NarrowTyped
    <3>3. t1.out \in Seq(Bytes)
      BY <3>2 DEF Narrow
    <3> QED BY ONLY <1>8, <3>1, <3>3 DEF v
  <2>3. n \in Nat /\ n < Len(bytes) /\ bytes \in Seq(Bytes) /\ bytes[n + 1] \in Bytes
    BY <1>2, ReadsFacts
  <2> QED BY <2>2, <2>3, AppendBegins
<1> HIDE DEF v, p, q, x, y
<1> QED
  <2>1. PICK m : m = n + 1
    OBVIOUS
  <2>2. m \in 0..Len(bytes) /\ Begins(t2.out, bytes) /\ Len(t2.out) = m
    BY <1>7, <1>9, <2>1
  <2>3. u.bits = 0 /\ t2.bits = 0 /\ u \in Wide /\ t2 \in Narrow
    BY <1>3, <1>6, <1>7
  <2>4. Follows(u, t2, bytes, m)
    BY ONLY <2>2, <2>3, Zenon DEF Follows
  <2> QED BY <1>4, <2>1, <2>4 DEF k

\* A byte behind three bits: two symbols are read, and one bit is still to come.
LEMMA FollowThreeBits ==
  ASSUME NEW s, NEW t, NEW u, NEW bytes, NEW data, NEW n, Reads(s, t, u, bytes, data, n), s.bits = 3,
         NEW t1, NarrowMove(t, data[Len(s.out) + 1], t1), NEW t2, NarrowMove(t1, data[Len(s.out) + 2], t2)
  PROVE  Follows(u, t2, bytes, n + 1) /\ Len(u.out) = Len(s.out) + 2
<1> DEFINE v == bytes[n + 1]
           p == Pending(s)
           q == Pending(t)
           k == Len(s.out)
           x == data[k + 1]
           y == data[k + 2]
<1>1. v \in 0..255 /\ p \in 0..7 /\ q \in Nat
  <2>1. s \in Wide /\ t \in Narrow /\ v \in Bytes
    BY ReadsFacts
  <2>2. p \in 0..7 /\ q \in Nat
    BY <2>1, PendingRange
  <2> QED BY <2>1, <2>2 DEF Bytes
<1>2. t.bits = 5 /\ Len(t.out) = n - 1 /\ n > 0 /\ bytes[n] = q * 8 + p
  BY DEF Reads, Follows
<1>3. u.bits = 1 /\ u.out = Append(Append(s.out, p * 4 + v \div 64), (v \div 2) % 32) /\ Pending(u) = v % 2
  <2>1. WideMove(s, v, u)
    BY ReadsFacts
  <2> HIDE DEF v
  <2> QED BY <2>1, WideStep DEF p
<1>4. x = p * 4 + v \div 64 /\ y = (v \div 2) % 32 /\ Len(u.out) = k + 2
  <2>1. PICK a, c : a = p * 4 + v \div 64 /\ c = (v \div 2) % 32 /\ u.out = Append(Append(s.out, a), c)
    BY <1>3
  <2>2. a \in Symbols /\ c \in Symbols
    <3> HIDE DEF v, p
    <3> QED BY ONLY <1>1, <2>1, TwoSymbols, Zenon
  <2> DEFINE out == Append(s.out, a)
  <2>3. s.out \in Seq(Symbols) /\ data \in Seq(Symbols) /\ Begins(Append(out, c), data)
    BY <2>1, ReadsFacts
  <2>4. out \in Seq(Symbols) /\ k \in Nat
    BY <2>2, <2>3
  <2>5. Len(Append(out, c)) = Len(out) + 1 /\ Begins(out, data) /\ data[Len(out) + 1] = c
    <3> HIDE DEF out
    <3> QED BY <2>2, <2>3, <2>4, AppendBegins
  <2>6. Len(out) = k + 1 /\ data[k + 1] = a
    BY <2>2, <2>3, <2>5, AppendBegins
  <2>7. k + 1 + 1 = k + 2
    BY <2>4
  <2> QED BY <2>1, <2>5, <2>6, <2>7
<1>5. t1.bits = 2 /\ t1.out = Append(t.out, q * 8 + x \div 4) /\ Pending(t1) = x % 4
  <2>1. NarrowMove(t, x, t1) /\ t.bits = 5
    BY <1>2
  <2> HIDE DEF x
  <2> QED BY <2>1, NarrowStep DEF q
<1>6. t2.bits = 7 /\ t2.out = t1.out /\ Pending(t2) = Pending(t1) * 32 + y
  <2>1. NarrowMove(t1, y, t2) /\ t1.bits = 2
    BY <1>5
  <2> HIDE DEF y
  <2> QED BY <2>1, NarrowStep
<1>7. t2 \in Narrow /\ u \in Wide /\ n + 1 \in 0..Len(bytes)
  BY ReadsFacts, NarrowTyped
<1>8. Begins(t1.out, bytes) /\ Len(t1.out) = n
  <2>1. q * 8 + x \div 4 = q * 8 + p
    <3> HIDE DEF v, p, q, x, y
    <3> QED BY <1>1, <1>4
  <2>2. t1.out = Append(t.out, bytes[n]) /\ t.out \in Seq(Bytes) /\ Begins(t.out, bytes) /\ Len(t.out) = n - 1
    BY <1>2, <1>5, <2>1, ReadsFacts
  <2>3. n \in Nat /\ n < Len(bytes) /\ bytes \in Seq(Bytes) /\ bytes[n] \in Bytes
    BY <1>2, ReadsFacts
  <2> QED BY <2>2, <2>3, AppendBegins
<1>9. bytes[n + 1] = Pending(t2) * 2 + Pending(u)
  <2> HIDE DEF v, p, q, x, y
  <2>1. PICK h, r : h = v \div 2 /\ r = v % 2
    OBVIOUS
  <2>2. Halves(v, h, r, 2)
    BY <1>1, <2>1 DEF Halves
  <2>3. v = h * 2 + r /\ h \in 0..127
    BY <2>2, HalvesFacts
  <2>4. Pending(u) = r
    BY <1>3, <2>1
  <2>5. Pending(t2) = h
    <3>1. x = p * 4 + v \div 64 /\ p \in 0..7 /\ v \in 0..255 /\ y = h % 32
      BY <1>1, <1>4, <2>1
    <3>2. x % 4 = v \div 64 /\ v \div 64 = h \div 32
      BY <2>1, <3>1
    <3>3. PICK a : a = x % 4
      OBVIOUS
    <3>4. Halves(h, a, y, 32)
      BY <2>3, <3>1, <3>2, <3>3 DEF Halves
    <3>5. h = a * 32 + y
      BY <3>4, HalvesFacts
    <3>6. Pending(t2) = a * 32 + y
      BY <1>5, <1>6, <3>3
    <3> QED BY <3>5, <3>6
  <2> QED BY <2>3, <2>4, <2>5 DEF v
<1> HIDE DEF v, p, q, x, y
<1> QED
  <2>1. PICK m : m = n + 1
    OBVIOUS
  <2>2. n \in Nat /\ n < Len(bytes) /\ bytes \in Seq(Bytes) /\ Begins(t2.out, bytes) /\ Len(t2.out) = n
    BY <1>2, <1>5, <1>6, <1>7, <1>9, <1>8, ReadsFacts
  <2>3. m \in 1..Len(bytes) /\ Len(bytes) \in Nat /\ Len(t2.out) = m - 1
    BY <2>1, <2>2
  <2>4. u.bits = 1 /\ t2.bits = 7 /\ bytes[m] = Pending(t2) * 2 + Pending(u) /\ u \in Wide /\ t2 \in Narrow
    BY <1>3, <1>2, <1>5, <1>6, <1>7, <1>9, <1>8, <2>1
  <2>5. Follows(u, t2, bytes, m)
    BY ONLY <2>2, <2>3, <2>4, BitsToCome
  <2> QED BY <1>4, <2>1, <2>5 DEF k

\* A byte behind four bits: two symbols are read, and two bits are still to come.
LEMMA FollowFourBits ==
  ASSUME NEW s, NEW t, NEW u, NEW bytes, NEW data, NEW n, Reads(s, t, u, bytes, data, n), s.bits = 4,
         NEW t1, NarrowMove(t, data[Len(s.out) + 1], t1), NEW t2, NarrowMove(t1, data[Len(s.out) + 2], t2)
  PROVE  Follows(u, t2, bytes, n + 1) /\ Len(u.out) = Len(s.out) + 2
<1> DEFINE v == bytes[n + 1]
           p == Pending(s)
           q == Pending(t)
           k == Len(s.out)
           x == data[k + 1]
           y == data[k + 2]
<1>1. v \in 0..255 /\ p \in 0..15 /\ q \in Nat
  <2>1. s \in Wide /\ t \in Narrow /\ v \in Bytes
    BY ReadsFacts
  <2>2. p \in 0..15 /\ q \in Nat
    BY <2>1, PendingRange
  <2> QED BY <2>1, <2>2 DEF Bytes
<1>2. t.bits = 4 /\ Len(t.out) = n - 1 /\ n > 0 /\ bytes[n] = q * 16 + p
  BY DEF Reads, Follows
<1>3. u.bits = 2 /\ u.out = Append(Append(s.out, p * 2 + v \div 128), (v \div 4) % 32) /\ Pending(u) = v % 4
  <2>1. WideMove(s, v, u)
    BY ReadsFacts
  <2> HIDE DEF v
  <2> QED BY <2>1, WideStep DEF p
<1>4. x = p * 2 + v \div 128 /\ y = (v \div 4) % 32 /\ Len(u.out) = k + 2
  <2>1. PICK a, c : a = p * 2 + v \div 128 /\ c = (v \div 4) % 32 /\ u.out = Append(Append(s.out, a), c)
    BY <1>3
  <2>2. a \in Symbols /\ c \in Symbols
    <3> HIDE DEF v, p
    <3> QED BY ONLY <1>1, <2>1, TwoSymbols, Zenon
  <2> DEFINE out == Append(s.out, a)
  <2>3. s.out \in Seq(Symbols) /\ data \in Seq(Symbols) /\ Begins(Append(out, c), data)
    BY <2>1, ReadsFacts
  <2>4. out \in Seq(Symbols) /\ k \in Nat
    BY <2>2, <2>3
  <2>5. Len(Append(out, c)) = Len(out) + 1 /\ Begins(out, data) /\ data[Len(out) + 1] = c
    <3> HIDE DEF out
    <3> QED BY <2>2, <2>3, <2>4, AppendBegins
  <2>6. Len(out) = k + 1 /\ data[k + 1] = a
    BY <2>2, <2>3, <2>5, AppendBegins
  <2>7. k + 1 + 1 = k + 2
    BY <2>4
  <2> QED BY <2>1, <2>5, <2>6, <2>7
<1>5. t1.bits = 1 /\ t1.out = Append(t.out, q * 16 + x \div 2) /\ Pending(t1) = x % 2
  <2>1. NarrowMove(t, x, t1) /\ t.bits = 4
    BY <1>2
  <2> HIDE DEF x
  <2> QED BY <2>1, NarrowStep DEF q
<1>6. t2.bits = 6 /\ t2.out = t1.out /\ Pending(t2) = Pending(t1) * 32 + y
  <2>1. NarrowMove(t1, y, t2) /\ t1.bits = 1
    BY <1>5
  <2> HIDE DEF y
  <2> QED BY <2>1, NarrowStep
<1>7. t2 \in Narrow /\ u \in Wide /\ n + 1 \in 0..Len(bytes)
  BY ReadsFacts, NarrowTyped
<1>8. Begins(t1.out, bytes) /\ Len(t1.out) = n
  <2>1. q * 16 + x \div 2 = q * 16 + p
    <3> HIDE DEF v, p, q, x, y
    <3> QED BY <1>1, <1>4
  <2>2. t1.out = Append(t.out, bytes[n]) /\ t.out \in Seq(Bytes) /\ Begins(t.out, bytes) /\ Len(t.out) = n - 1
    BY <1>2, <1>5, <2>1, ReadsFacts
  <2>3. n \in Nat /\ n < Len(bytes) /\ bytes \in Seq(Bytes) /\ bytes[n] \in Bytes
    BY <1>2, ReadsFacts
  <2> QED BY <2>2, <2>3, AppendBegins
<1>9. bytes[n + 1] = Pending(t2) * 4 + Pending(u)
  <2> HIDE DEF v, p, q, x, y
  <2>1. PICK h, r : h = v \div 4 /\ r = v % 4
    OBVIOUS
  <2>2. Halves(v, h, r, 4)
    BY <1>1, <2>1 DEF Halves
  <2>3. v = h * 4 + r /\ h \in 0..63
    BY <2>2, HalvesFacts
  <2>4. Pending(u) = r
    BY <1>3, <2>1
  <2>5. Pending(t2) = h
    <3>1. x = p * 2 + v \div 128 /\ p \in 0..15 /\ v \in 0..255 /\ y = h % 32
      BY <1>1, <1>4, <2>1
    <3>2. x % 2 = v \div 128 /\ v \div 128 = h \div 32
      BY <2>1, <3>1
    <3>3. PICK a : a = x % 2
      OBVIOUS
    <3>4. Halves(h, a, y, 32)
      BY <2>3, <3>1, <3>2, <3>3 DEF Halves
    <3>5. h = a * 32 + y
      BY <3>4, HalvesFacts
    <3>6. Pending(t2) = a * 32 + y
      BY <1>5, <1>6, <3>3
    <3> QED BY <3>5, <3>6
  <2> QED BY <2>3, <2>4, <2>5 DEF v
<1> HIDE DEF v, p, q, x, y
<1> QED
  <2>1. PICK m : m = n + 1
    OBVIOUS
  <2>2. n \in Nat /\ n < Len(bytes) /\ bytes \in Seq(Bytes) /\ Begins(t2.out, bytes) /\ Len(t2.out) = n
    BY <1>2, <1>5, <1>6, <1>7, <1>9, <1>8, ReadsFacts
  <2>3. m \in 1..Len(bytes) /\ Len(bytes) \in Nat /\ Len(t2.out) = m - 1
    BY <2>1, <2>2
  <2>4. u.bits = 2 /\ t2.bits = 6 /\ bytes[m] = Pending(t2) * 4 + Pending(u) /\ u \in Wide /\ t2 \in Narrow
    BY <1>3, <1>2, <1>5, <1>6, <1>7, <1>9, <1>8, <2>1
  <2>5. Follows(u, t2, bytes, m)
    BY ONLY <2>2, <2>3, <2>4, BitsToCome
  <2> QED BY <1>4, <2>1, <2>5 DEF k

\* A byte brings out one symbol or two, behind those that are out.
LEMMA WideGrows ==
  ASSUME NEW s, NEW v, NEW u, WideMove(s, v, u)
  PROVE  /\ u.bits + 5 * Len(u.out) = s.bits + 5 * Len(s.out) + 8
         /\ \A data \in Seq(Symbols) : Begins(u.out, data) =>
              /\ Begins(s.out, data)
              /\ s.bits \in {0, 1} => Len(u.out) = Len(s.out) + 1 /\ Len(s.out) + 1 \in 1..Len(data)
              /\ s.bits \in {2, 3, 4} => Len(u.out) = Len(s.out) + 2 /\ Len(s.out) + 1 \in 1..Len(data)
                                         /\ Len(s.out) + 2 \in 1..Len(data)
<1>1. PICK acc : acc = (s.acc * 2^8 + v) % 2^(8 + 5 - 1)
  OBVIOUS
<1>2. WideOut(s, u, acc)
  <2>1. WideMoveAcc(s, v, u, acc)
    BY <1>1 DEF WideMoveAcc, WideMove
  <2> QED BY <2>1, WideGroups
<1>3. s.bits \in 0..4 /\ s.out \in Seq(Symbols) /\ acc \in Nat
  <2>2. acc \in 0..4095
    BY <1>2 DEF WideOut
  <2>3. acc \in Nat
    BY <2>2
  <2> QED BY <2>3 DEF WideMove, Wide
<1> DEFINE Group(d) == (acc \div d) % 32
<1>4. \A d \in {1, 2, 4, 8, 16, 32, 64, 128} : Group(d) \in Symbols
  BY <1>3 DEF Symbols
<1>5. \/ s.bits \in {0, 1} /\ u.bits = s.bits + 3 /\ \E x \in Symbols : u.out = Append(s.out, x)
      \/ /\ s.bits \in {2, 3, 4} /\ u.bits = s.bits - 2
         /\ \E x, y \in Symbols : u.out = Append(Append(s.out, x), y)
  <2> HIDE DEF Group
  <2>1. CASE s.bits = 0
    <3>1. u.bits = 3 /\ u.out = Append(s.out, Group(8))
      BY <1>2, <2>1 DEF WideOut, Group
    <3> QED BY <1>4, <2>1, <3>1
  <2>2. CASE s.bits = 1
    <3>1. u.bits = 4 /\ u.out = Append(s.out, Group(16))
      BY <1>2, <2>2 DEF WideOut, Group
    <3> QED BY <1>4, <2>2, <3>1
  <2>3. CASE s.bits = 2
    <3>1. u.bits = 0 /\ u.out = Append(Append(s.out, Group(32)), Group(1))
      BY <1>2, <2>3 DEF WideOut, Group
    <3>2. Group(32) \in Symbols /\ Group(1) \in Symbols
      BY <1>4
    <3> QED BY <2>3, <3>1, <3>2
  <2>4. CASE s.bits = 3
    <3>1. u.bits = 1 /\ u.out = Append(Append(s.out, Group(64)), Group(2))
      BY <1>2, <2>4 DEF WideOut, Group
    <3>2. Group(64) \in Symbols /\ Group(2) \in Symbols
      BY <1>4
    <3> QED BY <2>4, <3>1, <3>2
  <2>5. CASE s.bits = 4
    <3>1. u.bits = 2 /\ u.out = Append(Append(s.out, Group(128)), Group(4))
      BY <1>2, <2>5 DEF WideOut, Group
    <3>2. Group(128) \in Symbols /\ Group(4) \in Symbols
      BY <1>4
    <3> QED BY <2>5, <3>1, <3>2
  <2>6. s.bits = 0 \/ s.bits = 1 \/ s.bits = 2 \/ s.bits = 3 \/ s.bits = 4
    BY <1>3
  <2> QED BY ONLY <2>1, <2>2, <2>3, <2>4, <2>5, <2>6
<1> HIDE DEF Group
<1>6. CASE s.bits \in {0, 1}
  <2>1. PICK x \in Symbols : u.out = Append(s.out, x)
    BY <1>5, <1>6
  <2>2. Len(u.out) = Len(s.out) + 1 /\ Len(s.out) \in Nat
    BY <1>3, <2>1
  <2>3. ASSUME NEW data \in Seq(Symbols), Begins(u.out, data)
        PROVE  Begins(s.out, data) /\ Len(s.out) + 1 \in 1..Len(data)
    <3>1. Begins(Append(s.out, x), data)
      BY <2>1, <2>3
    <3>2. Begins(s.out, data) /\ Len(s.out) < Len(data)
      BY <1>3, <3>1, AppendBegins
    <3> QED BY <2>2, <3>2
  <2>4. u.bits = s.bits + 3
    BY <1>5, <1>6
  <2> QED BY <1>3, <1>6, <2>2, <2>3, <2>4
<1>7. CASE s.bits \in {2, 3, 4}
  <2>1. PICK x \in Symbols, y \in Symbols : u.out = Append(Append(s.out, x), y)
    BY <1>5, <1>7
  <2> DEFINE out == Append(s.out, x)
  <2>2. out \in Seq(Symbols)
    BY <1>3
  <2>3. Len(out) = Len(s.out) + 1 /\ Len(u.out) = Len(s.out) + 2 /\ Len(s.out) \in Nat
    BY <1>3, <2>1, <2>2
  <2>4. ASSUME NEW data \in Seq(Symbols), Begins(u.out, data)
        PROVE  Begins(s.out, data) /\ Len(s.out) + 1 \in 1..Len(data) /\ Len(s.out) + 2 \in 1..Len(data)
    <3>1. Begins(Append(out, y), data)
      BY <2>1, <2>4
    <3>2. Begins(out, data) /\ Len(out) < Len(data)
      <4> HIDE DEF out
      <4> QED BY <2>2, <3>1, AppendBegins
    <3>3. Begins(Append(s.out, x), data)
      BY <3>2
    <3>4. Begins(s.out, data) /\ Len(s.out) < Len(data)
      BY <1>3, <3>3, AppendBegins
    <3> QED BY <2>3, <3>2, <3>4
  <2>5. u.bits = s.bits - 2
    BY <1>5, <1>7
  <2> QED BY <1>3, <1>7, <2>3, <2>4, <2>5
<1> QED
  BY <1>3, <1>6, <1>7

\* What is left over of bytes becomes the high bits of a last symbol.
LEMMA WideRest ==
  ASSUME NEW s \in Wide
  PROVE  /\ Rest(s, 5) \in Symbols
         /\ s.bits = 1 => Rest(s, 5) = Pending(s) * 16
         /\ s.bits = 2 => Rest(s, 5) = Pending(s) * 8
         /\ s.bits = 3 => Rest(s, 5) = Pending(s) * 4
         /\ s.bits = 4 => Rest(s, 5) = Pending(s) * 2
<1>0. s.acc \in 0..4095 /\ s.bits \in 0..4
  BY DEF Wide
<1>1. PICK a \in 0..4095 : a = s.acc
  BY <1>0
<1>2. s.bits = 0 => Rest(s, 5) = (a * 32) % 32 /\ Pending(s) = a % 1
  BY <1>1, Powers DEF Rest, Pending
<1>3. s.bits = 1 => Rest(s, 5) = (a * 16) % 32 /\ Pending(s) = a % 2
  BY <1>1, Powers DEF Rest, Pending
<1>4. s.bits = 2 => Rest(s, 5) = (a * 8) % 32 /\ Pending(s) = a % 4
  BY <1>1, Powers DEF Rest, Pending
<1>5. s.bits = 3 => Rest(s, 5) = (a * 4) % 32 /\ Pending(s) = a % 8
  BY <1>1, Powers DEF Rest, Pending
<1>6. s.bits = 4 => Rest(s, 5) = (a * 2) % 32 /\ Pending(s) = a % 16
  BY <1>1, Powers DEF Rest, Pending
<1>7. /\ (a * 16) % 32 = (a % 2) * 16 /\ (a * 8) % 32 = (a % 4) * 8
      /\ (a * 4) % 32 = (a % 8) * 4 /\ (a * 2) % 32 = (a % 16) * 2
  OBVIOUS
<1>8. /\ (a * 32) % 32 \in Symbols /\ (a * 16) % 32 \in Symbols /\ (a * 8) % 32 \in Symbols
      /\ (a * 4) % 32 \in Symbols /\ (a * 2) % 32 \in Symbols
  BY DEF Symbols
<1> QED
  BY <1>0, <1>2, <1>3, <1>4, <1>5, <1>6, <1>7, <1>8

\* What is left over of symbols must be zeros.
LEMMA NarrowRest ==
  ASSUME NEW s \in Narrow
  PROVE  Rest(s, 8) = 0 <=> Pending(s) = 0
<1>0. s.acc \in 0..4095 /\ s.bits \in 0..7
  BY DEF Narrow
<1>1. PICK a \in 0..4095 : a = s.acc
  BY <1>0
<1>2. s.bits = 0 => Rest(s, 8) = (a * 256) % 256 /\ Pending(s) = a % 1
  BY <1>1, Powers DEF Rest, Pending
<1>3. s.bits = 1 => Rest(s, 8) = (a * 128) % 256 /\ Pending(s) = a % 2
  BY <1>1, Powers DEF Rest, Pending
<1>4. s.bits = 2 => Rest(s, 8) = (a * 64) % 256 /\ Pending(s) = a % 4
  BY <1>1, Powers DEF Rest, Pending
<1>5. s.bits = 3 => Rest(s, 8) = (a * 32) % 256 /\ Pending(s) = a % 8
  BY <1>1, Powers DEF Rest, Pending
<1>6. s.bits = 4 => Rest(s, 8) = (a * 16) % 256 /\ Pending(s) = a % 16
  BY <1>1, Powers DEF Rest, Pending
<1>7. s.bits = 5 => Rest(s, 8) = (a * 8) % 256 /\ Pending(s) = a % 32
  BY <1>1, Powers DEF Rest, Pending
<1>8. s.bits = 6 => Rest(s, 8) = (a * 4) % 256 /\ Pending(s) = a % 64
  BY <1>1, Powers DEF Rest, Pending
<1>9. s.bits = 7 => Rest(s, 8) = (a * 2) % 256 /\ Pending(s) = a % 128
  BY <1>1, Powers DEF Rest, Pending
<1>10. (a * 256) % 256 = 0 /\ a % 1 = 0
  OBVIOUS
<1>11. (a * 128) % 256 = 0 <=> a % 2 = 0
  OBVIOUS
<1>12. (a * 64) % 256 = 0 <=> a % 4 = 0
  OBVIOUS
<1>13. (a * 32) % 256 = 0 <=> a % 8 = 0
  OBVIOUS
<1>14. (a * 16) % 256 = 0 <=> a % 16 = 0
  OBVIOUS
<1>15. (a * 8) % 256 = 0 <=> a % 32 = 0
  OBVIOUS
<1>16. (a * 4) % 256 = 0 <=> a % 64 = 0
  OBVIOUS
<1>17. (a * 2) % 256 = 0 <=> a % 128 = 0
  OBVIOUS
<1> QED
  BY <1>0, <1>2, <1>3, <1>4, <1>5, <1>6, <1>7, <1>8, <1>9, <1>10, <1>11, <1>12, <1>13, <1>14,
     <1>15, <1>16, <1>17

\* A sequence that begins another one of its length is that one.
LEMMA SameSequence ==
  ASSUME NEW S, NEW out \in Seq(S), NEW in \in Seq(S), Begins(out, in), Len(out) = Len(in)
  PROVE  out = in
BY DEF Begins

\* The way back follows the way there, whatever is behind the symbols.
LEMMA DecodeFollows ==
  ASSUME NEW bytes \in Seq(Bytes), NEW data \in Seq(Symbols), NEW f, NEW g,
         f = Stages(bytes, 8, 5), g = Stages(data, 5, 8), Begins(f[Len(bytes)].out, data)
  PROVE  Follows(f[Len(bytes)], g[Len(f[Len(bytes)].out)], bytes, Len(bytes))
<1> DEFINE N      == Len(bytes)
           Good(n) == Begins(f[n].out, data) => Follows(f[n], g[Len(f[n].out)], bytes, n)
           Kept   == {n \in 0..N : Good(n)}
<1>1. N \in Nat /\ Len(data) \in Nat
  OBVIOUS
<1>2. /\ f[0] = Start /\ \A n \in 0..N : f[n] \in Wide
      /\ \A n \in 1..N : WideMove(f[n - 1], bytes[n], f[n])
  BY WideStages
<1>3. /\ g[0] = Start /\ \A n \in 0..Len(data) : g[n] \in Narrow
      /\ \A n \in 1..Len(data) : NarrowMove(g[n - 1], data[n], g[n])
  BY NarrowStages
<1>4. 0 \in Kept
  <2>1. Start.out = << >> /\ Start.bits = 0 /\ Len(<< >>) = 0
    BY DEF Start
  <2>2. Begins(Start.out, bytes)
    BY <1>1, <2>1 DEF Begins
  <2>3. Follows(Start, Start, bytes, 0)
    BY <1>1, <2>1, <2>2, StartStates DEF Follows
  <2> QED BY <1>1, <1>2, <1>3, <2>1, <2>3
<1>5. ASSUME NEW n \in 1..N, n - 1 \in Kept PROVE n \in Kept
  <2> DEFINE s == f[n - 1]
             u == f[n]
             k == Len(s.out)
  <2>0. SUFFICES ASSUME Begins(u.out, data) PROVE Follows(u, g[Len(u.out)], bytes, n)
    OBVIOUS
  <2>1. WideMove(s, bytes[n], u) /\ n - 1 + 1 = n /\ s \in Wide
    BY <1>1, <1>2
  <2>2. /\ Begins(s.out, data)
        /\ s.bits \in {0, 1} => Len(u.out) = k + 1 /\ k + 1 \in 1..Len(data)
        /\ s.bits \in {2, 3, 4} => Len(u.out) = k + 2 /\ k + 1 \in 1..Len(data) /\ k + 2 \in 1..Len(data)
    <3> HIDE DEF s, u
    <3> QED BY <2>0, <2>1, WideGrows DEF k
  <2>3. Follows(s, g[k], bytes, n - 1)
    BY <1>5, <2>2
  <2>4. Reads(s, g[k], u, bytes, data, n - 1)
    <3> HIDE DEF s, u, k
    <3> QED BY <1>1, <2>0, <2>1, <2>3 DEF Reads
  <2>5. k \in Nat /\ s.bits \in 0..4 /\ k + 1 - 1 = k /\ k + 2 - 1 = k + 1
    <3>1. s.out \in Seq(Symbols) /\ s.bits \in 0..4
      BY <2>1 DEF Wide
    <3> QED BY <3>1
  <2>6. k + 1 \in 1..Len(data) => NarrowMove(g[k], data[k + 1], g[k + 1])
    <3> HIDE DEF k
    <3> QED BY <1>3, <2>5
  <2>7. k + 2 \in 1..Len(data) => NarrowMove(g[k + 1], data[k + 2], g[k + 2])
    <3> HIDE DEF k
    <3> QED BY <1>3, <2>5
  <2> HIDE DEF s, u, Good, Kept
  <2>8. Follows(u, g[Len(u.out)], bytes, n - 1 + 1)
    <3>1. CASE s.bits = 0
      BY <2>2, <2>4, <2>6, <3>1, FollowNoBits DEF k
    <3>2. CASE s.bits = 1
      BY <2>2, <2>4, <2>6, <3>2, FollowOneBits DEF k
    <3>3. CASE s.bits = 2
      BY <2>2, <2>4, <2>6, <2>7, <3>3, FollowTwoBits DEF k
    <3>4. CASE s.bits = 3
      BY <2>2, <2>4, <2>6, <2>7, <3>4, FollowThreeBits DEF k
    <3>5. CASE s.bits = 4
      BY <2>2, <2>4, <2>6, <2>7, <3>5, FollowFourBits DEF k
    <3> QED BY <2>5, <3>1, <3>2, <3>3, <3>4, <3>5
  <2> QED BY <2>1, <2>8
<1> HIDE DEF Kept
<1>6. \A n \in 0..N : n \in Kept
  BY <1>1, <1>4, <1>5, InductionUpTo
<1>7. N \in Kept
  BY <1>1, <1>6
<1> QED
  BY <1>7 DEF Kept

\* Bits come in, and go out or are left over.
LEMMA WideLengths ==
  ASSUME NEW bytes \in Seq(Bytes), NEW e, e = Stages(bytes, 8, 5)[Len(bytes)]
  PROVE  e \in Wide /\ e.bits + 5 * Len(e.out) = 8 * Len(bytes)
<1> DEFINE N    == Len(bytes)
           f    == Stages(bytes, 8, 5)
           Kept == {n \in 0..N : f[n].bits + 5 * Len(f[n].out) = 8 * n}
<1>1. N \in Nat
  OBVIOUS
<1>2. /\ f[0] = Start /\ \A n \in 0..N : f[n] \in Wide
      /\ \A n \in 1..N : WideMove(f[n - 1], bytes[n], f[n])
  BY WideStages
<1> HIDE DEF f
<1>3. 0 \in Kept
  BY <1>1, <1>2 DEF Start
<1>4. ASSUME NEW n \in 1..N, n - 1 \in Kept PROVE n \in Kept
  <2>1. f[n].bits + 5 * Len(f[n].out) = f[n - 1].bits + 5 * Len(f[n - 1].out) + 8
    BY <1>2, WideGrows
  <2>2. f[n - 1].bits + 5 * Len(f[n - 1].out) = 8 * (n - 1)
    BY <1>4
  <2> QED BY <2>1, <2>2
<1> HIDE DEF Kept
<1>5. \A n \in 0..N : n \in Kept
  BY <1>1, <1>3, <1>4, InductionUpTo
<1> QED
  BY <1>1, <1>2, <1>5 DEF Kept, f

\* The symbols of bytes.
SymbolsOf(bytes) == ConvertBits(bytes, 8, 5, TRUE).out

\* The bytes of symbols.
BytesOf(data) == ConvertBits(data, 5, 8, FALSE)

\* The symbols of bytes are as many as their bits need, and no more.
LEMMA SymbolsOfAre ==
  ASSUME NEW bytes \in Seq(Bytes), NEW e, e = Stages(bytes, 8, 5)[Len(bytes)]
  PROVE  /\ e \in Wide /\ SymbolsOf(bytes) \in Seq(Symbols)
         /\ e.bits = 0 => SymbolsOf(bytes) = e.out
         /\ e.bits # 0 => SymbolsOf(bytes) = Append(e.out, Rest(e, 5))
         /\ 8 * Len(bytes) <= 5 * Len(SymbolsOf(bytes)) /\ 5 * Len(SymbolsOf(bytes)) < 8 * Len(bytes) + 5
<1>1. e \in Wide /\ e.bits + 5 * Len(e.out) = 8 * Len(bytes)
  BY WideLengths
<1>2. e.bits \in 0..4 /\ e.out \in Seq(Symbols) /\ Len(e.out) \in Nat /\ Len(bytes) \in Nat
  <2>1. e.bits \in 0..4 /\ e.out \in Seq(Symbols)
    BY ONLY <1>1, WideTypes
  <2>2. Len(e.out) \in Nat
    BY ONLY <2>1
  <2>3. Len(bytes) \in Nat
    OBVIOUS
  <2> QED BY ONLY <2>1, <2>2, <2>3
<1>3. Regroup(bytes, 8, 5) = [out |-> e.out, bits |-> e.bits, rest |-> Rest(e, 5)]
  BY RegroupIs
<1>4. SymbolsOf(bytes) = IF e.bits > 0 THEN Append(e.out, Rest(e, 5)) ELSE e.out
  BY <1>3 DEF SymbolsOf, ConvertBits
<1>5. Rest(e, 5) \in Symbols
  BY <1>1, WideRest
<1>6. CASE e.bits = 0
  <2>1. SymbolsOf(bytes) = e.out
    BY <1>2, <1>4, <1>6
  <2> QED BY <1>1, <1>2, <1>6, <2>1
<1>7. CASE e.bits # 0
  <2>1. SymbolsOf(bytes) = Append(e.out, Rest(e, 5))
    BY <1>2, <1>4, <1>7
  <2>2. SymbolsOf(bytes) \in Seq(Symbols) /\ Len(SymbolsOf(bytes)) = Len(e.out) + 1
    BY <1>2, <1>5, <2>1
  <2>3. 5 * Len(SymbolsOf(bytes)) = 5 * Len(e.out) + 5
    BY <1>2, <2>2
  <2>4. e.bits \in 1..4
    BY <1>2, <1>7
  <2>5. 8 * Len(bytes) <= 5 * Len(SymbolsOf(bytes)) /\ 5 * Len(SymbolsOf(bytes)) < 8 * Len(bytes) + 5
    <3>1. PICK m \in Nat, c \in Nat, b \in 1..4, d \in Int : m = Len(bytes) /\ c = Len(e.out) /\ b = e.bits /\ d = 5 * Len(SymbolsOf(bytes))
      BY <1>2, <2>3, <2>4
    <3>2. b + 5 * c = 8 * m /\ d = 5 * c + 5
      BY <1>1, <2>3, <3>1
    <3>3. 8 * m <= d /\ d < 8 * m + 5
      BY <3>2
    <3> QED BY <3>1, <3>3
  <2> QED BY <1>1, <1>7, <2>1, <2>2, <2>5
<1> QED
  BY <1>6, <1>7

\* Bytes become symbols, and the symbols become the bytes again.
THEOREM EncodedIsDecoded ==
  ASSUME NEW bytes \in Seq(Bytes)
  PROVE  BytesOf(SymbolsOf(bytes)) = [ok |-> TRUE, out |-> bytes]
<1> DEFINE data == SymbolsOf(bytes)
           N    == Len(bytes)
           f    == Stages(bytes, 8, 5)
           g    == Stages(data, 5, 8)
           e    == f[N]
           k    == Len(e.out)
           end  == g[Len(data)]
<1>1. /\ e \in Wide /\ data \in Seq(Symbols) /\ e.bits \in 0..4 /\ e.out \in Seq(Symbols) /\ k \in Nat
      /\ e.bits = 0 => data = e.out
      /\ e.bits # 0 => data = Append(e.out, Rest(e, 5))
  <2>1. /\ e \in Wide /\ data \in Seq(Symbols)
        /\ e.bits = 0 => data = e.out
        /\ e.bits # 0 => data = Append(e.out, Rest(e, 5))
    BY SymbolsOfAre
  <2> HIDE DEF e, data
  <2>2. e.bits \in 0..4 /\ e.out \in Seq(Symbols)
    BY ONLY <2>1, WideTypes
  <2>3. k \in Nat
    BY ONLY <2>2
  <2> QED BY <2>1, <2>2, <2>3
<1>2. /\ g[0] = Start /\ \A n \in 0..Len(data) : g[n] \in Narrow
      /\ \A n \in 1..Len(data) : NarrowMove(g[n - 1], data[n], g[n])
  <2> HIDE DEF data
  <2> QED BY <1>1, NarrowStages
<1> HIDE DEF data, e
<1>3. Begins(e.out, data) /\ (e.bits = 0 => k = Len(data)) /\ (e.bits # 0 => k + 1 = Len(data) /\ data[k + 1] = Rest(e, 5))
  <2>1. CASE e.bits = 0
    BY <1>1, <2>1 DEF Begins
  <2>2. CASE e.bits # 0
    <3>1. /\ Len(data) = k + 1 /\ data[k + 1] = Rest(e, 5)
          /\ \A i \in 1..k : data[i] = e.out[i]
      BY <1>1, <2>2
    <3> QED BY <1>1, <2>2, <3>1 DEF Begins
  <2> QED BY <2>1, <2>2
<1>4. Follows(e, g[k], bytes, N)
  <2>1. Begins(f[Len(bytes)].out, data)
    BY <1>3 DEF e
  <2>2. Follows(f[Len(bytes)], g[Len(f[Len(bytes)].out)], bytes, Len(bytes))
    <3> HIDE DEF f, g
    <3> QED BY <1>1, <2>1, DecodeFollows DEF f, g
  <2> QED BY <2>2 DEF e
<1> HIDE DEF g, f, k
<1>5. end \in Narrow /\ Len(data) \in Nat /\ N \in Nat
  BY <1>1, <1>2
<1>6. end.out = bytes /\ end.bits < 5 /\ Pending(end) = 0
  <2>0. e.bits # 0 => /\ k + 1 = Len(data) /\ k + 1 - 1 = k
                      /\ NarrowMove(g[k], Rest(e, 5), end)
    <3>1. k \in Nat
      BY <1>1 DEF k
    <3> QED BY <1>2, <1>3, <3>1
  <2>1. CASE e.bits = 0
    <3>1. end.bits = 0 /\ Len(end.out) = N /\ Begins(end.out, bytes)
      BY <1>3, <1>4, <2>1 DEF Follows
    <3>2. end.out \in Seq(Bytes)
      BY <1>5 DEF Narrow
    <3>3. end.out = bytes
      BY <3>1, <3>2, SameSequence
    <3> QED BY <1>5, <3>1, <3>3, PendingRange
  <2>2. CASE e.bits # 0
    <3> DEFINE t == g[k]
               p == Pending(e)
               q == Pending(t)
    <3>1. /\ t \in Narrow /\ Begins(t.out, bytes) /\ N > 0 /\ Len(t.out) = N - 1
          /\ \/ e.bits = 1 /\ t.bits = 7 /\ bytes[N] = q * 2 + p
             \/ e.bits = 2 /\ t.bits = 6 /\ bytes[N] = q * 4 + p
             \/ e.bits = 3 /\ t.bits = 5 /\ bytes[N] = q * 8 + p
             \/ e.bits = 4 /\ t.bits = 4 /\ bytes[N] = q * 16 + p
      BY <1>4, <2>2 DEF Follows
    <3>2. /\ e.bits = 1 => p \in 0..1 /\ Rest(e, 5) = p * 16
          /\ e.bits = 2 => p \in 0..3 /\ Rest(e, 5) = p * 8
          /\ e.bits = 3 => p \in 0..7 /\ Rest(e, 5) = p * 4
          /\ e.bits = 4 => p \in 0..15 /\ Rest(e, 5) = p * 2
      BY <1>1, PendingRange, WideRest
    <3>3. NarrowMove(t, Rest(e, 5), end)
      BY <2>0, <2>2
    <3> HIDE DEF t, p, q
    <3>4. end.out = Append(t.out, bytes[N]) /\ end.bits < 5 /\ Pending(end) = 0
      <4>1. CASE e.bits = 1
        <5>1. PICK r : r = p * 16 /\ p \in 0..1
          BY <3>2, <4>1
        <5>2. end.bits = 4 /\ end.out = Append(t.out, q * 2 + r \div 16) /\ Pending(end) = r % 16
          BY <3>1, <3>2, <3>3, <4>1, <5>1, NarrowStep DEF q
        <5>3. r \div 16 = p /\ r % 16 = 0
          BY <5>1
        <5> QED BY <3>1, <4>1, <5>2, <5>3
      <4>2. CASE e.bits = 2
        <5>1. PICK r : r = p * 8 /\ p \in 0..3
          BY <3>2, <4>2
        <5>2. end.bits = 3 /\ end.out = Append(t.out, q * 4 + r \div 8) /\ Pending(end) = r % 8
          BY <3>1, <3>2, <3>3, <4>2, <5>1, NarrowStep DEF q
        <5>3. r \div 8 = p /\ r % 8 = 0
          BY <5>1
        <5> QED BY <3>1, <4>2, <5>2, <5>3
      <4>3. CASE e.bits = 3
        <5>1. PICK r : r = p * 4 /\ p \in 0..7
          BY <3>2, <4>3
        <5>2. end.bits = 2 /\ end.out = Append(t.out, q * 8 + r \div 4) /\ Pending(end) = r % 4
          BY <3>1, <3>2, <3>3, <4>3, <5>1, NarrowStep DEF q
        <5>3. r \div 4 = p /\ r % 4 = 0
          BY <5>1
        <5> QED BY <3>1, <4>3, <5>2, <5>3
      <4>4. CASE e.bits = 4
        <5>1. PICK r : r = p * 2 /\ p \in 0..15
          BY <3>2, <4>4
        <5>2. end.bits = 1 /\ end.out = Append(t.out, q * 16 + r \div 2) /\ Pending(end) = r % 2
          BY <3>1, <3>2, <3>3, <4>4, <5>1, NarrowStep DEF q
        <5>3. r \div 2 = p /\ r % 2 = 0
          BY <5>1
        <5> QED BY <3>1, <4>4, <5>2, <5>3
      <4> QED BY <3>1, <4>1, <4>2, <4>3, <4>4
    <3>5. t.out \in Seq(Bytes) /\ N \in 1..Len(bytes) /\ bytes[N] \in Bytes
      <4>1. t.out \in Seq(Bytes)
        BY <3>1, NarrowTypes
      <4>2. N \in 1..Len(bytes)
        BY <1>5, <3>1
      <4> QED BY <4>1, <4>2
    <3>6. Begins(Append(t.out, bytes[N]), bytes) /\ Len(Append(t.out, bytes[N])) = N
      <4>1. Len(t.out) + 1 = N /\ Len(t.out) < Len(bytes)
        BY <1>5, <3>1
      <4>2. PICK x \in Bytes : x = bytes[N]
        BY <3>5
      <4>3. Len(Append(t.out, x)) = Len(t.out) + 1 /\ Begins(Append(t.out, x), bytes)
        <5>1. PICK out \in Seq(Bytes) : out = t.out
          BY <3>5
        <5>2. Begins(out, bytes) /\ Len(out) < Len(bytes) /\ bytes[Len(out) + 1] = x
          BY <3>1, <4>1, <4>2, <5>1
        <5>3. Len(Append(out, x)) = Len(out) + 1 /\ Begins(Append(out, x), bytes)
          BY ONLY bytes \in Seq(Bytes), <5>2, AppendBegins
        <5> QED BY <5>1, <5>3
      <4> QED BY <4>1, <4>2, <4>3
    <3>7. end.out = bytes
      <4>1. Append(t.out, bytes[N]) \in Seq(Bytes)
        BY <3>5
      <4> QED BY <3>4, <3>6, <4>1, SameSequence
    <3> QED BY <3>4, <3>7
  <2> QED BY <2>1, <2>2
<1>7. Rest(end, 8) = 0
  BY <1>5, <1>6, NarrowRest
<1>8. Regroup(data, 5, 8) = [out |-> end.out, bits |-> end.bits, rest |-> Rest(end, 8)]
  BY RegroupIs DEF g
<1> HIDE DEF end
<1>9. BytesOf(data) = [ok |-> TRUE, out |-> bytes]
  <2> DEFINE groups == Regroup(data, 5, 8)
  <2>1. groups.out = bytes /\ groups.bits = end.bits /\ groups.rest = 0
    BY <1>6, <1>7, <1>8
  <2>2. groups.bits < 5
    BY <1>6, <2>1
  <2>3. BytesOf(data) = [ok |-> groups.bits < 5 /\ groups.rest = 0, out |-> groups.out]
    BY DEF BytesOf, ConvertBits
  <2> HIDE DEF groups
  <2>4. (groups.bits < 5 /\ groups.rest = 0) = TRUE
    BY <2>1, <2>2
  <2> QED BY <2>1, <2>3, <2>4
<1> QED
  BY <1>9 DEF data

-----------------------------------------------------------------------------
(* ConvertBits: bytes that were symbols become these symbols again.        *)

\* A symbol brings out one byte or none.
LEMMA NarrowGrows ==
  ASSUME NEW s, NEW v, NEW t, NarrowMove(s, v, t)
  PROVE  t.bits + 8 * Len(t.out) = s.bits + 8 * Len(s.out) + 5
<1>1. s.bits \in 0..7 /\ s.out \in Seq(Bytes)
  BY DEF NarrowMove, Narrow
<1>2. PICK k \in Nat : k = Len(s.out)
  BY <1>1
<1>3. t \in Narrow
  BY NarrowTyped
<1>4. CASE s.bits \in {0, 1, 2}
  <2>1. t.bits = s.bits + 5 /\ t.out = s.out
    BY <1>4, NarrowStep
  <2> QED BY <1>1, <1>2, <2>1
<1>5. CASE s.bits \in {3, 4, 5, 6, 7}
  <2>1. t.bits = s.bits - 3 /\ \E x : t.out = Append(s.out, x)
    <3> DEFINE Grown(bits, x) == t.bits = bits /\ t.out = Append(s.out, x)
    <3>1. s.bits = 3 => Grown(0, Pending(s) * 32 + v)
      BY NarrowStep
    <3>2. s.bits = 4 => Grown(1, Pending(s) * 16 + v \div 2)
      BY NarrowStep
    <3>3. s.bits = 5 => Grown(2, Pending(s) * 8 + v \div 4)
      BY NarrowStep
    <3>4. s.bits = 6 => Grown(3, Pending(s) * 4 + v \div 8)
      BY NarrowStep
    <3>5. s.bits = 7 => Grown(4, Pending(s) * 2 + v \div 16)
      BY NarrowStep
    <3>6. \E x : Grown(s.bits - 3, x)
      <4> HIDE DEF Grown
      <4> QED BY <1>5, <3>1, <3>2, <3>3, <3>4, <3>5
    <3> QED BY <3>6
  <2>2. Len(t.out) = k + 1
    BY <1>1, <1>2, <2>1
  <2> QED BY <1>1, <1>2, <2>1, <2>2
<1> QED
  BY <1>1, <1>4, <1>5

\* After each symbol, all bits are out or left over.
LEMMA NarrowLengths ==
  ASSUME NEW data \in Seq(Symbols), NEW g, g = Stages(data, 5, 8)
  PROVE  \A n \in 0..Len(data) : g[n] \in Narrow /\ g[n].bits + 8 * Len(g[n].out) = 5 * n
<1> DEFINE N    == Len(data)
           Kept == {n \in 0..N : g[n].bits + 8 * Len(g[n].out) = 5 * n}
<1>1. N \in Nat
  OBVIOUS
<1>2. /\ g[0] = Start /\ \A n \in 0..N : g[n] \in Narrow
      /\ \A n \in 1..N : NarrowMove(g[n - 1], data[n], g[n])
  BY NarrowStages
<1>3. 0 \in Kept
  BY <1>1, <1>2 DEF Start
<1>4. ASSUME NEW n \in 1..N, n - 1 \in Kept PROVE n \in Kept
  <2>1. g[n].bits + 8 * Len(g[n].out) = g[n - 1].bits + 8 * Len(g[n - 1].out) + 5
    BY <1>2, NarrowGrows
  <2>2. g[n - 1].bits + 8 * Len(g[n - 1].out) = 5 * (n - 1)
    BY <1>4
  <2> QED BY <2>1, <2>2
<1> HIDE DEF Kept
<1>5. \A n \in 0..N : n \in Kept
  BY <1>1, <1>3, <1>4, InductionUpTo
<1> QED
  BY <1>1, <1>2, <1>5 DEF Kept

\* The last of a sequence, and what is in front of it.
LEMMA AppendTwice ==
  ASSUME NEW S, NEW a \in Seq(S), NEW b \in Seq(S), NEW x, NEW y, Append(a, x) = Append(b, y)
  PROVE  a = b /\ x = y
<1>1. Len(Append(a, x)) = Len(a) + 1 /\ Len(Append(b, y)) = Len(b) + 1 /\ Len(a) \in Nat /\ Len(b) \in Nat
  OBVIOUS
<1>2. Len(a) = Len(b)
  BY <1>1
<1>3. Append(a, x)[Len(a) + 1] = x /\ Append(b, y)[Len(b) + 1] = y
  OBVIOUS
<1>4. \A i \in 1..Len(a) : Append(a, x)[i] = a[i] /\ Append(b, y)[i] = b[i]
  BY <1>2
<1> QED
  BY <1>2, <1>3, <1>4

\* Two steps that lead to the same bits begin with the same bits and the same symbol.
Meet(s, v, t, s2, v2, t2) ==
  /\ NarrowMove(s, v, t) /\ NarrowMove(s2, v2, t2)
  /\ s.bits = s2.bits /\ t.out = t2.out /\ Pending(t) = Pending(t2)

\* The state before a symbol, and the symbol, are known from the state after it.
LEMMA NarrowBack ==
  ASSUME NEW s, NEW v, NEW t, NEW s2, NEW v2, NEW t2, Meet(s, v, t, s2, v2, t2)
  PROVE  s.out = s2.out /\ Pending(s) = Pending(s2) /\ v = v2
<1>1. /\ NarrowMove(s, v, t) /\ NarrowMove(s2, v2, t2) /\ s2.bits = s.bits
      /\ t.out = t2.out /\ Pending(t) = Pending(t2)
  BY DEF Meet
<1>2. /\ s \in Narrow /\ s2 \in Narrow /\ s.bits \in 0..7 /\ s.out \in Seq(Bytes) /\ s2.out \in Seq(Bytes)
      /\ v \in 0..31 /\ v2 \in 0..31
  <2>1. s \in Narrow /\ s2 \in Narrow /\ v \in Symbols /\ v2 \in Symbols
    BY <1>1, Zenon DEF NarrowMove
  <2> QED BY <2>1, NarrowTypes DEF Symbols
<1> DEFINE p == Pending(s)
           q == Pending(s2)
<1>3. CASE s.bits = 0
  <2>1. p \in 0..0 /\ q \in 0..0
    <3>1. p \in 0..0
      BY <1>2, <1>3, PendingRange
    <3>2. s2 \in Wide \cup Narrow /\ s2.bits = 0
      BY <1>1, <1>2, <1>3
    <3>3. q \in 0..0
      BY ONLY <3>2, PendingRange DEF q
    <3> QED BY <3>1, <3>3
  <2>2. /\ t.out = s.out /\ Pending(t) = v
        /\ t2.out = s2.out /\ Pending(t2) = v2
    BY <1>1, <1>3, NarrowStep
  <2> HIDE DEF p, q
  <2>3. s.out = s2.out
    BY <1>1, <2>2
  <2>4. v = v2
    BY <1>1, <2>2
  <2>5. p = q /\ v = v2
    BY <1>2, <2>1, <2>4
  <2> QED BY <2>3, <2>5 DEF p, q
<1>4. CASE s.bits = 1
  <2>1. p \in 0..1 /\ q \in 0..1
    <3>1. p \in 0..1
      BY <1>2, <1>4, PendingRange
    <3>2. s2 \in Wide \cup Narrow /\ s2.bits = 1
      BY <1>1, <1>2, <1>4
    <3>3. q \in 0..1
      BY ONLY <3>2, PendingRange DEF q
    <3> QED BY <3>1, <3>3
  <2>2. /\ t.out = s.out /\ Pending(t) = p * 32 + v
        /\ t2.out = s2.out /\ Pending(t2) = q * 32 + v2
    BY <1>1, <1>4, NarrowStep
  <2> HIDE DEF p, q
  <2>3. s.out = s2.out
    BY <1>1, <2>2
  <2>4. p * 32 + v = q * 32 + v2
    BY <1>1, <2>2
  <2>5. p = q /\ v = v2
    BY <1>2, <2>1, <2>4
  <2> QED BY <2>3, <2>5 DEF p, q
<1>5. CASE s.bits = 2
  <2>1. p \in 0..3 /\ q \in 0..3
    <3>1. p \in 0..3
      BY <1>2, <1>5, PendingRange
    <3>2. s2 \in Wide \cup Narrow /\ s2.bits = 2
      BY <1>1, <1>2, <1>5
    <3>3. q \in 0..3
      BY ONLY <3>2, PendingRange DEF q
    <3> QED BY <3>1, <3>3
  <2>2. /\ t.out = s.out /\ Pending(t) = p * 32 + v
        /\ t2.out = s2.out /\ Pending(t2) = q * 32 + v2
    BY <1>1, <1>5, NarrowStep
  <2> HIDE DEF p, q
  <2>3. s.out = s2.out
    BY <1>1, <2>2
  <2>4. p * 32 + v = q * 32 + v2
    BY <1>1, <2>2
  <2>5. p = q /\ v = v2
    BY <1>2, <2>1, <2>4
  <2> QED BY <2>3, <2>5 DEF p, q
<1>6. CASE s.bits = 3
  <2>1. p \in 0..7 /\ q \in 0..7
    <3>1. p \in 0..7
      BY <1>2, <1>6, PendingRange
    <3>2. s2 \in Wide \cup Narrow /\ s2.bits = 3
      BY <1>1, <1>2, <1>6
    <3>3. q \in 0..7
      BY ONLY <3>2, PendingRange DEF q
    <3> QED BY <3>1, <3>3
  <2>2. /\ t.out = Append(s.out, p * 32 + v)
        /\ t2.out = Append(s2.out, q * 32 + v2)
    BY <1>1, <1>6, NarrowStep
  <2> HIDE DEF p, q
  <2>3. s.out = s2.out /\ p * 32 + v = q * 32 + v2
    <3>1. PICK x, y : x = p * 32 + v /\ y = q * 32 + v2
      OBVIOUS
    <3>2. Append(s.out, x) = Append(s2.out, y)
      BY <1>1, <2>2, <3>1
    <3>3. PICK a \in Seq(Bytes), b \in Seq(Bytes) : a = s.out /\ b = s2.out
      BY <1>2
    <3>4. Append(a, x) = Append(b, y)
      BY <3>2, <3>3
    <3>5. a = b /\ x = y
      BY <3>4, AppendTwice
    <3> QED BY <3>1, <3>3, <3>5
  <2>5. p = q /\ v = v2
    BY <1>2, <2>1, <2>3
  <2> QED BY <2>3, <2>5 DEF p, q
<1>7. CASE s.bits = 4
  <2>1. p \in 0..15 /\ q \in 0..15
    <3>1. p \in 0..15
      BY <1>2, <1>7, PendingRange
    <3>2. s2 \in Wide \cup Narrow /\ s2.bits = 4
      BY <1>1, <1>2, <1>7
    <3>3. q \in 0..15
      BY ONLY <3>2, PendingRange DEF q
    <3> QED BY <3>1, <3>3
  <2>2. /\ t.out = Append(s.out, p * 16 + v \div 2) /\ Pending(t) = v % 2
        /\ t2.out = Append(s2.out, q * 16 + v2 \div 2) /\ Pending(t2) = v2 % 2
    BY <1>1, <1>7, NarrowStep
  <2> HIDE DEF p, q
  <2>3. s.out = s2.out /\ p * 16 + v \div 2 = q * 16 + v2 \div 2
    <3>1. PICK x, y : x = p * 16 + v \div 2 /\ y = q * 16 + v2 \div 2
      OBVIOUS
    <3>2. Append(s.out, x) = Append(s2.out, y)
      BY <1>1, <2>2, <3>1
    <3>3. PICK a \in Seq(Bytes), b \in Seq(Bytes) : a = s.out /\ b = s2.out
      BY <1>2
    <3>4. Append(a, x) = Append(b, y)
      BY <3>2, <3>3
    <3>5. a = b /\ x = y
      BY <3>4, AppendTwice
    <3> QED BY <3>1, <3>3, <3>5
  <2>4. v % 2 = v2 % 2
    BY <1>1, <2>2
  <2>5. p = q /\ v = v2
    BY <1>2, <2>1, <2>3, <2>4
  <2> QED BY <2>3, <2>5 DEF p, q
<1>8. CASE s.bits = 5
  <2>1. p \in 0..31 /\ q \in 0..31
    <3>1. p \in 0..31
      BY <1>2, <1>8, PendingRange
    <3>2. s2 \in Wide \cup Narrow /\ s2.bits = 5
      BY <1>1, <1>2, <1>8
    <3>3. q \in 0..31
      BY ONLY <3>2, PendingRange DEF q
    <3> QED BY <3>1, <3>3
  <2>2. /\ t.out = Append(s.out, p * 8 + v \div 4) /\ Pending(t) = v % 4
        /\ t2.out = Append(s2.out, q * 8 + v2 \div 4) /\ Pending(t2) = v2 % 4
    BY <1>1, <1>8, NarrowStep
  <2> HIDE DEF p, q
  <2>3. s.out = s2.out /\ p * 8 + v \div 4 = q * 8 + v2 \div 4
    <3>1. PICK x, y : x = p * 8 + v \div 4 /\ y = q * 8 + v2 \div 4
      OBVIOUS
    <3>2. Append(s.out, x) = Append(s2.out, y)
      BY <1>1, <2>2, <3>1
    <3>3. PICK a \in Seq(Bytes), b \in Seq(Bytes) : a = s.out /\ b = s2.out
      BY <1>2
    <3>4. Append(a, x) = Append(b, y)
      BY <3>2, <3>3
    <3>5. a = b /\ x = y
      BY <3>4, AppendTwice
    <3> QED BY <3>1, <3>3, <3>5
  <2>4. v % 4 = v2 % 4
    BY <1>1, <2>2
  <2>5. p = q /\ v = v2
    BY <1>2, <2>1, <2>3, <2>4
  <2> QED BY <2>3, <2>5 DEF p, q
<1>9. CASE s.bits = 6
  <2>1. p \in 0..63 /\ q \in 0..63
    <3>1. s \in Wide \cup Narrow /\ s2 \in Wide \cup Narrow /\ s.bits = 6 /\ s2.bits = 6
      BY <1>1, <1>2, <1>9
    <3> QED BY <3>1, PendingRange
  <2>2. /\ t.out = Append(s.out, p * 4 + v \div 8) /\ Pending(t) = v % 8
        /\ t2.out = Append(s2.out, q * 4 + v2 \div 8) /\ Pending(t2) = v2 % 8
    BY <1>1, <1>9, NarrowStep
  <2> HIDE DEF p, q
  <2>3. s.out = s2.out /\ p * 4 + v \div 8 = q * 4 + v2 \div 8
    <3>1. PICK x, y : x = p * 4 + v \div 8 /\ y = q * 4 + v2 \div 8
      OBVIOUS
    <3>2. Append(s.out, x) = Append(s2.out, y)
      BY <1>1, <2>2, <3>1
    <3>3. PICK a \in Seq(Bytes), b \in Seq(Bytes) : a = s.out /\ b = s2.out
      BY <1>2
    <3>4. Append(a, x) = Append(b, y)
      BY <3>2, <3>3
    <3>5. a = b /\ x = y
      BY <3>4, AppendTwice
    <3> QED BY <3>1, <3>3, <3>5
  <2>4. v % 8 = v2 % 8
    BY <1>1, <2>2
  <2>5. p = q /\ v = v2
    BY <1>2, <2>1, <2>3, <2>4
  <2> QED BY <2>3, <2>5 DEF p, q
<1>10. CASE s.bits = 7
  <2>1. p \in 0..127 /\ q \in 0..127
    <3>1. p \in 0..127
      BY <1>2, <1>10, PendingRange
    <3>2. s2 \in Wide \cup Narrow /\ s2.bits = 7
      BY <1>1, <1>2, <1>10
    <3>3. q \in 0..127
      BY ONLY <3>2, PendingRange DEF q
    <3> QED BY <3>1, <3>3
  <2>2. /\ t.out = Append(s.out, p * 2 + v \div 16) /\ Pending(t) = v % 16
        /\ t2.out = Append(s2.out, q * 2 + v2 \div 16) /\ Pending(t2) = v2 % 16
    BY <1>1, <1>10, NarrowStep
  <2> HIDE DEF p, q
  <2>3. s.out = s2.out /\ p * 2 + v \div 16 = q * 2 + v2 \div 16
    <3>1. PICK x, y : x = p * 2 + v \div 16 /\ y = q * 2 + v2 \div 16
      OBVIOUS
    <3>2. Append(s.out, x) = Append(s2.out, y)
      BY <1>1, <2>2, <3>1
    <3>3. PICK a \in Seq(Bytes), b \in Seq(Bytes) : a = s.out /\ b = s2.out
      BY <1>2
    <3>4. Append(a, x) = Append(b, y)
      BY <3>2, <3>3
    <3>5. a = b /\ x = y
      BY <3>4, AppendTwice
    <3> QED BY <3>1, <3>3, <3>5
  <2>4. v % 16 = v2 % 16
    BY <1>1, <2>2
  <2>5. p = q /\ v = v2
    BY <1>2, <2>1, <2>3, <2>4
  <2> QED BY <2>3, <2>5 DEF p, q
<1> QED
  BY <1>2, <1>3, <1>4, <1>5, <1>6, <1>7, <1>8, <1>9, <1>10

\* Symbols that end in the right bits, behind so many whole bytes.
LEMMA DecodedIs ==
  ASSUME NEW data \in Seq(Symbols), NEW g, g = Stages(data, 5, 8), BytesOf(data).ok
  PROVE  /\ BytesOf(data).out = g[Len(data)].out /\ g[Len(data)].out \in Seq(Bytes)
         /\ g[Len(data)].bits < 5 /\ Pending(g[Len(data)]) = 0
         /\ 8 * Len(g[Len(data)].out) <= 5 * Len(data) /\ 5 * Len(data) < 8 * Len(g[Len(data)].out) + 5
<1> DEFINE end    == g[Len(data)]
           groups == Regroup(data, 5, 8)
<1>1. end \in Narrow /\ end.bits + 8 * Len(end.out) = 5 * Len(data) /\ Len(data) \in Nat
  <2>1. \A n \in 0..Len(data) : g[n] \in Narrow /\ g[n].bits + 8 * Len(g[n].out) = 5 * n
    BY NarrowLengths
  <2>2. Len(data) \in Nat /\ Len(data) \in 0..Len(data)
    OBVIOUS
  <2> QED BY <2>1, <2>2
<1>2. groups = [out |-> end.out, bits |-> end.bits, rest |-> Rest(end, 8)]
  BY RegroupIs
<1>3. BytesOf(data) = [ok |-> groups.bits < 5 /\ groups.rest = 0, out |-> groups.out]
  BY DEF BytesOf, ConvertBits
<1> HIDE DEF groups, end
<1>4. groups.bits < 5 /\ groups.rest = 0 /\ BytesOf(data).out = groups.out
  <2>1. /\ BytesOf(data).ok = (groups.bits < 5 /\ groups.rest = 0)
        /\ BytesOf(data).out = groups.out
    <3>1. PICK ok, out : ok = (groups.bits < 5 /\ groups.rest = 0) /\ out = groups.out
      OBVIOUS
    <3>2. BytesOf(data) = [ok |-> ok, out |-> out]
      BY <1>3, <3>1
    <3>3. BytesOf(data).ok = ok /\ BytesOf(data).out = out
      BY <3>2
    <3> QED BY <3>1, <3>3
  <2> QED BY <2>1
<1>5. end.bits < 5 /\ Rest(end, 8) = 0 /\ BytesOf(data).out = end.out
  BY <1>2, <1>4
<1>6. end.out \in Seq(Bytes) /\ end.bits \in 0..7
  BY <1>1 DEF Narrow
<1>7. 8 * Len(end.out) <= 5 * Len(data) /\ 5 * Len(data) < 8 * Len(end.out) + 5
  <2>1. PICK m \in Nat, c \in Nat, b \in 0..7 : m = Len(data) /\ c = Len(end.out) /\ b = end.bits
    BY <1>1, <1>6
  <2>2. b + 8 * c = 5 * m /\ b < 5
    BY <1>1, <1>5, <2>1
  <2>3. 8 * c <= 5 * m /\ 5 * m < 8 * c + 5
    BY ONLY <2>2
  <2> QED BY <2>1, <2>3
<1>8. Pending(end) = 0
  BY <1>1, <1>5, NarrowRest
<1> QED
  BY <1>5, <1>6, <1>7, <1>8 DEF end

\* No other symbols are taken for the same bytes.
LEMMA DecodedOnce ==
  ASSUME NEW data \in Seq(Symbols), NEW other \in Seq(Symbols),
         BytesOf(data).ok, BytesOf(other).ok,
         BytesOf(data).out = BytesOf(other).out
  PROVE  data = other
<1> DEFINE f == Stages(data, 5, 8)
           g == Stages(other, 5, 8)
           N == Len(data)
<1>1. PICK c \in Nat : c = Len(f[N].out)
  <2>1. f[N].out \in Seq(Bytes)
    BY DecodedIs
  <2> QED BY <2>1
<1>2. /\ f[N].out = g[Len(other)].out /\ Pending(f[N]) = 0 /\ Pending(g[Len(other)]) = 0
      /\ 8 * c <= 5 * N /\ 5 * N < 8 * c + 5
      /\ 8 * c <= 5 * Len(other) /\ 5 * Len(other) < 8 * c + 5
  <2>1. f[N].out = g[Len(other)].out
    BY DecodedIs
  <2>2. /\ Pending(f[N]) = 0 /\ 8 * c <= 5 * N /\ 5 * N < 8 * c + 5
    <3>1. /\ Pending(f[N]) = 0 /\ 8 * Len(f[N].out) <= 5 * N /\ 5 * N < 8 * Len(f[N].out) + 5
      BY DecodedIs
    <3> QED BY <1>1, <3>1
  <2>3. /\ Pending(g[Len(other)]) = 0 /\ 8 * c <= 5 * Len(other) /\ 5 * Len(other) < 8 * c + 5
    <3>1. /\ Pending(g[Len(other)]) = 0 /\ 8 * Len(g[Len(other)].out) <= 5 * Len(other)
          /\ 5 * Len(other) < 8 * Len(g[Len(other)].out) + 5
      BY DecodedIs
    <3> QED BY <1>1, <2>1, <3>1
  <2> QED BY <2>1, <2>2, <2>3
<1>3. N \in Nat /\ Len(other) = N
  <2>1. PICK m \in Nat, n \in Nat : m = N /\ n = Len(other)
    OBVIOUS
  <2>2. 8 * c <= 5 * m /\ 5 * m < 8 * c + 5 /\ 8 * c <= 5 * n /\ 5 * n < 8 * c + 5
    BY <1>2, <2>1
  <2>3. m = n
    BY <2>2
  <2> QED BY <2>1, <2>3
<1>4. /\ \A n \in 1..N : NarrowMove(f[n - 1], data[n], f[n])
      /\ \A n \in 0..N : f[n] \in Narrow /\ f[n].bits + 8 * Len(f[n].out) = 5 * n
  BY NarrowStages, NarrowLengths
<1>5. /\ \A n \in 1..N : NarrowMove(g[n - 1], other[n], g[n])
      /\ \A n \in 0..N : g[n] \in Narrow /\ g[n].bits + 8 * Len(g[n].out) = 5 * n
  BY <1>3, NarrowStages, NarrowLengths
<1> HIDE DEF f, g, N
<1>6. \A n \in 0..N : f[n].bits = g[n].bits
  <2> SUFFICES ASSUME NEW n \in 0..N PROVE f[n].bits = g[n].bits
    OBVIOUS
  <2>1. /\ f[n].bits \in 0..7 /\ Len(f[n].out) \in Nat /\ f[n].bits + 8 * Len(f[n].out) = 5 * n
    BY <1>4, NarrowTypes
  <2>2. /\ g[n].bits \in 0..7 /\ Len(g[n].out) \in Nat /\ g[n].bits + 8 * Len(g[n].out) = 5 * n
    BY <1>5, NarrowTypes
  <2>3. PICK a \in 0..7, b \in Nat, c1 \in 0..7, d \in Nat :
          a = f[n].bits /\ b = Len(f[n].out) /\ c1 = g[n].bits /\ d = Len(g[n].out)
    BY <2>1, <2>2
  <2>4. a + 8 * b = c1 + 8 * d
    BY <2>1, <2>2, <2>3
  <2>5. a = c1
    BY <2>4
  <2> QED BY <2>3, <2>5
<1> DEFINE Same(n) == f[n].out = g[n].out /\ Pending(f[n]) = Pending(g[n])
           Back    == {i \in 0..N : Same(N - i)}
<1>7. ASSUME NEW n \in 1..N, Same(n) PROVE Same(n - 1) /\ data[n] = other[n]
  <2>1. n - 1 \in 0..N
    BY <1>3
  <2>2. Meet(f[n - 1], data[n], f[n], g[n - 1], other[n], g[n])
    BY <1>4, <1>5, <1>6, <1>7, <2>1 DEF Meet
  <2> QED BY <2>2, NarrowBack
<1> HIDE DEF Same
<1>8. 0 \in Back
  BY <1>2, <1>3 DEF N, Same
<1>9. ASSUME NEW i \in 1..N, i - 1 \in Back PROVE i \in Back
  <2>1. N - (i - 1) \in 1..N /\ N - (i - 1) - 1 = N - i
    BY <1>3
  <2>2. Same(N - (i - 1))
    BY <1>9
  <2>3. Same(N - (i - 1) - 1)
    BY <1>7, <2>1, <2>2
  <2> QED BY <2>1, <2>3
<1> HIDE DEF Back
<1>10. \A i \in 0..N : i \in Back
  BY <1>3, <1>8, <1>9, InductionUpTo
<1>11. \A n \in 1..N : data[n] = other[n]
  <2> SUFFICES ASSUME NEW n \in 1..N PROVE data[n] = other[n]
    OBVIOUS
  <2>1. N - n \in 0..N /\ N - (N - n) = n
    BY <1>3
  <2>2. N - n \in Back
    BY <1>10, <2>1
  <2>3. Same(N - (N - n))
    BY <2>2 DEF Back
  <2> QED BY <1>7, <2>1, <2>3
<1> QED
  BY <1>3, <1>11 DEF N

\* Symbols that are taken are the symbols of their bytes.
THEOREM DecodedIsEncoded ==
  ASSUME NEW data \in Seq(Symbols), NEW bytes,
         BytesOf(data).ok, bytes = BytesOf(data).out
  PROVE  bytes \in Seq(Bytes) /\ SymbolsOf(bytes) = data
<1>1. bytes \in Seq(Bytes)
  BY DecodedIs
<1>2. PICK other : other = SymbolsOf(bytes)
  OBVIOUS
<1>3. other \in Seq(Symbols) /\ BytesOf(other) = [ok |-> TRUE, out |-> bytes]
  BY <1>1, <1>2, SymbolsOfAre, EncodedIsDecoded
<1>4. BytesOf(other).ok /\ BytesOf(other).out = bytes
  <2>1. BytesOf(other).ok = TRUE /\ BytesOf(other).out = bytes
    BY <1>3
  <2> QED BY <2>1
<1> QED
  BY <1>1, <1>2, <1>3, <1>4, DecodedOnce

-----------------------------------------------------------------------------
(* The checksum: a step is linear.                                         *)

\* A set has an odd number of members.
Odd(S) == Cardinality(S) % 2 = 1

\* One more member turns odd into even.
LEMMA OddGrows ==
  ASSUME NEW S, IsFiniteSet(S), NEW x, x \notin S
  PROVE  IsFiniteSet(S \cup {x}) /\ (Odd(S \cup {x}) <=> ~Odd(S))
<1>1. IsFiniteSet(S \cup {x}) /\ Cardinality(S \cup {x}) = Cardinality(S) + 1
  BY FS_AddElement
<1>2. Cardinality(S) \in Nat
  BY FS_CardinalityType
<1> QED
  BY <1>1, <1>2 DEF Odd

\* The words up to the k-th that have a bit.
Having(words, b, k) == {i \in 1..k : b \in words[i]}

\* One more word counts if it has the bit.
LEMMA NextHaving ==
  ASSUME NEW words, NEW b, NEW k \in Nat, IsFiniteSet(Having(words, b, k))
  PROVE  /\ IsFiniteSet(Having(words, b, k + 1))
         /\ Odd(Having(words, b, k + 1)) <=> (Odd(Having(words, b, k)) # (b \in words[k + 1]))
<1> DEFINE S == Having(words, b, k)
           T == Having(words, b, k + 1)
<1>1. CASE b \in words[k + 1]
  <2>1. T = S \cup {k + 1} /\ k + 1 \notin S
    BY <1>1 DEF Having
  <2> HIDE DEF S, T
  <2>2. IsFiniteSet(S)
    BY DEF S
  <2>3. IsFiniteSet(T) /\ (Odd(T) <=> ~Odd(S))
    BY <2>1, <2>2, OddGrows
  <2>4. IsFiniteSet(T) /\ (Odd(T) <=> (Odd(S) # (b \in words[k + 1])))
    <3>1. Odd(S) \in BOOLEAN
      BY DEF Odd
    <3> QED BY <1>1, <2>3, <3>1
  <2> QED BY <2>4 DEF S, T
<1>2. CASE b \notin words[k + 1]
  <2>1. T = S
    BY <1>2 DEF Having
  <2> HIDE DEF S, T
  <2>2. IsFiniteSet(S)
    BY DEF S
  <2>4. IsFiniteSet(T) /\ (Odd(T) <=> (Odd(S) # (b \in words[k + 1])))
    <3>1. Odd(S) \in BOOLEAN
      BY DEF Odd
    <3> QED BY <1>2, <2>1, <2>2, <3>1
  <2> QED BY <2>4 DEF S, T
<1> QED
  BY <1>1, <1>2

\* No words have a bit.
LEMMA NoneHaving ==
  ASSUME NEW words, NEW b
  PROVE  IsFiniteSet(Having(words, b, 0)) /\ ~Odd(Having(words, b, 0))
<1>1. Having(words, b, 0) = {}
  BY DEF Having
<1> QED
  BY <1>1, FS_EmptySet DEF Odd

\* A bit of the exclusive or of two words, and of seven.
LEMMA XorOfTwo ==
  ASSUME NEW words, DOMAIN words = 1..2, NEW b \in 0..29
  PROVE  b \in XorAll(words) <=> ((b \in words[1]) # (b \in words[2]))
<1>1. b \in XorAll(words) <=> Odd(Having(words, b, 2))
  BY DEF XorAll, Having, Odd
<1>2. IsFiniteSet(Having(words, b, 0)) /\ ~Odd(Having(words, b, 0))
  BY NoneHaving
<1>3. /\ IsFiniteSet(Having(words, b, 0 + 1))
      /\ Odd(Having(words, b, 0 + 1)) <=> (Odd(Having(words, b, 0)) # (b \in words[0 + 1]))
  BY <1>2, NextHaving
<1>4. /\ IsFiniteSet(Having(words, b, 1 + 1))
      /\ Odd(Having(words, b, 1 + 1)) <=> (Odd(Having(words, b, 1)) # (b \in words[1 + 1]))
  BY <1>3, NextHaving
<1>5. \A k : Odd(Having(words, b, k)) \in BOOLEAN
  BY DEF Odd
<1> QED
  BY <1>1, <1>2, <1>3, <1>4, <1>5

\* A bit of the exclusive or of seven words.
LEMMA XorOfSeven ==
  ASSUME NEW words, DOMAIN words = 1..7, NEW b \in 0..29
  PROVE  b \in XorAll(words)
         <=> (((((((b \in words[1]) # (b \in words[2])) # (b \in words[3])) # (b \in words[4]))
              # (b \in words[5])) # (b \in words[6])) # (b \in words[7]))
<1> DEFINE O(k)  == Odd(Having(words, b, k))
           In(k) == b \in words[k]
<1>1. b \in XorAll(words) <=> O(7)
  BY DEF XorAll, Having, Odd
<1>2. IsFiniteSet(Having(words, b, 0)) /\ ~O(0)
  BY NoneHaving
<1>3. IsFiniteSet(Having(words, b, 1)) /\ (O(1) <=> (O(0) # In(1)))
  BY <1>2, 0 + 1 = 1, NextHaving
<1>4. IsFiniteSet(Having(words, b, 2)) /\ (O(2) <=> (O(1) # In(2)))
  BY <1>3, 1 + 1 = 2, NextHaving
<1>5. IsFiniteSet(Having(words, b, 3)) /\ (O(3) <=> (O(2) # In(3)))
  BY <1>4, 2 + 1 = 3, NextHaving
<1>6. IsFiniteSet(Having(words, b, 4)) /\ (O(4) <=> (O(3) # In(4)))
  BY <1>5, 3 + 1 = 4, NextHaving
<1>7. IsFiniteSet(Having(words, b, 5)) /\ (O(5) <=> (O(4) # In(5)))
  BY <1>6, 4 + 1 = 5, NextHaving
<1>8. IsFiniteSet(Having(words, b, 6)) /\ (O(6) <=> (O(5) # In(6)))
  BY <1>7, 5 + 1 = 6, NextHaving
<1>9. IsFiniteSet(Having(words, b, 7)) /\ (O(7) <=> (O(6) # In(7)))
  BY <1>8, 6 + 1 = 7, NextHaving
<1>10. \A k : O(k) \in BOOLEAN /\ In(k) \in BOOLEAN
  BY DEF Odd
<1> HIDE DEF O, In
<1>11. O(7) <=> (((((((In(1)) # (In(2))) # (In(3))) # (In(4))) # (In(5))) # (In(6))) # (In(7)))
  BY <1>2, <1>3, <1>4, <1>5, <1>6, <1>7, <1>8, <1>9, <1>10
<1> QED
  BY <1>1, <1>11 DEF In

\* The checksums under way, their difference, and one of them five places further.
Words      == SUBSET (0..29)
Xor(A, B)  == (A \ B) \cup (B \ A)
Shift(chk) == {c + 5 : c \in chk \cap 0..24}

\* A bit of what is shifted and fed back.
Fed(b, chk) ==
  (((((b \in Shift(chk)) # (25 \in chk /\ b \in kBech32Gen[1])) # (26 \in chk /\ b \in kBech32Gen[2]))
   # (27 \in chk /\ b \in kBech32Gen[3])) # (28 \in chk /\ b \in kBech32Gen[4])) # (29 \in chk /\ b \in kBech32Gen[5])

\* One step of a difference of two checksums.
NextDifference(chk, word) == {b \in 0..29 : Fed(b, chk) # (b \in word)}

\* Two sequences, one behind the other.
LEMMA Joined ==
  ASSUME NEW S, NEW s \in Seq(S), NEW t \in Seq(S)
  PROVE  /\ s \o t \in Seq(S)
         /\ Len(s \o t) = Len(s) + Len(t)
         /\ DOMAIN (s \o t) = 1..Len(s) + Len(t)
         /\ \A i \in 1..Len(s) + Len(t) : (s \o t)[i] = IF i <= Len(s) THEN s[i] ELSE t[i - Len(s)]
<1>1. \A i \in 1..Len(s) + Len(t) : (s \o t)[i] = IF i <= Len(s) THEN s[i] ELSE t[i - Len(s)]
  OBVIOUS
<1>2. s \o t \in Seq(S) /\ Len(s \o t) = Len(s) + Len(t)
  OBVIOUS
<1> QED
  BY <1>1, <1>2

\* Two words and five behind them.
SevenWords(front, back, w) ==
  /\ DOMAIN w = 1..7 /\ w[1] = front[1] /\ w[2] = front[2]
  /\ w[3] = back[1] /\ w[4] = back[2] /\ w[5] = back[3] /\ w[6] = back[4] /\ w[7] = back[5]

\* They are seven.
LEMMA TwoAndFive ==
  ASSUME NEW S, NEW front \in Seq(S), NEW back \in Seq(S), Len(front) = 2, Len(back) = 5
  PROVE  SevenWords(front, back, front \o back)
<1> DEFINE words == front \o back
<1>1. DOMAIN words = 1..Len(front) + Len(back)
  BY Joined
<1>2. \A i \in 1..Len(front) + Len(back) : words[i] = IF i <= Len(front) THEN front[i] ELSE back[i - Len(front)]
  BY Joined
<1> HIDE DEF words
<1>3. DOMAIN words = 1..7 /\ \A i \in 1..7 : words[i] = IF i <= 2 THEN front[i] ELSE back[i - 2]
  BY <1>1, <1>2, 2 + 5 = 7
<1>4. 3 - 2 = 1 /\ 4 - 2 = 2 /\ 5 - 2 = 3 /\ 6 - 2 = 4 /\ 7 - 2 = 5
  OBVIOUS
<1>5. /\ DOMAIN words = 1..7
      /\ words[1] = front[1] /\ words[2] = front[2]
      /\ words[3] = back[1] /\ words[4] = back[2] /\ words[5] = back[3]
      /\ words[6] = back[4] /\ words[7] = back[5]
  BY <1>3, <1>4
<1> QED
  BY <1>5 DEF words, SevenWords

\* A bit after a step is what is shifted and fed back, and the value.
LEMMA StepBit ==
  ASSUME NEW chk, NEW value, NEW b \in 0..29
  PROVE  b \in Step(chk, value) <=> (Fed(b, chk) # (b \in BitsOf(value)))
<1> DEFINE back  == [i \in 1..5 |-> IF i + 24 \in chk THEN kBech32Gen[i] ELSE {}]
           front == <<Shift(chk), BitsOf(value)>>
           words == front \o back
<1>1. Step(chk, value) = XorAll(words)
  BY DEF Step, Shift
<1>2. /\ Len(back) = 5
      /\ back[1] = IF 25 \in chk THEN kBech32Gen[1] ELSE {}
      /\ back[2] = IF 26 \in chk THEN kBech32Gen[2] ELSE {}
      /\ back[3] = IF 27 \in chk THEN kBech32Gen[3] ELSE {}
      /\ back[4] = IF 28 \in chk THEN kBech32Gen[4] ELSE {}
      /\ back[5] = IF 29 \in chk THEN kBech32Gen[5] ELSE {}
  OBVIOUS
<1>3. Len(front) = 2 /\ front[1] = Shift(chk) /\ front[2] = BitsOf(value)
  OBVIOUS
<1>4. PICK S : front \in Seq(S) /\ back \in Seq(S)
  <2> DEFINE S == {front[1], front[2], back[1], back[2], back[3], back[4], back[5]}
  <2>1. front \in Seq(S) /\ back \in Seq(S)
    OBVIOUS
  <2> QED BY <2>1
<1> HIDE DEF back, front
<1>5. /\ DOMAIN words = 1..7 /\ words[1] = front[1] /\ words[2] = front[2]
      /\ words[3] = back[1] /\ words[4] = back[2] /\ words[5] = back[3]
      /\ words[6] = back[4] /\ words[7] = back[5]
  <2>1. front \in Seq(S) /\ back \in Seq(S) /\ Len(front) = 2 /\ Len(back) = 5
    BY ONLY <1>2, <1>3, <1>4
  <2>2. SevenWords(front, back, words)
    BY ONLY <2>1, TwoAndFive
  <2> HIDE DEF words
  <2> QED BY ONLY <2>2 DEF SevenWords
<1> HIDE DEF words
<1>6. b \in XorAll(words)
      <=> (((((((b \in words[1]) # (b \in words[2])) # (b \in words[3])) # (b \in words[4]))
           # (b \in words[5])) # (b \in words[6])) # (b \in words[7]))
  BY <1>5, XorOfSeven
<1>7. /\ (b \in words[1]) = (b \in Shift(chk))
      /\ (b \in words[2]) = (b \in BitsOf(value))
      /\ (b \in words[3]) = (25 \in chk /\ b \in kBech32Gen[1])
      /\ (b \in words[4]) = (26 \in chk /\ b \in kBech32Gen[2])
      /\ (b \in words[5]) = (27 \in chk /\ b \in kBech32Gen[3])
      /\ (b \in words[6]) = (28 \in chk /\ b \in kBech32Gen[4])
      /\ (b \in words[7]) = (29 \in chk /\ b \in kBech32Gen[5])
  BY <1>2, <1>3, <1>5
<1> DEFINE p1 == b \in Shift(chk)
           p2 == b \in BitsOf(value)
           p3 == 25 \in chk /\ b \in kBech32Gen[1]
           p4 == 26 \in chk /\ b \in kBech32Gen[2]
           p5 == 27 \in chk /\ b \in kBech32Gen[3]
           p6 == 28 \in chk /\ b \in kBech32Gen[4]
           p7 == 29 \in chk /\ b \in kBech32Gen[5]
<1>8. Fed(b, chk) = (((((p1 # p3) # p4) # p5) # p6) # p7)
  BY DEF Fed
<1>9. /\ p1 \in BOOLEAN /\ p2 \in BOOLEAN /\ p3 \in BOOLEAN /\ p4 \in BOOLEAN
      /\ p5 \in BOOLEAN /\ p6 \in BOOLEAN /\ p7 \in BOOLEAN
  OBVIOUS
<1> HIDE DEF p1, p2, p3, p4, p5, p6, p7
<1>10. b \in Step(chk, value) <=> ((((((p1 # p2) # p3) # p4) # p5) # p6) # p7)
  BY <1>1, <1>6, <1>7 DEF p1, p2, p3, p4, p5, p6, p7
<1>11. b \in Step(chk, value) <=> (Fed(b, chk) # p2)
  BY <1>8, <1>9, <1>10
<1> QED
  BY <1>11 DEF p2

\* A bit that is shifted was five places lower.
LEMMA ShiftBit ==
  ASSUME NEW chk, NEW b \in 0..29
  PROVE  b \in Shift(chk) <=> b >= 5 /\ b - 5 \in chk
<1>1. ASSUME b \in Shift(chk) PROVE b >= 5 /\ b - 5 \in chk
  BY <1>1 DEF Shift
<1>2. ASSUME b >= 5, b - 5 \in chk PROVE b \in Shift(chk)
  <2>1. b - 5 \in chk \cap 0..24 /\ b = b - 5 + 5
    BY <1>2
  <2> QED BY <2>1 DEF Shift
<1> QED
  BY <1>1, <1>2

\* What is shifted and fed back of a difference is the difference of what is of both.
LEMMA FedDifference ==
  ASSUME NEW A, NEW B, NEW b \in 0..29
  PROVE  Fed(b, Xor(A, B)) <=> (Fed(b, A) # Fed(b, B))
<1>1. b \in Shift(Xor(A, B)) <=> ((b \in Shift(A)) # (b \in Shift(B)))
  BY ShiftBit DEF Xor
<1>2. \A n : n \in Xor(A, B) <=> ((n \in A) # (n \in B))
  BY DEF Xor
<1>3. \A n, g : (n \in Xor(A, B) /\ b \in kBech32Gen[g])
        <=> ((n \in A /\ b \in kBech32Gen[g]) # (n \in B /\ b \in kBech32Gen[g]))
  BY <1>2
<1> DEFINE p1 == b \in Shift(A)
           p2 == 25 \in A /\ b \in kBech32Gen[1]
           p3 == 26 \in A /\ b \in kBech32Gen[2]
           p4 == 27 \in A /\ b \in kBech32Gen[3]
           p5 == 28 \in A /\ b \in kBech32Gen[4]
           p6 == 29 \in A /\ b \in kBech32Gen[5]
           q1 == b \in Shift(B)
           q2 == 25 \in B /\ b \in kBech32Gen[1]
           q3 == 26 \in B /\ b \in kBech32Gen[2]
           q4 == 27 \in B /\ b \in kBech32Gen[3]
           q5 == 28 \in B /\ b \in kBech32Gen[4]
           q6 == 29 \in B /\ b \in kBech32Gen[5]
           r1 == b \in Shift(Xor(A, B))
           r2 == 25 \in Xor(A, B) /\ b \in kBech32Gen[1]
           r3 == 26 \in Xor(A, B) /\ b \in kBech32Gen[2]
           r4 == 27 \in Xor(A, B) /\ b \in kBech32Gen[3]
           r5 == 28 \in Xor(A, B) /\ b \in kBech32Gen[4]
           r6 == 29 \in Xor(A, B) /\ b \in kBech32Gen[5]
<1>4. /\ Fed(b, A) = (((((p1 # p2) # p3) # p4) # p5) # p6)
      /\ Fed(b, B) = (((((q1 # q2) # q3) # q4) # q5) # q6)
      /\ Fed(b, Xor(A, B)) = (((((r1 # r2) # r3) # r4) # r5) # r6)
  BY DEF Fed
<1>5. /\ p1 \in BOOLEAN /\ p2 \in BOOLEAN /\ p3 \in BOOLEAN /\ p4 \in BOOLEAN /\ p5 \in BOOLEAN /\ p6 \in BOOLEAN
      /\ q1 \in BOOLEAN /\ q2 \in BOOLEAN /\ q3 \in BOOLEAN /\ q4 \in BOOLEAN /\ q5 \in BOOLEAN /\ q6 \in BOOLEAN
      /\ r1 \in BOOLEAN /\ r2 \in BOOLEAN /\ r3 \in BOOLEAN /\ r4 \in BOOLEAN /\ r5 \in BOOLEAN /\ r6 \in BOOLEAN
  OBVIOUS
<1>6. /\ r1 <=> (p1 # q1)
      /\ r2 <=> (p2 # q2)
      /\ r3 <=> (p3 # q3)
      /\ r4 <=> (p4 # q4)
      /\ r5 <=> (p5 # q5)
      /\ r6 <=> (p6 # q6)
  BY <1>1, <1>3
<1> HIDE DEF p1, p2, p3, p4, p5, p6, q1, q2, q3, q4, q5, q6, r1, r2, r3, r4, r5, r6
<1> QED
  BY <1>4, <1>5, <1>6

\* A step takes differences to differences: Step is linear.
LEMMA StepDifference ==
  ASSUME NEW A, NEW B, NEW x, NEW y
  PROVE  Xor(Step(A, x), Step(B, y)) = NextDifference(Xor(A, B), Xor(BitsOf(x), BitsOf(y)))
<1>1. Step(A, x) \subseteq 0..29 /\ Step(B, y) \subseteq 0..29
  BY DEF Step, XorAll
<1>2. ASSUME NEW b \in 0..29
      PROVE  b \in Xor(Step(A, x), Step(B, y)) <=> b \in NextDifference(Xor(A, B), Xor(BitsOf(x), BitsOf(y)))
  <2>1. b \in Step(A, x) <=> (Fed(b, A) # (b \in BitsOf(x)))
    BY StepBit
  <2>2. b \in Step(B, y) <=> (Fed(b, B) # (b \in BitsOf(y)))
    BY StepBit
  <2>3. Fed(b, Xor(A, B)) <=> (Fed(b, A) # Fed(b, B))
    BY FedDifference
  <2>4. Fed(b, A) \in BOOLEAN /\ Fed(b, B) \in BOOLEAN /\ Fed(b, Xor(A, B)) \in BOOLEAN
    BY DEF Fed
  <2>5. b \in Xor(Step(A, x), Step(B, y)) <=> ((b \in Step(A, x)) # (b \in Step(B, y)))
    BY DEF Xor
  <2>6. b \in Xor(BitsOf(x), BitsOf(y)) <=> ((b \in BitsOf(x)) # (b \in BitsOf(y)))
    BY DEF Xor
  <2>7. b \in NextDifference(Xor(A, B), Xor(BitsOf(x), BitsOf(y)))
        <=> (Fed(b, Xor(A, B)) # (b \in Xor(BitsOf(x), BitsOf(y))))
    BY DEF NextDifference
  <2> QED BY <2>1, <2>2, <2>3, <2>4, <2>5, <2>6, <2>7
<1>3. Xor(Step(A, x), Step(B, y)) \subseteq 0..29 /\ NextDifference(Xor(A, B), Xor(BitsOf(x), BitsOf(y))) \subseteq 0..29
  BY <1>1 DEF Xor, NextDifference
<1> QED
  BY <1>2, <1>3

-----------------------------------------------------------------------------
(* The checksum: numbers and bits.                                         *)

\* The low bits of a number.
LEMMA LowBits ==
  ASSUME NEW n \in Nat
  PROVE  /\ 0 \in BitsOf(n) <=> n % 2 = 1
         /\ 1 \in BitsOf(n) <=> (n \div 2) % 2 = 1
         /\ 2 \in BitsOf(n) <=> (n \div 4) % 2 = 1
         /\ 3 \in BitsOf(n) <=> (n \div 8) % 2 = 1
         /\ 4 \in BitsOf(n) <=> (n \div 16) % 2 = 1
BY Powers, SMT DEF BitsOf

\* Numbers up to 31 have no other bits.
LEMMA HighBits ==
  ASSUME NEW n \in 0..31
  PROVE  BitsOf(n) \subseteq 0..4
<1> SUFFICES ASSUME NEW i \in 5..29, (n \div 2^i) % 2 = 1 PROVE FALSE
  <2>1. \A i \in BitsOf(n) : i \in 0..29 /\ (n \div 2^i) % 2 = 1
    BY DEF BitsOf
  <2>2. \A i \in 0..29 : i \notin 5..29 => i \in 0..4
    OBVIOUS
  <2> QED BY <2>1, <2>2
<1>1. CASE i = 5
  <2>1. n \div 2^5 = 0
    BY SMT
  <2> QED BY <1>1, <2>1, SMT
<1>2. CASE i = 6
  <2>1. n \div 2^6 = 0
    BY SMT
  <2> QED BY <1>2, <2>1, SMT
<1>3. CASE i = 7
  <2>1. n \div 2^7 = 0
    BY SMT
  <2> QED BY <1>3, <2>1, SMT
<1>4. CASE i = 8
  <2>1. n \div 2^8 = 0
    BY SMT
  <2> QED BY <1>4, <2>1, SMT
<1>5. CASE i = 9
  <2>1. n \div 2^9 = 0
    BY SMT
  <2> QED BY <1>5, <2>1, SMT
<1>6. CASE i = 10
  <2>1. n \div 2^10 = 0
    BY SMT
  <2> QED BY <1>6, <2>1, SMT
<1>7. CASE i = 11
  <2>1. n \div 2^11 = 0
    BY SMT
  <2> QED BY <1>7, <2>1, SMT
<1>8. CASE i = 12
  <2>1. n \div 2^12 = 0
    BY SMT
  <2> QED BY <1>8, <2>1, SMT
<1>9. CASE i = 13
  <2>1. n \div 2^13 = 0
    BY SMT
  <2> QED BY <1>9, <2>1, SMT
<1>10. CASE i = 14
  <2>1. n \div 2^14 = 0
    BY SMT
  <2> QED BY <1>10, <2>1, SMT
<1>11. CASE i = 15
  <2>1. n \div 2^15 = 0
    BY SMT
  <2> QED BY <1>11, <2>1, SMT
<1>12. CASE i = 16
  <2>1. n \div 2^16 = 0
    BY SMT
  <2> QED BY <1>12, <2>1, SMT
<1>13. CASE i = 17
  <2>1. n \div 2^17 = 0
    BY SMT
  <2> QED BY <1>13, <2>1, SMT
<1>14. CASE i = 18
  <2>1. n \div 2^18 = 0
    BY SMT
  <2> QED BY <1>14, <2>1, SMT
<1>15. CASE i = 19
  <2>1. n \div 2^19 = 0
    BY SMT
  <2> QED BY <1>15, <2>1, SMT
<1>16. CASE i = 20
  <2>1. n \div 2^20 = 0
    BY SMT
  <2> QED BY <1>16, <2>1, SMT
<1>17. CASE i = 21
  <2>1. n \div 2^21 = 0
    BY SMT
  <2> QED BY <1>17, <2>1, SMT
<1>18. CASE i = 22
  <2>1. n \div 2^22 = 0
    BY SMT
  <2> QED BY <1>18, <2>1, SMT
<1>19. CASE i = 23
  <2>1. n \div 2^23 = 0
    BY SMT
  <2> QED BY <1>19, <2>1, SMT
<1>20. CASE i = 24
  <2>1. n \div 2^24 = 0
    BY SMT
  <2> QED BY <1>20, <2>1, SMT
<1>21. CASE i = 25
  <2>1. n \div 2^25 = 0
    BY SMT
  <2> QED BY <1>21, <2>1, SMT
<1>22. CASE i = 26
  <2>1. n \div 2^26 = 0
    BY SMT
  <2> QED BY <1>22, <2>1, SMT
<1>23. CASE i = 27
  <2>1. n \div 2^27 = 0
    BY SMT
  <2> QED BY <1>23, <2>1, SMT
<1>24. CASE i = 28
  <2>1. n \div 2^28 = 0
    BY SMT
  <2> QED BY <1>24, <2>1, SMT
<1>25. CASE i = 29
  <2>1. n \div 2^29 = 0
    BY SMT
  <2> QED BY <1>25, <2>1, SMT
<1> QED
  BY <1>1, <1>2, <1>3, <1>4, <1>5, <1>6, <1>7, <1>8, <1>9, <1>10, <1>11, <1>12, <1>13, <1>14,
     <1>15, <1>16, <1>17, <1>18, <1>19, <1>20, <1>21, <1>22, <1>23, <1>24, <1>25

\* Zero has no bits.
LEMMA NoBits == BitsOf(0) = {}
<1>1. BitsOf(0) \subseteq 0..4
  BY HighBits
<1>2. 0 \notin BitsOf(0) /\ 1 \notin BitsOf(0) /\ 2 \notin BitsOf(0) /\ 3 \notin BitsOf(0) /\ 4 \notin BitsOf(0)
  BY LowBits
<1> QED
  BY <1>1, <1>2

\* What five bits make up.
Sum5(bits) == (IF 0 \in bits THEN 1 ELSE 0) + (IF 1 \in bits THEN 2 ELSE 0) + (IF 2 \in bits THEN 4 ELSE 0)
              + (IF 3 \in bits THEN 8 ELSE 0) + (IF 4 \in bits THEN 16 ELSE 0)

\* The bits of what five bits make up are those bits.
LEMMA BitsOfSum ==
  ASSUME NEW bits, bits \subseteq 0..4
  PROVE  Sum5(bits) \in 0..31 /\ BitsOf(Sum5(bits)) = bits
<1>1. PICK b0 \in 0..1 : b0 = 1 <=> 0 \in bits
  OBVIOUS
<1>2. PICK b1 \in 0..1 : b1 = 1 <=> 1 \in bits
  OBVIOUS
<1>3. PICK b2 \in 0..1 : b2 = 1 <=> 2 \in bits
  OBVIOUS
<1>4. PICK b3 \in 0..1 : b3 = 1 <=> 3 \in bits
  OBVIOUS
<1>5. PICK b4 \in 0..1 : b4 = 1 <=> 4 \in bits
  OBVIOUS
<1>6. PICK n \in 0..31 : n = b0 + 2 * b1 + 4 * b2 + 8 * b3 + 16 * b4
  OBVIOUS
<1>7. Sum5(bits) = n
  BY <1>1, <1>2, <1>3, <1>4, <1>5, <1>6 DEF Sum5
<1>8. n % 2 = b0
  BY <1>6
<1>9. (n \div 2) % 2 = b1
  BY <1>6
<1>10. (n \div 4) % 2 = b2
  BY <1>6
<1>11. (n \div 8) % 2 = b3
  BY <1>6
<1>12. (n \div 16) % 2 = b4
  BY <1>6
<1>13. /\ 0 \in BitsOf(n) <=> 0 \in bits
       /\ 1 \in BitsOf(n) <=> 1 \in bits
       /\ 2 \in BitsOf(n) <=> 2 \in bits
       /\ 3 \in BitsOf(n) <=> 3 \in bits
       /\ 4 \in BitsOf(n) <=> 4 \in bits
  BY <1>1, <1>2, <1>3, <1>4, <1>5, <1>8, <1>9, <1>10, <1>11, <1>12, LowBits
<1>14. BitsOf(n) \subseteq 0..4
  BY HighBits
<1>15. BitsOf(n) = bits
  <2>1. \A i \in 0..4 : i \in BitsOf(n) <=> i \in bits
    BY <1>13
  <2> QED BY <1>14, <2>1
<1> QED
  BY <1>7, <1>15

\* A number up to 31 is what its bits make up.
LEMMA SumOfBits ==
  ASSUME NEW n \in 0..31
  PROVE  Sum5(BitsOf(n)) = n
<1>1. PICK b0 \in 0..1 : b0 = n % 2
  OBVIOUS
<1>2. PICK b1 \in 0..1 : b1 = (n \div 2) % 2
  OBVIOUS
<1>3. PICK b2 \in 0..1 : b2 = (n \div 4) % 2
  OBVIOUS
<1>4. PICK b3 \in 0..1 : b3 = (n \div 8) % 2
  OBVIOUS
<1>5. PICK b4 \in 0..1 : b4 = (n \div 16) % 2
  OBVIOUS
<1>6. n = b0 + 2 * b1 + 4 * b2 + 8 * b3 + 16 * b4
  BY <1>1, <1>2, <1>3, <1>4, <1>5
<1>7. /\ 0 \in BitsOf(n) <=> b0 = 1
      /\ 1 \in BitsOf(n) <=> b1 = 1
      /\ 2 \in BitsOf(n) <=> b2 = 1
      /\ 3 \in BitsOf(n) <=> b3 = 1
      /\ 4 \in BitsOf(n) <=> b4 = 1
  BY <1>1, <1>2, <1>3, <1>4, <1>5, LowBits
<1>8. Sum5(BitsOf(n)) = b0 + 2 * b1 + 4 * b2 + 8 * b3 + 16 * b4
  BY <1>7 DEF Sum5
<1> QED
  BY <1>6, <1>8

\* The numbers that Number adds up.
IsSum(f, bits) ==
  f = [i \in 0..30 |-> IF i = 0 THEN 0 ELSE f[i - 1] + (IF i - 1 \in bits THEN 2^(i - 1) ELSE 0)]

\* Number adds up five bits.
LEMMA NumberIs ==
  ASSUME NEW bits, bits \subseteq 0..4
  PROVE  Number(bits) = Sum5(bits)
<1> DEFINE add == [n \in 0..29 |-> IF n \in bits THEN 2^n ELSE 0]
           step == [n \in 1..30 |-> [s \in Nat |-> s + add[n - 1]]]
<1>1. /\ add[0] = IF 0 \in bits THEN 1 ELSE 0
      /\ add[1] = IF 1 \in bits THEN 2 ELSE 0
      /\ add[2] = IF 2 \in bits THEN 4 ELSE 0
      /\ add[3] = IF 3 \in bits THEN 8 ELSE 0
      /\ add[4] = IF 4 \in bits THEN 16 ELSE 0
      /\ \A n \in 5..29 : add[n] = 0
  BY Powers
<1>2. \A n \in 0..29 : add[n] \in Nat
  <2> HIDE DEF add
  <2> QED BY <1>1
<1>3. step \in [1..30 -> [Nat -> Nat]]
  <2> HIDE DEF add
  <2>1. \A n \in 1..30 : add[n - 1] \in Nat
    BY <1>2
  <2> QED BY <2>1
<1>4. \E f \in [0..30 -> Nat] : f[0] = 0 /\ \A n \in 1..30 : f[n] = step[n][f[n - 1]]
  <2> HIDE DEF step
  <2> DEFINE base == 0
             N == 30
             V == Nat
  <2>1. base \in V /\ N \in Nat /\ step \in [1..N -> [V -> V]]
    BY <1>3
  <2> HIDE DEF base, N, V
  <2>2. \E f \in [0..N -> V] : f[0] = base /\ \A n \in 1..N : f[n] = step[n][f[n - 1]]
    BY ONLY <2>1, RecursionUpTo
  <2> QED BY <2>2 DEF base, N, V
<1>5. PICK f \in [0..30 -> Nat] : f[0] = 0 /\ \A n \in 1..30 : f[n] = f[n - 1] + add[n - 1]
  <2>1. PICK f \in [0..30 -> Nat] : f[0] = 0 /\ \A n \in 1..30 : f[n] = step[n][f[n - 1]]
    BY <1>4
  <2>2. \A n \in 1..30 : step[n][f[n - 1]] = f[n - 1] + add[n - 1]
    <3> HIDE DEF add
    <3>1. \A n \in 1..30 : f[n - 1] \in Nat
      OBVIOUS
    <3> QED BY <3>1
  <2> QED BY <2>1, <2>2
<1>6. IsSum(f, bits)
  <2>1. \A n \in 1..30 : add[n - 1] = IF n - 1 \in bits THEN 2^(n - 1) ELSE 0
    OBVIOUS
  <2> HIDE DEF add
  <2> DEFINE part(n) == IF n \in bits THEN 2^n ELSE 0
  <2>1a. \A n \in 1..30 : add[n - 1] = part(n - 1)
    BY <2>1
  <2> HIDE DEF part
  <2> DEFINE h == [i \in 0..30 |-> IF i = 0 THEN 0 ELSE f[i - 1] + part(i - 1)]
  <2>2. \A n \in 0..30 : h[n] = f[n]
    BY <1>5, <2>1a
  <2>3. f = [n \in 0..30 |-> f[n]] /\ h = [n \in 0..30 |-> h[n]]
    OBVIOUS
  <2>4. f = h
    <3> HIDE DEF h
    <3> QED BY <2>2, <2>3
  <2> QED BY <2>4 DEF IsSum, part
<1> DEFINE g == CHOOSE h : IsSum(h, bits)
<1>7. Number(bits) = g[30]
  BY DEF Number, IsSum
<1>8. IsSum(g, bits)
  BY <1>6
<1> HIDE DEF g
<1>9. g[0] = 0 /\ \A n \in 1..30 : g[n] = g[n - 1] + add[n - 1]
  BY <1>8 DEF IsSum
<1> HIDE DEF add, step
<1>10. /\ g[1] = g[0] + add[0] /\ g[2] = g[1] + add[1] /\ g[3] = g[2] + add[2]
       /\ g[4] = g[3] + add[3] /\ g[5] = g[4] + add[4]
  BY <1>9
<1>11. g[5] = Sum5(bits) /\ Sum5(bits) \in Nat
  BY <1>1, <1>9, <1>10 DEF Sum5
<1>12. \A n \in 0..25 : g[n + 5] = Sum5(bits)
  <2> DEFINE Same == {n \in 0..25 : g[n + 5] = Sum5(bits)}
  <2>1. 0 \in Same
    BY <1>11
  <2>2. ASSUME NEW n \in 1..25, n - 1 \in Same PROVE n \in Same
    <3>1. g[n + 5] = g[n + 4] + add[n + 4] /\ add[n + 4] = 0
      <4>1. n + 5 \in 1..30 /\ n + 5 - 1 = n + 4 /\ n + 4 \in 5..29
        OBVIOUS
      <4> QED BY <1>1, <1>9, <4>1
    <3>2. g[n - 1 + 5] = Sum5(bits) /\ n - 1 + 5 = n + 4
      BY <2>2
    <3> QED BY <1>11, <3>1, <3>2
  <2> HIDE DEF Same
  <2>3. \A n \in 0..25 : n \in Same
    BY <2>1, <2>2, InductionUpTo
  <2> QED BY <2>3 DEF Same
<1>13. g[25 + 5] = Sum5(bits)
  BY <1>12
<1> QED
  BY <1>7, <1>13

\* Number and BitsOf are inverse to one another, for five bits.
LEMMA NumberOfBits ==
  /\ \A bits \in SUBSET (0..4) : Number(bits) \in 0..31 /\ BitsOf(Number(bits)) = bits
  /\ \A n \in 0..31 : BitsOf(n) \subseteq 0..4 /\ Number(BitsOf(n)) = n
<1>1. \A bits \in SUBSET (0..4) : Number(bits) = Sum5(bits)
  BY NumberIs
<1>2. \A n \in 0..31 : BitsOf(n) \subseteq 0..4 /\ Number(BitsOf(n)) = n
  BY <1>1, HighBits, SumOfBits
<1> QED
  BY <1>1, <1>2, BitsOfSum

-----------------------------------------------------------------------------
(* The checksum: a step loses nothing.                                     *)

\* The five low bits of the generators.
LEMMA Generators ==
  /\ 0 \notin kBech32Gen[1] /\ 0 \in kBech32Gen[2] /\ 0 \notin kBech32Gen[3] /\ 0 \in kBech32Gen[4] /\ 0 \in kBech32Gen[5]
  /\ 1 \in kBech32Gen[1] /\ 1 \notin kBech32Gen[2] /\ 1 \in kBech32Gen[3] /\ 1 \notin kBech32Gen[4] /\ 1 \in kBech32Gen[5]
  /\ 2 \notin kBech32Gen[1] /\ 2 \in kBech32Gen[2] /\ 2 \notin kBech32Gen[3] /\ 2 \in kBech32Gen[4] /\ 2 \notin kBech32Gen[5]
  /\ 3 \notin kBech32Gen[1] /\ 3 \in kBech32Gen[2] /\ 3 \in kBech32Gen[3] /\ 3 \in kBech32Gen[4] /\ 3 \notin kBech32Gen[5]
  /\ 4 \in kBech32Gen[1] /\ 4 \notin kBech32Gen[2] /\ 4 \in kBech32Gen[3] /\ 4 \in kBech32Gen[4] /\ 4 \in kBech32Gen[5]
<1>1. 0 \notin kBech32Gen[1] /\ 1 \in kBech32Gen[1] /\ 2 \notin kBech32Gen[1] /\ 3 \notin kBech32Gen[1] /\ 4 \in kBech32Gen[1]
  <2>1. PICK n \in Nat : n = \h3b6a57b2
    BY SMT
  <2>2. n % 2 = 0 /\ (n \div 2) % 2 = 1 /\ (n \div 4) % 2 = 0 /\ (n \div 8) % 2 = 0 /\ (n \div 16) % 2 = 1
    BY <2>1, SMT
  <2>3. kBech32Gen[1] = BitsOf(n)
    BY <2>1, SMT DEF kBech32Gen
  <2> QED BY <2>2, <2>3, LowBits, SMT
<1>2. 0 \in kBech32Gen[2] /\ 1 \notin kBech32Gen[2] /\ 2 \in kBech32Gen[2] /\ 3 \in kBech32Gen[2] /\ 4 \notin kBech32Gen[2]
  <2>1. PICK n \in Nat : n = \h26508e6d
    BY SMT
  <2>2. n % 2 = 1 /\ (n \div 2) % 2 = 0 /\ (n \div 4) % 2 = 1 /\ (n \div 8) % 2 = 1 /\ (n \div 16) % 2 = 0
    BY <2>1, SMT
  <2>3. kBech32Gen[2] = BitsOf(n)
    BY <2>1, SMT DEF kBech32Gen
  <2> QED BY <2>2, <2>3, LowBits, SMT
<1>3. 0 \notin kBech32Gen[3] /\ 1 \in kBech32Gen[3] /\ 2 \notin kBech32Gen[3] /\ 3 \in kBech32Gen[3] /\ 4 \in kBech32Gen[3]
  <2>1. PICK n \in Nat : n = \h1ea119fa
    BY SMT
  <2>2. n % 2 = 0 /\ (n \div 2) % 2 = 1 /\ (n \div 4) % 2 = 0 /\ (n \div 8) % 2 = 1 /\ (n \div 16) % 2 = 1
    BY <2>1, SMT
  <2>3. kBech32Gen[3] = BitsOf(n)
    BY <2>1, SMT DEF kBech32Gen
  <2> QED BY <2>2, <2>3, LowBits, SMT
<1>4. 0 \in kBech32Gen[4] /\ 1 \notin kBech32Gen[4] /\ 2 \in kBech32Gen[4] /\ 3 \in kBech32Gen[4] /\ 4 \in kBech32Gen[4]
  <2>1. PICK n \in Nat : n = \h3d4233dd
    BY SMT
  <2>2. n % 2 = 1 /\ (n \div 2) % 2 = 0 /\ (n \div 4) % 2 = 1 /\ (n \div 8) % 2 = 1 /\ (n \div 16) % 2 = 1
    BY <2>1, SMT
  <2>3. kBech32Gen[4] = BitsOf(n)
    BY <2>1, SMT DEF kBech32Gen
  <2> QED BY <2>2, <2>3, LowBits, SMT
<1>5. 0 \in kBech32Gen[5] /\ 1 \in kBech32Gen[5] /\ 2 \notin kBech32Gen[5] /\ 3 \notin kBech32Gen[5] /\ 4 \in kBech32Gen[5]
  <2>1. PICK n \in Nat : n = \h2a1462b3
    BY SMT
  <2>2. n % 2 = 1 /\ (n \div 2) % 2 = 1 /\ (n \div 4) % 2 = 0 /\ (n \div 8) % 2 = 0 /\ (n \div 16) % 2 = 1
    BY <2>1, SMT
  <2>3. kBech32Gen[5] = BitsOf(n)
    BY <2>1, SMT DEF kBech32Gen
  <2> QED BY <2>2, <2>3, LowBits, SMT
<1> QED
  BY <1>1, <1>2, <1>3, <1>4, <1>5

\* A difference whose five high bits are 0 is shifted, and nothing is fed back.
LEMMA NextQuiet ==
  ASSUME NEW D, D \subseteq 0..24, NEW W, W \subseteq 0..4
  PROVE  NextDifference(D, W) = Shift(D) \cup W
<1>1. 25 \notin D /\ 26 \notin D /\ 27 \notin D /\ 28 \notin D /\ 29 \notin D
  OBVIOUS
<1>2. ASSUME NEW b PROVE Fed(b, D) <=> b \in Shift(D)
  BY <1>1 DEF Fed
<1>3. Shift(D) \subseteq 5..29
  BY DEF Shift
<1>4. \A b \in 0..29 : (Fed(b, D) # (b \in W)) <=> b \in Shift(D) \/ b \in W
  <2>1. ASSUME NEW b \in 0..29, b \in Shift(D) PROVE b \notin W
    BY <1>3, <2>1
  <2>2. \A b \in 0..29 : Fed(b, D) \in BOOLEAN
    BY DEF Fed
  <2> QED BY <1>2, <2>1, <2>2
<1>5. \A b : b \in NextDifference(D, W) <=> b \in 0..29 /\ (b \in Shift(D) \/ b \in W)
  BY <1>4 DEF NextDifference
<1>6. \A b : b \in Shift(D) \/ b \in W => b \in 0..29
  <2>1. \A b : b \in Shift(D) => b \in 0..29
    BY <1>3
  <2>2. \A b : b \in W => b \in 0..29
    OBVIOUS
  <2> QED BY <2>1, <2>2
<1>7. \A b : b \in NextDifference(D, W) <=> b \in Shift(D) \cup W
  BY <1>5, <1>6
<1> QED
  BY <1>7

\* Only no difference turns into none.
LEMMA NextBack ==
  ASSUME NEW D, D \subseteq 0..29, NextDifference(D, {}) = {}
  PROVE  D = {}
<1>1. \A b \in 0..29 : ~Fed(b, D)
  <2>1. \A b \in 0..29 : Fed(b, D) \in BOOLEAN
    BY DEF Fed
  <2> QED BY <2>1 DEF NextDifference
<1>2. \A b \in 0..4 : b \notin Shift(D)
  BY DEF Shift
<1> DEFINE g1 == 25 \in D
           g2 == 26 \in D
           g3 == 27 \in D
           g4 == 28 \in D
           g5 == 29 \in D
<1>3. g1 \in BOOLEAN /\ g2 \in BOOLEAN /\ g3 \in BOOLEAN /\ g4 \in BOOLEAN /\ g5 \in BOOLEAN
  OBVIOUS
<1>4. /\ ~Fed(0, D) /\ ~Fed(1, D) /\ ~Fed(2, D) /\ ~Fed(3, D) /\ ~Fed(4, D)
      /\ 0 \notin Shift(D) /\ 1 \notin Shift(D) /\ 2 \notin Shift(D) /\ 3 \notin Shift(D) /\ 4 \notin Shift(D)
  BY <1>1, <1>2
<1>5. ~((g2 # g4) # g5)
  BY <1>4, Generators DEF Fed
<1>6. ~((g1 # g3) # g5)
  BY <1>4, Generators DEF Fed
<1>7. ~(g2 # g4)
  BY <1>4, Generators DEF Fed
<1>8. ~((g2 # g3) # g4)
  BY <1>4, Generators DEF Fed
<1>9. ~(((g1 # g3) # g4) # g5)
  BY <1>4, Generators DEF Fed
<1> HIDE DEF g1, g2, g3, g4, g5
<1>10. ~g1 /\ ~g2 /\ ~g3 /\ ~g4 /\ ~g5
  BY <1>3, <1>5, <1>6, <1>7, <1>8, <1>9
<1>11. 25 \notin D /\ 26 \notin D /\ 27 \notin D /\ 28 \notin D /\ 29 \notin D
  BY <1>10 DEF g1, g2, g3, g4, g5
<1>12. \A b \in 0..29 : Fed(b, D) <=> b \in Shift(D)
  BY <1>11 DEF Fed
<1>13. ASSUME NEW b \in D PROVE FALSE
  <2>1. b \in 0..24
    BY <1>11
  <2>2. b + 5 \in 0..29 /\ b + 5 \in Shift(D)
    BY <2>1 DEF Shift
  <2> QED BY <1>1, <1>12, <2>2
<1> QED
  BY <1>13

\* Where there was no difference, there is that of the two values.
LEMMA NextFirst ==
  ASSUME NEW W, W \subseteq 0..4
  PROVE  NextDifference({}, W) = W
<1>1. NextDifference({}, W) = Shift({}) \cup W
  BY NextQuiet
<1>2. Shift({}) = {}
  BY DEF Shift
<1> QED
  BY <1>1, <1>2

\* A step with 0.
LEMMA StepZero ==
  ASSUME NEW D, D \subseteq 0..29
  PROVE  Step(D, 0) = NextDifference(D, {}) /\ Step(D, 0) \subseteq 0..29
<1>1. \A b \in 0..29 : b \in Step(D, 0) <=> (Fed(b, D) # (b \in {}))
  BY StepBit, NoBits
<1>2. Step(D, 0) \subseteq 0..29
  BY DEF Step, XorAll
<1> QED
  BY <1>1, <1>2 DEF NextDifference

-----------------------------------------------------------------------------
(* The checksum: differences.                                              *)

\* The states of a checksum, one after each value.
Rounds(values) ==
  LET upTo[n \in 0..Len(values)] == IF n = 0 THEN {0} ELSE Step(upTo[n - 1], values[n])
  IN upTo

\* The checksums under way, one after each value.
AreRounds(f, values) ==
  f = [n \in 0..Len(values) |-> IF n = 0 THEN {0} ELSE Step(f[n - 1], values[n])]

\* A step leads to thirty bits.
LEMMA StepTyped == \A chk, value : Step(chk, value) \in Words
BY DEF Step, XorAll, Words

\* The rounds exist, start with 1, follow one another by Step, and end in Polymod.
LEMMA RoundsAre ==
  ASSUME NEW values, Len(values) \in Nat
  PROVE  /\ Rounds(values) \in [0..Len(values) -> Words]
         /\ Rounds(values)[0] = {0}
         /\ \A n \in 1..Len(values) : Rounds(values)[n] = Step(Rounds(values)[n - 1], values[n])
         /\ Polymod(values) = Rounds(values)[Len(values)]
<1> DEFINE N    == Len(values)
           step == [n \in 1..N |-> [s \in Words |-> Step(s, values[n])]]
           base == {0}
<1>0. N \in Nat
  OBVIOUS
<1>1. base \in Words
  BY DEF Words
<1>2. step \in [1..N -> [Words -> Words]]
  BY StepTyped
<1>3. \E f \in [0..N -> Words] : f[0] = base /\ \A n \in 1..N : f[n] = step[n][f[n - 1]]
  <2> HIDE DEF step, N, base
  <2> QED BY ONLY <1>0, <1>1, <1>2, RecursionUpTo
<1>4. PICK f \in [0..N -> Words] : f[0] = {0} /\ \A n \in 1..N : f[n] = Step(f[n - 1], values[n])
  <2>1. PICK f \in [0..N -> Words] : f[0] = {0} /\ \A n \in 1..N : f[n] = step[n][f[n - 1]]
    BY <1>3
  <2>2. \A n \in 1..N : f[n - 1] \in Words
    OBVIOUS
  <2>3. ASSUME NEW n \in 1..N
        PROVE  step[n][f[n - 1]] = Step(f[n - 1], values[n])
    <3>1. PICK m : m = f[n - 1] /\ m \in Words
      BY <2>2
    <3>2. step[n][m] = Step(m, values[n])
      BY <3>1
    <3> QED BY <3>1, <3>2
  <2> HIDE DEF step, N
  <2>4. \A n \in 1..N : f[n] = Step(f[n - 1], values[n])
    BY <2>1, <2>3
  <2> QED BY <2>1, <2>4
<1>5. AreRounds(f, values)
  <2> DEFINE h == [n \in 0..N |-> IF n = 0 THEN {0} ELSE Step(f[n - 1], values[n])]
  <2>1. \A n \in 0..N : h[n] = f[n]
    BY <1>4
  <2>2. f = [n \in 0..N |-> f[n]] /\ h = [n \in 0..N |-> h[n]]
    OBVIOUS
  <2>3. f = h
    <3> HIDE DEF h, N
    <3> QED BY <2>1, <2>2
  <2> QED BY <2>3 DEF AreRounds
<1> DEFINE g == Rounds(values)
<1>6. g = CHOOSE h : AreRounds(h, values)
  BY DEF Rounds, AreRounds
<1>7. AreRounds(g, values)
  <2> HIDE DEF g
  <2> QED BY <1>5, <1>6
<1>8. Polymod(values) = g[N]
  BY DEF Polymod, Rounds
<1> HIDE DEF g
<1>9. g = [n \in 0..N |-> IF n = 0 THEN base ELSE Step(g[n - 1], values[n])]
  BY <1>7 DEF AreRounds
<1> HIDE DEF base
<1>10. g[0] = base /\ \A n \in 1..N : g[n] = Step(g[n - 1], values[n])
  <2> HIDE DEF N
  <2> QED BY <1>0, <1>9
<1>11. g \in [0..N -> Words]
  <2> HIDE DEF N
  <2>1. ASSUME NEW n \in 0..N PROVE g[n] \in Words
    <3>1. CASE n = 0
      BY <1>1, <1>10, <3>1
    <3>2. CASE n # 0
      <4>1. n \in 1..N
        BY <1>0, <3>2 DEF N
      <4> QED BY <1>10, <4>1, StepTyped
    <3> QED BY <3>1, <3>2
  <2> QED BY <1>9, <2>1
<1> QED
  BY <1>8, <1>10, <1>11 DEF g, base

\* The differences of two checksums under way, and of the values that go in.
AreDifferences(D, W, N) ==
  /\ N \in Nat /\ D[0] = {}
  /\ \A n \in 0..N : D[n] \subseteq 0..29
  /\ \A n \in 1..N : W[n] \subseteq 0..4 /\ D[n] = NextDifference(D[n - 1], W[n])

\* No difference means the same.
LEMMA XorFacts ==
  /\ \A A, B : Xor(A, B) = {} <=> A = B
  /\ \A A, B, C : Xor(A, B) = C => (A = C <=> B = {}) /\ B = Xor(A, C)
<1>1. \A A, B : Xor(A, B) = {} <=> A = B
  BY DEF Xor
<1>2. \A A, B, C : Xor(A, B) = C => (A = C <=> B = {})
  BY DEF Xor
<1>3. \A A, B, C : Xor(A, B) = C => B = Xor(A, C)
  BY DEF Xor
<1> QED
  BY <1>1, <1>2, <1>3

\* Two sequences of one length differ by the differences of their values.
LEMMA Differences ==
  ASSUME NEW x \in Seq(Symbols), NEW y \in Seq(Symbols), Len(x) = Len(y)
  PROVE  \E D, W : /\ AreDifferences(D, W, Len(x))
                   /\ \A n \in 1..Len(x) : W[n] = Xor(BitsOf(x[n]), BitsOf(y[n])) /\ (W[n] = {} <=> x[n] = y[n])
                   /\ D[Len(x)] = Xor(Polymod(x), Polymod(y))
<1> DEFINE N == Len(x)
           a == Rounds(x)
           b == Rounds(y)
           D == [n \in 0..N |-> Xor(a[n], b[n])]
           W == [n \in 1..N |-> Xor(BitsOf(x[n]), BitsOf(y[n]))]
<1>1. N \in Nat /\ Len(y) = N /\ \A n \in 1..N : x[n] \in 0..31 /\ y[n] \in 0..31
  <2>1. \A n \in 1..N : x[n] \in Symbols /\ y[n] \in Symbols
    OBVIOUS
  <2>2. N \in Nat /\ Len(y) = N
    OBVIOUS
  <2> QED BY <2>1, <2>2 DEF Symbols
<1>2. /\ a \in [0..N -> Words] /\ a[0] = {0} /\ \A n \in 1..N : a[n] = Step(a[n - 1], x[n])
      /\ Polymod(x) = a[N]
  BY <1>1, RoundsAre
<1>3. /\ b \in [0..N -> Words] /\ b[0] = {0} /\ \A n \in 1..N : b[n] = Step(b[n - 1], y[n])
      /\ Polymod(y) = b[N]
  BY <1>1, RoundsAre
<1> HIDE DEF a, b, N
<1>4. /\ \A n \in 0..N : D[n] = Xor(a[n], b[n])
      /\ \A n \in 1..N : W[n] = Xor(BitsOf(x[n]), BitsOf(y[n]))
  OBVIOUS
<1> HIDE DEF D, W
<1>5. \A n \in 1..N : W[n] \subseteq 0..4 /\ (W[n] = {} <=> x[n] = y[n])
  <2> SUFFICES ASSUME NEW n \in 1..N PROVE W[n] \subseteq 0..4 /\ (W[n] = {} <=> x[n] = y[n])
    OBVIOUS
  <2>1. /\ BitsOf(x[n]) \subseteq 0..4 /\ Number(BitsOf(x[n])) = x[n]
        /\ BitsOf(y[n]) \subseteq 0..4 /\ Number(BitsOf(y[n])) = y[n]
    BY <1>1, NumberOfBits
  <2>2. W[n] \subseteq 0..4
    BY <1>4, <2>1 DEF Xor
  <2>3. W[n] = {} <=> BitsOf(x[n]) = BitsOf(y[n])
    BY <1>4, XorFacts
  <2> QED BY <2>1, <2>2, <2>3
<1>6. D[0] = {}
  <2>1. 0 \in 0..N
    BY <1>1
  <2>2. D[0] = Xor(a[0], b[0]) /\ a[0] = b[0]
    BY <1>2, <1>3, <1>4, <2>1
  <2> QED BY <2>2, XorFacts
<1>7. \A n \in 0..N : D[n] \subseteq 0..29
  <2>1. \A n \in 0..N : a[n] \subseteq 0..29 /\ b[n] \subseteq 0..29
    BY <1>2, <1>3 DEF Words
  <2> QED BY <1>4, <2>1 DEF Xor
<1>8. \A n \in 1..N : D[n] = NextDifference(D[n - 1], W[n])
  <2> SUFFICES ASSUME NEW n \in 1..N PROVE D[n] = NextDifference(D[n - 1], W[n])
    OBVIOUS
  <2>1. n \in 0..N /\ n - 1 \in 0..N
    BY <1>1
  <2>2. D[n] = Xor(Step(a[n - 1], x[n]), Step(b[n - 1], y[n]))
    BY <1>2, <1>3, <1>4, <2>1
  <2>3. NextDifference(D[n - 1], W[n]) = NextDifference(Xor(a[n - 1], b[n - 1]), Xor(BitsOf(x[n]), BitsOf(y[n])))
    BY <1>4, <2>1
  <2> QED BY <2>2, <2>3, StepDifference
<1>9. D[N] = Xor(Polymod(x), Polymod(y))
  BY <1>1, <1>2, <1>3, <1>4
<1>10. AreDifferences(D, W, N)
  BY <1>1, <1>5, <1>6, <1>7, <1>8 DEF AreDifferences
<1> QED
  BY <1>4, <1>5, <1>9, <1>10 DEF N

\* Before the first wrong value there is no difference.
LEMMA QuietUntil ==
  ASSUME NEW D, NEW W, NEW N, AreDifferences(D, W, N), NEW j \in 0..N,
         \A n \in 1..j : W[n] = {}
  PROVE  D[j] = {}
<1> DEFINE Quiet == {n \in 0..j : D[n] = {}}
<1>1. j \in Nat /\ N \in Nat /\ D[0] = {} /\ \A n \in 1..N : D[n] = NextDifference(D[n - 1], W[n])
  BY DEF AreDifferences
<1>2. 0 \in Quiet
  BY <1>1
<1>3. NextDifference({}, {}) = {}
  BY NextFirst
<1>4. \A n \in 1..j : n - 1 \in Quiet => n \in Quiet
  <2> SUFFICES ASSUME NEW n \in 1..j, n - 1 \in Quiet PROVE n \in Quiet
    OBVIOUS
  <2>1. n \in 1..N /\ n \in 0..j
    BY <1>1
  <2>2. D[n] = NextDifference(D[n - 1], W[n]) /\ D[n - 1] = {} /\ W[n] = {}
    BY <1>1, <2>1
  <2> QED BY <1>3, <2>1, <2>2
<1> HIDE DEF Quiet
<1>5. \A n \in 0..j : n \in Quiet
  BY ONLY <1>1, <1>2, <1>4, InductionUpTo
<1> QED
  BY <1>1, <1>5 DEF Quiet

\* After the last wrong value a difference does not go away.
LEMMA QuietAfter ==
  ASSUME NEW D, NEW W, NEW N, AreDifferences(D, W, N), NEW j \in 0..N, NEW k \in j..N,
         \A n \in j + 1..k : W[n] = {}, D[k] = {}
  PROVE  D[j] = {}
<1> DEFINE M    == k - j
           Gone == {n \in 0..M : D[k - n] = {}}
<1>1. /\ j \in Nat /\ k \in Nat /\ N \in Nat /\ M \in Nat /\ k <= N
      /\ \A n \in 0..N : D[n] \subseteq 0..29
      /\ \A n \in 1..N : D[n] = NextDifference(D[n - 1], W[n])
  BY DEF AreDifferences
<1>2. 0 \in Gone
  BY <1>1
<1>3. \A n \in 1..M : n - 1 \in Gone => n \in Gone
  <2> SUFFICES ASSUME NEW n \in 1..M, n - 1 \in Gone PROVE n \in Gone
    OBVIOUS
  <2>1. PICK m \in 1..N : m = k - (n - 1) /\ m - 1 = k - n /\ m \in j + 1..k /\ m - 1 \in 0..N
    BY <1>1
  <2>2. D[m] = {} /\ W[m] = {} /\ D[m] = NextDifference(D[m - 1], W[m]) /\ D[m - 1] \subseteq 0..29
    BY <1>1, <2>1
  <2>3. D[m - 1] = {}
    BY <2>2, NextBack
  <2> QED BY <2>1, <2>3
<1> HIDE DEF Gone, M
<1>4. \A n \in 0..M : n \in Gone
  BY ONLY <1>1, <1>2, <1>3, InductionUpTo
<1>5. M \in Gone
  BY <1>1, <1>4
<1>6. D[k - M] = {} /\ k - M = j
  BY <1>1, <1>5 DEF Gone, M
<1> QED
  BY <1>6

\* Up to six values in a row, from the first wrong one on, leave a difference.
LEMMA Burst ==
  ASSUME NEW D, NEW W, NEW N, AreDifferences(D, W, N), NEW i \in 1..N, NEW j \in i..N,
         j <= i + 5, D[i - 1] = {}, W[i] # {}
  PROVE  D[j] # {}
<1> DEFINE M    == j - i
           Here == {n \in 0..M : D[i + n] # {} /\ D[i + n] \subseteq 0..5 * n + 4}
<1>1. /\ i \in Nat /\ j \in Nat /\ N \in Nat /\ M \in 0..5 /\ j <= N /\ i >= 1
      /\ \A n \in 1..N : W[n] \subseteq 0..4 /\ D[n] = NextDifference(D[n - 1], W[n])
  BY DEF AreDifferences
<1>2. 0 \in Here
  <2>1. D[i] = NextDifference({}, W[i]) /\ W[i] \subseteq 0..4
    BY <1>1
  <2>2. D[i] = W[i]
    BY <2>1, NextFirst
  <2>3. i + 0 = i /\ 5 * 0 + 4 = 4 /\ 0 \in 0..M
    BY <1>1
  <2> QED BY <2>1, <2>2, <2>3
<1>3. \A n \in 1..M : n - 1 \in Here => n \in Here
  <2> SUFFICES ASSUME NEW n \in 1..M, n - 1 \in Here PROVE n \in Here
    OBVIOUS
  <2>1. PICK m \in 1..N : m = i + n /\ m - 1 = i + (n - 1)
    BY <1>1
  <2> DEFINE E == D[m - 1]
  <2>2. E # {} /\ E \subseteq 0..5 * n - 1 /\ n <= 5
    BY <1>1, <2>1
  <2>3. D[m] = NextDifference(E, W[m]) /\ W[m] \subseteq 0..4
    BY <1>1
  <2> HIDE DEF E, Here, M
  <2>4. E \subseteq 0..24
    BY <2>2, <1>1
  <2>5. D[m] = Shift(E) \cup W[m]
    BY <2>3, <2>4, NextQuiet
  <2>6. Shift(E) # {}
    <3>1. PICK e \in E : e \in 0..24
      BY <2>2, <2>4
    <3>2. e + 5 \in Shift(E)
      BY <3>1 DEF Shift
    <3> QED BY <3>2
  <2>7. n \in Nat /\ n >= 1
    BY <1>1 DEF M
  <2>8. Shift(E) \subseteq 0..5 * n + 4
    BY <2>2, <2>7 DEF Shift
  <2>9. W[m] \subseteq 0..5 * n + 4
    BY <2>3, <2>7
  <2>10. D[i + n] # {} /\ D[i + n] \subseteq 0..5 * n + 4
    BY <2>1, <2>5, <2>6, <2>8, <2>9
  <2>11. n \in 0..M
    BY <1>1
  <2> QED BY <2>10, <2>11 DEF Here
<1> HIDE DEF Here, M
<1>4. M \in Nat
  BY <1>1
<1>5. \A n \in 0..M : n \in Here
  BY ONLY <1>4, <1>2, <1>3, InductionUpTo
<1>6. M \in Here
  BY <1>4, <1>5
<1>7. D[i + M] # {} /\ i + M = j
  BY <1>1, <1>6 DEF Here, M
<1> QED
  BY <1>7

\* What Spread is.
IsSpread(f) ==
  f = [n \in 0..KeySymbols - 1 |->
         IF n = 0 THEN {BitsOf(value) : value \in 1..31} ELSE {Step(chk, 0) : chk \in f[n - 1]}]

\* Spread exists, and each set of it comes from the one before by a step with 0.
LEMMA SpreadIs ==
  /\ Spread[0] = {BitsOf(value) : value \in 1..31}
  /\ \A n \in 1..KeySymbols - 1 : Spread[n] = {Step(chk, 0) : chk \in Spread[n - 1]}
<1> DEFINE N    == KeySymbols - 1
           V    == SUBSET SUBSET (0..29)
           base == {BitsOf(value) : value \in 1..31}
           step == [n \in 1..N |-> [s \in V |-> {Step(chk, 0) : chk \in s}]]
<1>1. N \in Nat
  BY DEF KeySymbols
<1>2. base \in V
  BY DEF BitsOf
<1>3. step \in [1..N -> [V -> V]]
  <2>1. \A s \in V : {Step(chk, 0) : chk \in s} \in V
    BY StepTyped DEF Words
  <2> HIDE DEF V, N
  <2> QED BY <2>1
<1>4. \E f \in [0..N -> V] : f[0] = base /\ \A n \in 1..N : f[n] = step[n][f[n - 1]]
  <2> HIDE DEF step, N, base, V
  <2> QED BY ONLY <1>1, <1>2, <1>3, RecursionUpTo
<1> HIDE DEF V, base
<1>5. PICK f \in [0..N -> V] : f[0] = base /\ \A n \in 1..N : f[n] = {Step(chk, 0) : chk \in f[n - 1]}
  <2>1. PICK f \in [0..N -> V] : f[0] = base /\ \A n \in 1..N : f[n] = step[n][f[n - 1]]
    BY <1>4
  <2> HIDE DEF N
  <2>2. \A n \in 1..N : f[n - 1] \in V
    BY <1>1
  <2>3. \A n \in 1..N : step[n][f[n - 1]] = {Step(chk, 0) : chk \in f[n - 1]}
    BY <2>2
  <2> QED BY <2>1, <2>3
<1>6. IsSpread(f)
  <2> DEFINE image(s) == {Step(chk, 0) : chk \in s}
             h == [n \in 0..N |-> IF n = 0 THEN base ELSE image(f[n - 1])]
  <2>0. \A n \in 1..N : f[n] = image(f[n - 1])
    BY <1>5
  <2>1. \A n \in 0..N : h[n] = f[n]
    <3> HIDE DEF N, image
    <3> QED BY <1>1, <1>5, <2>0
  <2>2. f = [n \in 0..N |-> f[n]] /\ h = [n \in 0..N |-> h[n]]
    OBVIOUS
  <2>3. f = h
    <3> HIDE DEF h, N
    <3> QED BY <2>1, <2>2
  <2> QED BY <2>3 DEF IsSpread, base
<1>7. Spread = CHOOSE h : IsSpread(h)
  BY DEF Spread, IsSpread
<1>8. IsSpread(Spread)
  BY <1>6, <1>7
<1>9. Spread = [n \in 0..N |-> IF n = 0 THEN base ELSE {Step(chk, 0) : chk \in Spread[n - 1]}]
  BY <1>8 DEF IsSpread, base
<1> HIDE DEF N
<1>10. Spread[0] = base /\ \A n \in 1..N : Spread[n] = {Step(chk, 0) : chk \in Spread[n - 1]}
  BY <1>1, <1>9
<1> QED
  BY <1>10 DEF base, N

\* Two wrong values that are not too far apart leave a difference.
LEMMA TwoWrong ==
  ASSUME NEW D, NEW W, NEW N, AreDifferences(D, W, N), NEW i \in 1..N, NEW j \in i + 1..N,
         j < i + KeySymbols, D[i - 1] = {}, W[i] # {}, \A n \in i + 1..j - 1 : W[n] = {}
  PROVE  D[j] # {}
<1> DEFINE M    == j - 1 - i
           Near == {n \in 0..M : D[i + n] \in Spread[n]}
<1>1. /\ i \in Nat /\ j \in Nat /\ N \in Nat /\ M \in Nat /\ M <= 56 /\ j <= N /\ i >= 1
      /\ \A n \in 0..N : D[n] \subseteq 0..29
      /\ \A n \in 1..N : W[n] \subseteq 0..4 /\ D[n] = NextDifference(D[n - 1], W[n])
  <2>1. KeySymbols = 58
    BY DEF KeySymbols
  <2>2. i \in Nat /\ j \in Nat /\ N \in Nat /\ M \in Nat /\ M <= 56 /\ j <= N /\ i >= 1
    BY <2>1 DEF AreDifferences
  <2> QED BY <2>2 DEF AreDifferences
<1>2. /\ Spread[0] = {BitsOf(value) : value \in 1..31}
      /\ \A n \in 1..57 : Spread[n] = {Step(chk, 0) : chk \in Spread[n - 1]}
      /\ \A n \in 1..57 : \A chk \in Spread[n] : chk \subseteq 0..4 => chk = {}
  <2>1. KeySymbols - 1 = 57
    BY DEF KeySymbols
  <2> QED BY <2>1, SpreadIs, GeneratorAssumption
<1>3. D[i] = W[i]
  <2>1. D[i] = NextDifference({}, W[i]) /\ W[i] \subseteq 0..4
    BY <1>1
  <2> QED BY <2>1, NextFirst
<1>4. 0 \in Near
  <2> DEFINE v == Number(W[i])
  <2>1. v \in 0..31 /\ BitsOf(v) = W[i]
    BY <1>1, NumberOfBits
  <2> HIDE DEF v
  <2>2. v # 0
    BY <2>1, NoBits
  <2>3. v \in 1..31
    BY <2>1, <2>2
  <2>4. W[i] \in Spread[0]
    BY <1>2, <2>1, <2>3
  <2>5. i + 0 = i /\ 0 \in 0..M
    BY <1>1
  <2> QED BY <1>3, <2>4, <2>5
<1>5. \A n \in 1..M : n - 1 \in Near => n \in Near
  <2> SUFFICES ASSUME NEW n \in 1..M, n - 1 \in Near PROVE n \in Near
    OBVIOUS
  <2>1. PICK m \in 1..N : m = i + n /\ m - 1 = i + (n - 1) /\ m \in i + 1..j - 1 /\ m - 1 \in 0..N
    BY <1>1
  <2> DEFINE E == D[m - 1]
  <2>2. E \in Spread[n - 1] /\ E \subseteq 0..29
    BY <1>1, <2>1
  <2>3. D[m] = NextDifference(E, {})
    BY <1>1, <2>1
  <2> HIDE DEF E
  <2>4. D[m] = Step(E, 0)
    BY <2>2, <2>3, StepZero
  <2>5. n \in 1..57 /\ n \in 0..M
    BY <1>1
  <2>6. D[m] \in Spread[n]
    BY <1>2, <2>2, <2>4, <2>5
  <2> QED BY <2>1, <2>5, <2>6
<1>6. D[j - 1] \in Spread[M]
  <2> HIDE DEF Near, M
  <2>1. \A n \in 0..M : n \in Near
    BY ONLY <1>1, <1>4, <1>5, InductionUpTo
  <2>2. M \in Near
    BY <1>1, <2>1
  <2>3. D[i + M] \in Spread[M]
    BY <2>2 DEF Near
  <2>4. i + M = j - 1
    BY <1>1 DEF M
  <2> QED BY <2>3, <2>4
<1> SUFFICES ASSUME D[j] = {} PROVE FALSE
  OBVIOUS
<1> DEFINE E == D[j - 1]
<1>7. j \in 1..N /\ j - 1 \in 0..N /\ i \in 0..N /\ j - 1 \in i..N /\ M + 1 \in 1..57 /\ M + 1 - 1 = M
  BY <1>1
<1>8. E \subseteq 0..29 /\ W[j] \subseteq 0..4 /\ NextDifference(E, W[j]) = {}
  BY <1>1, <1>7
<1>9. NextDifference(E, {}) = {}
  <2>1. Step(E, 0) \in Spread[M + 1]
    <3>1. PICK q \in 1..57 : q = M + 1 /\ q - 1 = M
      BY <1>7
    <3> HIDE DEF M
    <3>2. Spread[q] = {Step(chk, 0) : chk \in Spread[q - 1]}
      BY <1>2
    <3>3. Step(E, 0) \in Spread[q]
      BY <1>6, <3>1, <3>2
    <3> QED BY <3>1, <3>3
  <2> HIDE DEF E, M
  <2>2. Step(E, 0) = NextDifference(E, {})
    BY <1>8, StepZero
  <2>3. NextDifference(E, {}) \subseteq 0..4
    <3>1. \A b \in 0..29 : ~(Fed(b, E) # (b \in W[j]))
      BY <1>8 DEF NextDifference
    <3>2. \A b \in 0..29 : Fed(b, E) \in BOOLEAN
      BY DEF Fed
    <3>3. \A b \in 0..29 : Fed(b, E) => b \in W[j]
      BY <3>1, <3>2
    <3>4. \A b \in NextDifference(E, {}) : b \in 0..29 /\ Fed(b, E)
      BY <3>2 DEF NextDifference
    <3> QED BY <1>8, <3>3, <3>4
  <2> QED BY <1>2, <1>7, <2>1, <2>2, <2>3
<1>10. E = {}
  <2> HIDE DEF E
  <2> QED BY <1>8, <1>9, NextBack
<1>11. D[i] = {}
  <2>1. \A n \in i + 1..j - 1 : W[n] = {}
    OBVIOUS
  <2> QED BY <1>7, <1>10, <2>1, QuietAfter
<1> QED
  BY <1>3, <1>11

\* Values that are wrong at a few places, of two that have the same checksum.
LEMMA WrongIsNoticed ==
  ASSUME NEW D, NEW W, NEW N, AreDifferences(D, W, N), D[N] = {},
         NEW i \in 1..N, NEW j \in i..N, j < i + KeySymbols,
         \A n \in 1..N : W[n] # {} => n \in i..j,
         j <= i + 5 \/ \A n \in 1..N : W[n] # {} => n \in {i, j}
  PROVE  \A n \in 1..N : W[n] = {}
<1> SUFFICES ASSUME NEW m \in 1..N, W[m] # {} PROVE FALSE
  OBVIOUS
<1>1. N \in Nat /\ i \in Nat /\ j \in Nat /\ 1 <= i /\ i <= j /\ j <= N
  BY DEF AreDifferences
<1>2. PICK k \in 1..N : W[k] # {} /\ \A n \in 1..N : W[n] # {} => k <= n
  <2> DEFINE P == {n \in 1..N : W[n] # {}}
  <2>1. P \subseteq Nat /\ P # {}
    OBVIOUS
  <2>2. \E n \in P : \A o \in P : n <= o
    <3> HIDE DEF P
    <3> QED BY <2>1, LeastMember
  <2> QED BY <2>2
<1>3. k \in i..j /\ k \in Nat
  BY <1>2
<1>4. D[k - 1] = {}
  <2>1. k - 1 \in 0..N /\ \A n \in 1..k - 1 : n \in 1..N /\ ~(k <= n)
    BY <1>1
  <2>2. \A n \in 1..k - 1 : W[n] = {}
    BY <1>2, <2>1
  <2> QED BY <2>1, <2>2, QuietUntil
<1>5. D[j] = {}
  <2>1. j \in 0..N /\ N \in j..N /\ \A n \in j + 1..N : n \in 1..N /\ n \notin i..j
    BY <1>1
  <2>2. \A n \in j + 1..N : W[n] = {}
    BY <2>1
  <2> QED BY <2>1, <2>2, QuietAfter
<1>6. CASE j <= k + 5
  <2>1. j \in k..N
    BY <1>1, <1>3
  <2>2. D[j] # {}
    BY <1>2, <1>4, <1>6, <2>1, Burst
  <2> QED BY <1>5, <2>2
<1>7. CASE ~(j <= k + 5)
  <2>1. \A n \in 1..N : W[n] # {} => n \in {i, j}
    BY <1>1, <1>3, <1>7
  <2>2. j \in k + 1..N /\ j < k + KeySymbols
    BY <1>1, <1>3, <1>7 DEF KeySymbols
  <2>3. \A n \in k + 1..j - 1 : n \in 1..N /\ n # i /\ n # j
    BY <1>1, <1>3
  <2>4. \A n \in k + 1..j - 1 : W[n] = {}
    BY <2>1, <2>3
  <2>5. D[j] # {}
    BY <1>2, <1>4, <2>2, <2>4, TwoWrong
  <2> QED BY <1>5, <2>5
<1> QED
  BY <1>6, <1>7

-----------------------------------------------------------------------------
(* The checksum: what is created is what fits.                             *)

\* There is no difference before the last six values.
StartsAt(D, L, N) == L \in Nat /\ N = L + 6 /\ D[L] = {}

\* Six values behind no difference are side by side in the last difference.
LEMMA Packed ==
  ASSUME NEW D, NEW W, NEW L, NEW N, AreDifferences(D, W, N), StartsAt(D, L, N)
  PROVE  \A b \in 0..29 : b \in D[N] <=> b % 5 \in W[N - (b \div 5)]
<1> DEFINE In(b, n) == b \div 5 < n /\ b % 5 \in W[L + n - (b \div 5)]
           Here     == {n \in 0..6 : \A b \in 0..29 : b \in D[L + n] <=> In(b, n)}
<1>0. L \in Nat /\ N = L + 6 /\ D[L] = {}
  BY DEF StartsAt
<1>1. /\ \A n \in 0..N : D[n] \subseteq 0..29
      /\ \A n \in 1..N : W[n] \subseteq 0..4 /\ D[n] = NextDifference(D[n - 1], W[n])
  BY DEF AreDifferences
<1>2. \A b \in 0..29 : b \div 5 \in 0..5 /\ b % 5 \in 0..4
  OBVIOUS
<1>3. 0 \in Here
  <2>1. L + 0 = L /\ \A b \in 0..29 : ~(b \div 5 < 0)
    BY <1>0, <1>2
  <2> QED BY <1>0, <2>1
<1>4. ASSUME NEW n \in 1..6, n - 1 \in Here PROVE n \in Here
  <2>1. PICK m \in 1..N : m = L + n /\ m - 1 = L + (n - 1)
    BY <1>0
  <2> DEFINE E == D[m - 1]
  <2>2. \A b \in 0..29 : b \in E <=> In(b, n - 1)
    BY <1>4, <2>1
  <2>3. E \subseteq 0..29 /\ W[m] \subseteq 0..4 /\ D[m] = NextDifference(E, W[m])
    BY <1>0, <1>1
  <2> HIDE DEF E, Here
  <2>4. E \subseteq 0..24
    <3>1. \A b \in 0..29 : b \div 5 < n - 1 => b \in 0..24
      OBVIOUS
    <3> QED BY <2>2, <2>3, <3>1
  <2>5. D[m] = Shift(E) \cup W[m]
    BY <2>3, <2>4, NextQuiet
  <2>6. ASSUME NEW b \in 0..29 PROVE b \in D[m] <=> In(b, n)
    <3>1. CASE b < 5
      <4>1. b \div 5 = 0 /\ b % 5 = b
        BY <3>1
      <4>2. b \notin Shift(E)
        BY <3>1 DEF Shift
      <4>3. 0 < n /\ L + n - 0 = m
        BY <2>1
      <4> QED BY <2>5, <4>1, <4>2, <4>3
    <3>2. CASE b >= 5
      <4>1. PICK a \in 0..24 : b = a + 5
        BY <3>2
      <4>2. b \div 5 = (a \div 5) + 1 /\ b % 5 = a % 5
        BY <4>1
      <4>3. PICK q \in 0..5 : q = a \div 5
        BY <1>2
      <4>4. b \notin W[m]
        BY <2>3, <3>2
      <4>5. b \in D[m] <=> a \in E
        <5>1. b - 5 = a
          BY <4>1
        <5> QED BY <2>5, <3>2, <4>4, <5>1, ShiftBit
      <4>6. a \in E <=> In(a, n - 1)
        BY <2>2
      <4>7. (q < n - 1 <=> q + 1 < n) /\ L + (n - 1) - q = L + n - (q + 1)
        BY <1>0
      <4>8. In(a, n - 1) <=> In(b, n)
        BY <4>2, <4>3, <4>7
      <4> QED BY <4>5, <4>6, <4>8
    <3> QED BY <3>1, <3>2
  <2> QED BY <2>1, <2>6 DEF Here
<1> HIDE DEF Here
<1>5. 6 \in Here
  <2>1. 1 - 1 = 0 /\ 2 - 1 = 1 /\ 3 - 1 = 2 /\ 4 - 1 = 3 /\ 5 - 1 = 4 /\ 6 - 1 = 5
    OBVIOUS
  <2> QED BY <1>3, <1>4, <2>1
<1>6. \A b \in 0..29 : b \in D[N] <=> In(b, 6)
  BY <1>0, <1>5 DEF Here
<1>7. \A b \in 0..29 : b \div 5 < 6
  BY <1>2
<1> QED
  BY <1>0, <1>6, <1>7

\* What is in front of the symbols.
Front(hrp) == HrpExpand(Codes[hrp])

\* The characters of a human-readable part are expanded to symbols.
LEMMA FrontTyped ==
  ASSUME NEW hrp \in Hrps
  PROVE  Front(hrp) \in Seq(Symbols)
<1> DEFINE codes == Codes[hrp]
           high  == [i \in DOMAIN codes |-> codes[i] \div 32]
           low   == [i \in DOMAIN codes |-> codes[i] % 32]
<1>1. codes \in Seq(0..127)
  <2>1. CASE hrp = "npub"
    BY <2>1 DEF Codes
  <2>2. CASE hrp = "nsec"
    BY <2>2 DEF Codes
  <2>3. CASE hrp = "note"
    BY <2>3 DEF Codes
  <2> QED BY <2>1, <2>2, <2>3 DEF Hrps
<1>2. Front(hrp) = (high \o <<0>>) \o low
  BY DEF Front, HrpExpand
<1> HIDE DEF codes
<1>3. /\ Len(codes) \in Nat /\ DOMAIN codes = 1..Len(codes)
      /\ \A i \in 1..Len(codes) : codes[i] \in 0..127
  <2> DEFINE T == 0..127
  <2>1. codes \in Seq(T)
    BY <1>1
  <2> HIDE DEF T
  <2>2. /\ Len(codes) \in Nat /\ DOMAIN codes = 1..Len(codes)
        /\ \A i \in 1..Len(codes) : codes[i] \in T
    BY <2>1
  <2> QED BY <2>2 DEF T
<1>4. \A c \in 0..127 : c \div 32 \in 0..31 /\ c % 32 \in 0..31
  OBVIOUS
<1>5. \A i \in 1..Len(codes) : codes[i] \div 32 \in Symbols /\ codes[i] % 32 \in Symbols
  BY <1>3, <1>4 DEF Symbols
<1>6. high \in Seq(Symbols) /\ low \in Seq(Symbols)
  BY <1>3, <1>5
<1>7. <<0>> \in Seq(Symbols)
  <2>1. 0 \in Symbols
    BY DEF Symbols
  <2> QED BY <2>1
<1> HIDE DEF high, low
<1> QED
  BY <1>2, <1>6, <1>7

\* The five bits of a checksum that become its i-th symbol.
Cut(poly, i) == {b - 5 * (6 - i) : b \in poly \cap 5 * (6 - i)..5 * (6 - i) + 4}

\* What is cut out of a checksum is five bits of it.
LEMMA CutIs ==
  ASSUME NEW poly, NEW i \in 1..6
  PROVE  Cut(poly, i) \subseteq 0..4 /\ \A r \in 0..4 : r \in Cut(poly, i) <=> r + 5 * (6 - i) \in poly
<1>1. PICK k \in 0..25 : k = 5 * (6 - i)
  OBVIOUS
<1>2. Cut(poly, i) = {b - k : b \in poly \cap k..k + 4}
  BY <1>1 DEF Cut
<1>3. \A r \in 0..4 : r + k \in k..k + 4 /\ r + k - k = r
  OBVIOUS
<1>4. \A b \in k..k + 4 : b - k \in 0..4 /\ b - k + k = b
  OBVIOUS
<1>5. Cut(poly, i) \subseteq 0..4
  BY <1>2, <1>4
<1>6. ASSUME NEW r \in 0..4 PROVE r \in Cut(poly, i) <=> r + k \in poly
  <2>1. ASSUME r \in Cut(poly, i) PROVE r + k \in poly
    <3>1. PICK b \in poly \cap k..k + 4 : r = b - k
      BY <1>2, <2>1
    <3> QED BY <1>4, <3>1
  <2>2. ASSUME r + k \in poly PROVE r \in Cut(poly, i)
    <3>1. PICK b \in poly \cap k..k + 4 : b = r + k /\ b - k = r
      BY <1>3, <2>2
    <3> QED BY <1>2, <3>1
  <2> QED BY <2>1, <2>2
<1> QED
  BY <1>1, <1>5, <1>6

\* The exclusive or that CreateChecksum cuts up.
Sum(hrp, data) == XorAll(<<Polymod((Front(hrp) \o data) \o [i \in 1..6 |-> 0]), {0}>>)

\* A function of the numbers up to K is a sequence of length K.
LEMMA SeqOf ==
  ASSUME NEW S, NEW K \in Nat, NEW s \in [1..K -> S]
  PROVE  s \in Seq(S) /\ Len(s) = K /\ \A i \in 1..K : s[i] \in S
OBVIOUS

\* CreateChecksum makes six symbols, whose bits are cut out of the exclusive or.
LEMMA CreateIs ==
  ASSUME NEW hrp, NEW data
  PROVE  /\ CreateChecksum(hrp, data) = [i \in 1..6 |-> Number(Cut(Sum(hrp, data), i))]
         /\ CreateChecksum(hrp, data) \in [1..6 -> Symbols]
         /\ \A i \in 1..6 : BitsOf(CreateChecksum(hrp, data)[i]) = Cut(Sum(hrp, data), i)
<1> DEFINE s == CreateChecksum(hrp, data)
           n(i) == Number(Cut(Sum(hrp, data), i))
<1>1. s = [i \in 1..6 |-> n(i)]
  BY DEF CreateChecksum, Sum, Cut, Front
<1>2. \A i \in 1..6 : n(i) \in Symbols /\ BitsOf(n(i)) = Cut(Sum(hrp, data), i)
  BY CutIs, NumberOfBits DEF Symbols
<1>3. s = [i \in 1..6 |-> Number(Cut(Sum(hrp, data), i))]
  BY <1>1
<1> HIDE DEF s, n
<1>4. s \in [1..6 -> Symbols] /\ \A i \in 1..6 : s[i] = n(i)
  BY <1>1, <1>2
<1> QED
  BY <1>2, <1>3, <1>4 DEF s

\* The exclusive or of two words as a difference.
LEMMA SumIs ==
  ASSUME NEW p, p \in Words
  PROVE  XorAll(<<p, {0}>>) = Xor(p, {0})
<1> DEFINE words == <<p, {0}>>
           q     == {0}
<1>1. DOMAIN words = 1..2 /\ words[1] = p /\ words[2] = q
  OBVIOUS
<1>2. q \subseteq 0..29 /\ p \subseteq 0..29
  BY DEF Words
<1> HIDE DEF words, q
<1>3. \A b \in 0..29 : b \in XorAll(words) <=> ((b \in p) # (b \in q))
  BY <1>1, XorOfTwo
<1>4. \A b \in 0..29 : b \in Xor(p, q) <=> ((b \in p) # (b \in q))
  BY DEF Xor
<1>5. XorAll(words) \subseteq 0..29 /\ Xor(p, q) \subseteq 0..29
  BY <1>2 DEF XorAll, Xor
<1>6. XorAll(words) = Xor(p, q)
  BY <1>3, <1>4, <1>5
<1> QED
  BY <1>6 DEF words, q

\* A length of six.
IsSix(K) == K = 6

\* A checksum fits if it is the one that is created, and no other fits.
LEMMA SixFit ==
  ASSUME NEW hrp \in Hrps, NEW data \in Seq(Symbols), NEW K \in Nat, IsSix(K),
         NEW sum \in Seq(Symbols), Len(sum) = K
  PROVE  VerifyChecksum(hrp, data \o sum) <=> sum = CreateChecksum(hrp, data)
<1> DEFINE front == Front(hrp) \o data
           zeros == [i \in 1..6 |-> 0]
           x     == front \o sum
           y     == front \o zeros
           L     == Len(front)
           N     == L + K
<1>0. K \in Nat /\ sum \in Seq(Symbols) /\ Len(sum) = K /\ \A i \in 1..6 : sum[i] \in Symbols
  <2>1. \A i \in 1..K : sum[i] \in Symbols
    OBVIOUS
  <2> QED BY <2>1 DEF IsSix
<1>1. Front(hrp) \in Seq(Symbols) /\ front \in Seq(Symbols) /\ L \in Nat
  BY FrontTyped
<1>2. VerifyChecksum(hrp, data \o sum) <=> Polymod(x) = {0}
  <2>1. Front(hrp) \o (data \o sum) = front \o sum
    <3> DEFINE head == Front(hrp)
    <3>1. head \in Seq(Symbols) /\ data \in Seq(Symbols) /\ sum \in Seq(Symbols)
      BY <1>0, <1>1
    <3> HIDE DEF head
    <3>2. head \o (data \o sum) = (head \o data) \o sum
      BY ONLY <3>1, ConcatAssociative
    <3> QED BY <3>2 DEF head
  <2> QED BY <2>1 DEF VerifyChecksum, Front
<1> HIDE DEF front
<1>3. zeros \in Seq(Symbols) /\ Len(zeros) = K /\ \A i \in 1..6 : zeros[i] = 0
  <2>1. 0 \in Symbols
    BY DEF Symbols
  <2>2. K \in Nat /\ zeros \in [1..K -> Symbols] /\ \A i \in 1..6 : zeros[i] = 0
    BY <2>1 DEF IsSix
  <2> HIDE DEF zeros
  <2>3. zeros \in Seq(Symbols) /\ Len(zeros) = K
    BY <2>2, SeqOf
  <2> QED BY <2>2, <2>3
<1> HIDE DEF zeros
<1>4. /\ x \in Seq(Symbols) /\ Len(x) = N /\ y \in Seq(Symbols) /\ Len(y) = N
      /\ \A n \in 1..N : /\ x[n] = IF n <= L THEN front[n] ELSE sum[n - L]
                         /\ y[n] = IF n <= L THEN front[n] ELSE zeros[n - L]
  <2> HIDE DEF L
  <2>1. front \in Seq(Symbols) /\ sum \in Seq(Symbols) /\ zeros \in Seq(Symbols) /\ L \in Nat /\ K \in Nat
    BY <1>0, <1>1, <1>3
  <2>2. Len(front) = L /\ Len(sum) = K /\ Len(zeros) = K
    BY <1>0, <1>3 DEF L
  <2>3. /\ x \in Seq(Symbols) /\ Len(x) = N
        /\ \A n \in 1..N : x[n] = IF n <= L THEN front[n] ELSE sum[n - L]
    <3>1. /\ x \in Seq(Symbols) /\ Len(x) = Len(front) + Len(sum)
          /\ \A n \in 1..Len(front) + Len(sum) : x[n] = IF n <= Len(front) THEN front[n] ELSE sum[n - Len(front)]
      BY ONLY <2>1, Joined
    <3> HIDE DEF x
    <3> QED BY <2>2, <3>1
  <2>4. /\ y \in Seq(Symbols) /\ Len(y) = N
        /\ \A n \in 1..N : y[n] = IF n <= L THEN front[n] ELSE zeros[n - L]
    <3>1. /\ y \in Seq(Symbols) /\ Len(y) = Len(front) + Len(zeros)
          /\ \A n \in 1..Len(front) + Len(zeros) : y[n] = IF n <= Len(front) THEN front[n] ELSE zeros[n - Len(front)]
      BY ONLY <2>1, Joined
    <3> HIDE DEF y
    <3> QED BY <2>2, <3>1
  <2> QED BY <2>3, <2>4
<1> HIDE DEF x, y, L
<1>5. PICK D, W : /\ AreDifferences(D, W, N)
                  /\ \A n \in 1..N : W[n] = Xor(BitsOf(x[n]), BitsOf(y[n])) /\ (W[n] = {} <=> x[n] = y[n])
                  /\ D[N] = Xor(Polymod(x), Polymod(y))
  <2> HIDE DEF N
  <2>1. x \in Seq(Symbols) /\ y \in Seq(Symbols) /\ Len(x) = N /\ Len(y) = N
    BY <1>4
  <2>2. Len(x) = Len(y)
    BY <2>1
  <2>3. \E D, W : /\ AreDifferences(D, W, Len(x))
                  /\ \A n \in 1..Len(x) : W[n] = Xor(BitsOf(x[n]), BitsOf(y[n])) /\ (W[n] = {} <=> x[n] = y[n])
                  /\ D[Len(x)] = Xor(Polymod(x), Polymod(y))
    BY ONLY <2>1, <2>2, Differences
  <2> QED BY <2>1, <2>3
<1>6. D[L] = {}
  <2>1. L \in 0..N /\ \A n \in 1..L : n \in 1..N /\ n <= L
    BY <1>0, <1>1
  <2>2. \A n \in 1..L : W[n] = {}
    <3> HIDE DEF N
    <3> QED BY <1>4, <1>5, <2>1
  <2> QED BY <1>5, <2>1, <2>2, QuietUntil
<1>7. \A i \in 1..6 : W[L + i] = BitsOf(sum[i]) /\ sum[i] \in 0..31
  <2> SUFFICES ASSUME NEW i \in 1..6 PROVE W[L + i] = BitsOf(sum[i]) /\ sum[i] \in 0..31
    OBVIOUS
  <2>1. PICK n \in 1..N : n = L + i /\ ~(n <= L) /\ n - L = i
    BY <1>1 DEF IsSix
  <2>2. x[n] = sum[i] /\ y[n] = 0
    BY <1>3, <1>4, <2>1
  <2>3. W[n] = Xor(BitsOf(sum[i]), {})
    BY <1>5, <2>2, NoBits
  <2>4. sum[i] \in Symbols
    BY <1>0
  <2> QED BY <2>1, <2>3, <2>4 DEF Xor, Symbols
<1> DEFINE P == Sum(hrp, data)
<1>8. Polymod(x) \in Words /\ Polymod(y) \in Words
  <2>1. \A values : Len(values) \in Nat => Polymod(values) \in Words
    <3> SUFFICES ASSUME NEW values, Len(values) \in Nat PROVE Polymod(values) \in Words
      OBVIOUS
    <3>1. Len(values) \in 0..Len(values)
      OBVIOUS
    <3> QED BY <3>1, RoundsAre
  <2>2. Len(x) \in Nat /\ Len(y) \in Nat
    BY <1>0, <1>1, <1>4
  <2> QED BY <2>1, <2>2
<1>9. Polymod(x) = {0} <=> D[N] = P
  <2>1. P = Xor(Polymod(y), {0})
    BY <1>8, SumIs DEF Sum, front, zeros, y
  <2>2. Xor(Polymod(x), Polymod(y)) = Xor(Polymod(y), {0}) <=> Polymod(x) = {0}
    <3> DEFINE q == {0}
    <3> HIDE DEF q
    <3>1. \A A, B : Xor(A, B) = Xor(B, q) <=> A = q
      BY DEF Xor
    <3> QED BY <3>1 DEF q
  <2> QED BY <1>5, <2>1, <2>2
<1>10. P \subseteq 0..29 /\ D[N] \subseteq 0..29
  <2>1. N \in 0..N
    BY <1>0, <1>1
  <2> QED BY <1>5, <2>1 DEF Sum, XorAll, AreDifferences
<1>11. \A b \in 0..29 : b \in D[N] <=> b % 5 \in W[N - (b \div 5)]
  <2>1. N = L + 6
    BY DEF IsSix
  <2>2. AreDifferences(D, W, N) /\ StartsAt(D, L, N)
    BY <1>1, <1>5, <1>6, <2>1 DEF StartsAt
  <2> HIDE DEF N
  <2> QED BY ONLY <2>2, Packed
<1> HIDE DEF P
<1>12. \A b \in 0..29 : \E i \in 1..6 : \E r \in 0..4 :
         i = 6 - (b \div 5) /\ r = b % 5 /\ b = r + 5 * (6 - i) /\ N - (b \div 5) = L + i
  <2> SUFFICES ASSUME NEW b \in 0..29
               PROVE  \E i \in 1..6 : \E r \in 0..4 :
                        i = 6 - (b \div 5) /\ r = b % 5 /\ b = r + 5 * (6 - i) /\ N - (b \div 5) = L + i
    OBVIOUS
  <2>1. PICK i \in 1..6 : i = 6 - (b \div 5)
    OBVIOUS
  <2>2. PICK r \in 0..4 : r = b % 5
    OBVIOUS
  <2>3. b = r + 5 * (6 - i)
    BY <2>1, <2>2
  <2>4. N - (b \div 5) = L + i
    BY <1>1, <2>1 DEF IsSix
  <2> QED BY <2>1, <2>2, <2>3, <2>4
<1>13. \A i \in 1..6 : \A r \in 0..4 : \E b \in 0..29 :
         i = 6 - (b \div 5) /\ r = b % 5 /\ b = r + 5 * (6 - i) /\ N - (b \div 5) = L + i
  <2> SUFFICES ASSUME NEW i \in 1..6, NEW r \in 0..4
               PROVE  \E b \in 0..29 : i = 6 - (b \div 5) /\ r = b % 5 /\ b = r + 5 * (6 - i) /\ N - (b \div 5) = L + i
    OBVIOUS
  <2>1. PICK b \in 0..29 : b = r + 5 * (6 - i)
    OBVIOUS
  <2>2. r = b % 5 /\ i = 6 - (b \div 5)
    BY <2>1
  <2>4. N - (b \div 5) = L + i
    BY <1>1, <2>2 DEF IsSix
  <2> QED BY <2>1, <2>2, <2>4
<1>14. \A i \in 1..6 : \A r \in 0..4 : r + 5 * (6 - i) \in D[N] <=> r \in BitsOf(sum[i])
  <2> SUFFICES ASSUME NEW i \in 1..6, NEW r \in 0..4
               PROVE  r + 5 * (6 - i) \in D[N] <=> r \in BitsOf(sum[i])
    OBVIOUS
  <2>1. PICK b \in 0..29 : i = 6 - (b \div 5) /\ r = b % 5 /\ b = r + 5 * (6 - i) /\ N - (b \div 5) = L + i
    BY <1>13
  <2> HIDE DEF N
  <2>2. b \in D[N] <=> r \in W[L + i]
    BY <1>11, <2>1
  <2>3. W[L + i] = BitsOf(sum[i])
    BY <1>7
  <2> QED BY <2>1, <2>2, <2>3
<1>15. D[N] = P <=> \A i \in 1..6 : \A r \in 0..4 : r \in BitsOf(sum[i]) <=> r \in Cut(P, i)
  <2>1. \A i \in 1..6 : \A r \in 0..4 : r \in Cut(P, i) <=> r + 5 * (6 - i) \in P
    BY CutIs
  <2>2. \A b \in 0..29 : \E i \in 1..6 : \E r \in 0..4 : b = r + 5 * (6 - i)
    BY <1>12
  <2>3. D[N] = P <=> \A b \in 0..29 : b \in D[N] <=> b \in P
    BY <1>10
  <2>4. ASSUME NEW i \in 1..6, NEW r \in 0..4 PROVE r + 5 * (6 - i) \in 0..29
    OBVIOUS
  <2>5. (\A b \in 0..29 : b \in D[N] <=> b \in P)
        <=> \A i \in 1..6 : \A r \in 0..4 : r + 5 * (6 - i) \in D[N] <=> r + 5 * (6 - i) \in P
    BY <2>2, <2>4
  <2> QED BY <1>14, <2>1, <2>3, <2>5
<1>16. (\A i \in 1..6 : \A r \in 0..4 : r \in BitsOf(sum[i]) <=> r \in Cut(P, i))
       <=> \A i \in 1..6 : BitsOf(sum[i]) = Cut(P, i)
  <2>1. \A i \in 1..6 : BitsOf(sum[i]) \subseteq 0..4 /\ Cut(P, i) \subseteq 0..4
    BY <1>7, NumberOfBits, CutIs
  <2>2. \A i \in 1..6 : BitsOf(sum[i]) = Cut(P, i) <=> \A r \in 0..4 : r \in BitsOf(sum[i]) <=> r \in Cut(P, i)
    BY <2>1
  <2> QED BY <2>2
<1> DEFINE created == CreateChecksum(hrp, data)
<1>17. created \in [1..6 -> Symbols] /\ \A i \in 1..6 : BitsOf(created[i]) = Cut(P, i)
  BY CreateIs DEF P
<1> HIDE DEF created
<1>18. (\A i \in 1..6 : BitsOf(sum[i]) = Cut(P, i)) <=> sum = created
  <2>1. \A i \in 1..6 : created[i] \in 0..31
    <3>1. \A i \in 1..6 : created[i] \in Symbols
      BY <1>17
    <3> QED BY <3>1 DEF Symbols
  <2>2. \A i \in 1..6 : BitsOf(sum[i]) = Cut(P, i) <=> sum[i] = created[i]
    <3> SUFFICES ASSUME NEW i \in 1..6 PROVE BitsOf(sum[i]) = Cut(P, i) <=> sum[i] = created[i]
      OBVIOUS
    <3>1. BitsOf(created[i]) = Cut(P, i)
      BY <1>17
    <3>2. Number(BitsOf(created[i])) = created[i] /\ Number(BitsOf(sum[i])) = sum[i]
      BY <1>7, <2>1, NumberOfBits
    <3> QED BY <3>1, <3>2
  <2>3. sum = [i \in 1..6 |-> sum[i]] /\ created = [i \in 1..6 |-> created[i]]
    <3>1. sum = [i \in 1..K |-> sum[i]]
      OBVIOUS
    <3>2. sum = [i \in 1..6 |-> sum[i]]
      BY <3>1 DEF IsSix
    <3>3. created = [i \in 1..6 |-> created[i]]
      BY <1>17
    <3> QED BY <3>2, <3>3
  <2>4. (\A i \in 1..6 : sum[i] = created[i]) <=> sum = created
    BY <2>3
  <2> QED BY <2>2, <2>4
<1> QED
  BY <1>2, <1>9, <1>15, <1>16, <1>18 DEF created

\* VerifyChecksum accepts six symbols behind others exactly if CreateChecksum makes them.
THEOREM ChecksumFits ==
  ASSUME NEW hrp \in Hrps, NEW data \in Seq(Symbols), NEW sum \in [1..6 -> Symbols]
  PROVE  VerifyChecksum(hrp, data \o sum) <=> sum = CreateChecksum(hrp, data)
<1> DEFINE K == 6
<1>1. K \in Nat /\ IsSix(K) /\ sum \in [1..K -> Symbols]
  BY DEF IsSix
<1> HIDE DEF K
<1>2. K \in Nat /\ sum \in Seq(Symbols) /\ Len(sum) = K
  BY <1>1, SeqOf
<1>3. hrp \in Hrps /\ data \in Seq(Symbols)
  OBVIOUS
<1> QED
  BY ONLY <1>1, <1>2, <1>3, SixFit

-----------------------------------------------------------------------------
(* Texts.                                                                  *)

\* Symbols with a checksum behind them, put together and taken apart.
LEMMA WithSum ==
  ASSUME NEW d \in Seq(Symbols), NEW c, c \in [1..6 -> Symbols]
  PROVE  /\ d \o c \in Seq(Symbols) /\ Len(d \o c) = Len(d) + 6 /\ Len(d \o c) >= 6
         /\ SubSeq(d \o c, 1, Len(d \o c) - 6) = d
<1> DEFINE K == 6
<1>1. K \in Nat /\ c \in [1..K -> Symbols]
  OBVIOUS
<1> HIDE DEF K
<1>2. c \in Seq(Symbols) /\ Len(c) = K
  BY <1>1, SeqOf
<1>3. d \in Seq(Symbols) /\ Len(d) \in Nat
  OBVIOUS
<1>4. /\ d \o c \in Seq(Symbols) /\ Len(d \o c) = Len(d) + Len(c)
      /\ \A i \in 1..Len(d) + Len(c) : (d \o c)[i] = IF i <= Len(d) THEN d[i] ELSE c[i - Len(d)]
  BY ONLY <1>2, <1>3, Joined
<1>5. /\ d \o c \in Seq(Symbols) /\ Len(d \o c) = Len(d) + K
      /\ \A i \in 1..Len(d) : (d \o c)[i] = d[i]
  BY ONLY <1>1, <1>2, <1>3, <1>4
<1> DEFINE s == d \o c
           L == Len(d)
<1>6. SubSeq(s, 1, L) = d
  <2>1. SubSeq(s, 1, L) = [i \in 1..L |-> s[i]]
    <3> HIDE DEF s
    <3>1. s \in Seq(Symbols) /\ L \in Nat
      BY ONLY <1>3, <1>5 DEF s
    <3> HIDE DEF L
    <3>2. 1 + L - 1 = L
      BY <3>1
    <3> QED BY ONLY <3>1, <3>2
  <2>2. d = [i \in 1..L |-> d[i]]
    BY ONLY <1>3
  <2> HIDE DEF s, L
  <2>3. \A i \in 1..L : s[i] = d[i]
    BY ONLY <1>5 DEF s, L
  <2> QED BY ONLY <2>1, <2>2, <2>3
<1>7. Len(s) - K = L /\ Len(s) >= K
  BY ONLY <1>1, <1>3, <1>5
<1>8. SubSeq(s, 1, Len(s) - K) = d
  BY <1>6, <1>7
<1> QED
  BY <1>5, <1>7, <1>8 DEF K

\* Six symbols or more are some with six behind them.
LEMMA SplitSum ==
  ASSUME NEW data \in Seq(Symbols), Len(data) >= 6
  PROVE  \E c : /\ c \in [1..6 -> Symbols]
                /\ SubSeq(data, 1, Len(data) - 6) \in Seq(Symbols)
                /\ data = SubSeq(data, 1, Len(data) - 6) \o c
<1> DEFINE L == Len(data) - 6
           c == [i \in 1..6 |-> data[L + i]]
           d == SubSeq(data, 1, L)
<1>1. L \in Nat /\ L <= Len(data) /\ Len(data) = L + 6
  OBVIOUS
<1>2. c \in [1..6 -> Symbols] /\ \A i \in 1..6 : c[i] = data[L + i]
  OBVIOUS
<1> HIDE DEF L, c
<1>3. d \in Seq(Symbols) /\ Len(d) = L /\ \A i \in 1..L : d[i] = data[i]
  BY <1>1
<1> HIDE DEF d
<1>4. data = d \o c
  <2>1. \E K \in Nat : IsSix(K)
    BY DEF IsSix
  <2>2. PICK K \in Nat : IsSix(K)
    BY <2>1
  <2>3. c \in [1..K -> Symbols] /\ Len(data) = L + K /\ \A i \in 1..K : c[i] = data[L + i]
    BY <1>1, <1>2, <2>2 DEF IsSix
  <2>4. c \in Seq(Symbols) /\ Len(c) = K
    BY ONLY <2>2, <2>3, SeqOf
  <2>5. /\ d \o c \in Seq(Symbols) /\ Len(d \o c) = Len(d) + Len(c)
        /\ \A i \in 1..Len(d) + Len(c) : (d \o c)[i] = IF i <= Len(d) THEN d[i] ELSE c[i - Len(d)]
    BY ONLY <1>3, <2>4, Joined
  <2> DEFINE s == d \o c
  <2>6. /\ s \in Seq(Symbols) /\ Len(s) = L + K
        /\ \A i \in 1..L + K : s[i] = IF i <= L THEN d[i] ELSE c[i - L]
    BY ONLY <1>3, <2>4, <2>5
  <2> HIDE DEF s
  <2>7. ASSUME NEW i \in 1..L + K PROVE s[i] = data[i]
    <3>1. CASE i <= L
      BY <1>1, <1>3, <2>6, <3>1
    <3>2. CASE ~(i <= L)
      <4>1. PICK k \in 1..K : i = L + k /\ k = i - L
        BY <1>1, <3>2
      <4> QED BY <2>3, <2>6, <3>2, <4>1
    <3> QED BY <3>1, <3>2
  <2>8. data \in Seq(Symbols) /\ Len(data) = Len(s)
    BY <2>3, <2>6
  <2>9. s = data
    BY ONLY <2>6, <2>7, <2>8, SameSequence
  <2> QED BY <2>9 DEF s
<1> QED
  BY <1>2, <1>3, <1>4 DEF d, L

\* What is checked of a text, and what it gives.
WithoutSum(data) == SubSeq(data, 1, Len(data) - 6)

\* A text of the expected key, in one case, whose symbols are a key's with its checksum.
IsTaken(text, hrp) ==
  /\ text.hrp = hrp /\ text.case # "mixed" /\ Len(text.data) >= 6
  /\ \A i \in DOMAIN text.data : text.data[i] # Foreign
  /\ VerifyChecksum(hrp, text.data)
  /\ BytesOf(WithoutSum(text.data)).ok /\ Len(BytesOf(WithoutSum(text.data)).out) = PayloadBytes

\* DecodeBech32_32Bytes takes a text exactly if IsTaken says so.
LEMMA DecodeIs ==
  ASSUME NEW text \in Texts, NEW hrp \in Hrps
  PROVE  /\ DecodeBech32_32Bytes(text, hrp).ok <=> IsTaken(text, hrp)
         /\ IsTaken(text, hrp) =>
              DecodeBech32_32Bytes(text, hrp)
                = [ok |-> TRUE, error |-> "none", bytes |-> BytesOf(WithoutSum(text.data)).out]
<1> DEFINE data      == text.data
           converted == BytesOf(WithoutSum(data))
           decoded   == DecodeBech32_32Bytes(text, hrp)
           foreign   == \E i \in DOMAIN data : data[i] = Foreign
           fits      == VerifyChecksum(text.hrp, data)
           short     == Len(data) < 6
           same      == Len(converted.out) = PayloadBytes
           taken     == [ok |-> TRUE, error |-> "none", bytes |-> converted.out]
           empty     == text = NoText
<1>1. decoded =
        CASE empty                         -> Refused("empty")
          [] text.case = "mixed"           -> Refused("mixed case")
          [] text.hrp = NoHrp \/ short     -> Refused("separator")
          [] text.hrp # hrp                -> Refused("hrp")
          [] foreign                       -> Refused("character")
          [] OTHER -> IF ~fits THEN Refused("checksum")
                      ELSE IF ~converted.ok THEN Refused("conversion")
                      ELSE IF ~same THEN Refused("length") ELSE taken
  BY DEF DecodeBech32_32Bytes, BytesOf, WithoutSum
<1>2. \A error : Refused(error).ok = FALSE
  BY DEF Refused
<1>3. taken.ok = TRUE
  OBVIOUS
<1>4. hrp # NoHrp
  BY DEF Hrps, NoHrp
<1>5. empty => text.hrp # hrp
  BY <1>4 DEF NoText
<1>6. Len(data) \in Nat
  BY DEF Texts
<1>7. short <=> ~(Len(data) >= 6)
  BY <1>6
<1>8. converted.ok \in BOOLEAN
  <2>1. converted.ok = (Regroup(WithoutSum(data), 5, 8).bits < 5 /\ Regroup(WithoutSum(data), 5, 8).rest = 0)
    BY DEF BytesOf, ConvertBits
  <2> QED BY <2>1
<1>9. IsTaken(text, hrp)
      <=> /\ text.hrp = hrp /\ text.case # "mixed" /\ ~short /\ ~foreign
          /\ VerifyChecksum(hrp, data) /\ converted.ok /\ same
  BY <1>7 DEF IsTaken
<1> HIDE DEF foreign, fits, short, same, taken, empty, decoded, converted
<1>10. ASSUME IsTaken(text, hrp) PROVE decoded = taken
  <2>1. fits
    BY <1>9, <1>10 DEF fits
  <2>2. /\ ~empty /\ text.case # "mixed" /\ ~(text.hrp = NoHrp \/ short) /\ text.hrp = hrp
        /\ ~foreign /\ converted.ok /\ same
    BY <1>4, <1>5, <1>9, <1>10
  <2> QED BY <1>1, <2>1, <2>2
<1>11. ASSUME ~IsTaken(text, hrp) PROVE decoded.ok = FALSE
  <2>1. CASE empty \/ text.case = "mixed" \/ text.hrp = NoHrp \/ short \/ text.hrp # hrp \/ foreign
    BY <1>1, <1>2, <2>1
  <2>2. CASE ~(empty \/ text.case = "mixed" \/ text.hrp = NoHrp \/ short \/ text.hrp # hrp \/ foreign)
    <3>1. fits <=> VerifyChecksum(hrp, data)
      BY <2>2 DEF fits
    <3>2. ~fits \/ ~converted.ok \/ ~same
      BY <1>9, <1>11, <2>2, <3>1
    <3> QED BY <1>1, <1>2, <2>2, <3>2
  <2> QED BY <2>1, <2>2
<1> QED
  BY <1>3, <1>10, <1>11 DEF decoded, taken, converted

\* The text of a key.
LEMMA RightIs ==
  ASSUME NEW hrp, NEW payload \in Payload
  PROVE  /\ payload \in Seq(Bytes) /\ Len(payload) = PayloadBytes
         /\ Right(hrp, payload) = SymbolsOf(payload) \o CreateChecksum(hrp, SymbolsOf(payload))
         /\ EncodeBech32_32Bytes(hrp, payload) = [hrp |-> hrp, data |-> Right(hrp, payload), case |-> "lower"]
         /\ SymbolsOf(payload) \in Seq(Symbols)
         /\ Right(hrp, payload) \in Seq(Symbols) /\ Len(Right(hrp, payload)) = Len(SymbolsOf(payload)) + 6
         /\ WithoutSum(Right(hrp, payload)) = SymbolsOf(payload) /\ Len(Right(hrp, payload)) >= 6
<1>1. payload \in Seq(Bytes) /\ Len(payload) = PayloadBytes
  BY PayloadAssumption DEF Payload
<1>2. SymbolsOf(payload) \in Seq(Symbols)
  BY <1>1, SymbolsOfAre
<1> DEFINE sum == CreateChecksum(hrp, SymbolsOf(payload))
<1>3. sum \in [1..6 -> Symbols]
  BY CreateIs
<1>4. EncodeBech32_32Bytes(hrp, payload) = [hrp |-> hrp, data |-> SymbolsOf(payload) \o sum, case |-> "lower"]
  BY <1>1 DEF EncodeBech32_32Bytes, SymbolsOf
<1>5. Right(hrp, payload) = SymbolsOf(payload) \o sum
  BY <1>4 DEF Right
<1> HIDE DEF sum
<1>6. /\ SymbolsOf(payload) \o sum \in Seq(Symbols) /\ Len(SymbolsOf(payload) \o sum) = Len(SymbolsOf(payload)) + 6
      /\ WithoutSum(SymbolsOf(payload) \o sum) = SymbolsOf(payload) /\ Len(SymbolsOf(payload) \o sum) >= 6
  BY <1>2, <1>3, WithSum DEF WithoutSum
<1> QED
  BY <1>1, <1>2, <1>4, <1>5, <1>6 DEF sum

\* The text of a key is taken for that key.
LEMMA RightIsTaken ==
  ASSUME NEW text \in Texts, NEW hrp \in Hrps, NEW payload \in Payload,
         text.hrp = hrp, text.data = Right(hrp, payload), text.case # "mixed"
  PROVE  DecodeBech32_32Bytes(text, hrp) = [ok |-> TRUE, error |-> "none", bytes |-> payload]
<1> DEFINE right == Right(hrp, payload)
           d     == SymbolsOf(payload)
<1>1. /\ payload \in Seq(Bytes) /\ Len(payload) = PayloadBytes
      /\ right = d \o CreateChecksum(hrp, d) /\ d \in Seq(Symbols)
      /\ right \in Seq(Symbols) /\ WithoutSum(right) = d /\ Len(right) >= 6
  BY RightIs
<1>2. BytesOf(d) = [ok |-> TRUE, out |-> payload]
  BY <1>1, EncodedIsDecoded
<1>3. VerifyChecksum(hrp, right)
  <2>1. CreateChecksum(hrp, d) \in [1..6 -> Symbols]
    BY CreateIs
  <2> QED BY <1>1, <2>1, ChecksumFits
<1>4. \A i \in DOMAIN right : right[i] # Foreign
  <2> HIDE DEF right
  <2>1. \A i \in DOMAIN right : right[i] \in Symbols
    BY <1>1
  <2> QED BY <2>1 DEF Symbols, Foreign
<1>5. IsTaken(text, hrp)
  BY <1>1, <1>2, <1>3, <1>4 DEF IsTaken
<1>6. BytesOf(WithoutSum(text.data)).out = payload
  BY <1>1, <1>2
<1> QED
  BY <1>5, <1>6, DecodeIs

\* Every text that is taken is the one its key is encoded to.
LEMMA TakenIsRight ==
  ASSUME NEW text \in Texts, NEW hrp \in Hrps, NEW bytes,
         DecodeBech32_32Bytes(text, hrp).ok, bytes = DecodeBech32_32Bytes(text, hrp).bytes
  PROVE  /\ bytes \in Payload /\ text.data = Right(hrp, bytes)
         /\ text.hrp = hrp /\ text.case # "mixed"
         /\ text.data \in Seq(Symbols) /\ VerifyChecksum(hrp, text.data)
<1> DEFINE data == text.data
           d    == WithoutSum(data)
<1>1. IsTaken(text, hrp) /\ bytes = BytesOf(d).out
  BY DecodeIs
<1>2. data \in Seq(Symbols)
  <2>1. data \in Seq(0..Foreign)
    BY DEF Texts
  <2>2. \A i \in 1..Len(data) : data[i] # Foreign
    BY <1>1, <2>1 DEF IsTaken
  <2>3. Len(data) \in Nat /\ data = [i \in 1..Len(data) |-> data[i]] /\ \A i \in 1..Len(data) : data[i] \in 0..Foreign
    <3> DEFINE T == 0..Foreign
    <3>1. data \in Seq(T)
      BY <2>1
    <3> HIDE DEF T, data
    <3>2. Len(data) \in Nat /\ data = [i \in 1..Len(data) |-> data[i]] /\ \A i \in 1..Len(data) : data[i] \in T
      BY <3>1
    <3> QED BY <3>2 DEF T
  <2> HIDE DEF data
  <2>4. \A v \in 0..Foreign : v # Foreign => v \in Symbols
    BY DEF Foreign, Symbols
  <2>5. \A i \in 1..Len(data) : data[i] \in Symbols
    BY <2>2, <2>3, <2>4
  <2> QED BY <2>3, <2>5
<1>3. Len(data) >= 6 /\ VerifyChecksum(hrp, data) /\ BytesOf(d).ok /\ Len(bytes) = PayloadBytes
      /\ text.hrp = hrp /\ text.case # "mixed"
  BY <1>1 DEF IsTaken
<1> HIDE DEF data, d
<1>4. PICK c : c \in [1..6 -> Symbols] /\ d \in Seq(Symbols) /\ data = d \o c
  BY <1>2, <1>3, SplitSum DEF d, WithoutSum
<1>5. c = CreateChecksum(hrp, d)
  BY <1>3, <1>4, ChecksumFits
<1>6. bytes \in Seq(Bytes) /\ SymbolsOf(bytes) = d
  BY <1>1, <1>3, <1>4, DecodedIsEncoded
<1>7. bytes \in Payload
  BY <1>3, <1>6 DEF Payload
<1>8. Right(hrp, bytes) = data
  BY <1>4, <1>5, <1>6, <1>7, RightIs
<1> QED
  BY <1>2, <1>3, <1>7, <1>8 DEF data

\* All keys have texts of the same length.
LEMMA SameLengths ==
  ASSUME NEW hrp, NEW hrp2, NEW payload \in Payload, NEW other \in Payload
  PROVE  Len(Right(hrp, payload)) = Len(Right(hrp2, other))
<1> DEFINE m == Len(SymbolsOf(payload))
           n == Len(SymbolsOf(other))
<1>1. /\ payload \in Seq(Bytes) /\ Len(payload) = PayloadBytes /\ other \in Seq(Bytes) /\ Len(other) = PayloadBytes
      /\ m \in Nat /\ n \in Nat /\ Len(Right(hrp, payload)) = m + 6 /\ Len(Right(hrp2, other)) = n + 6
  BY RightIs
<1>2. PayloadBytes \in Nat
  BY PayloadAssumption
<1>3. 8 * PayloadBytes <= 5 * m /\ 5 * m < 8 * PayloadBytes + 5
  <2>1. 8 * Len(payload) <= 5 * Len(SymbolsOf(payload)) /\ 5 * Len(SymbolsOf(payload)) < 8 * Len(payload) + 5
    BY <1>1, SymbolsOfAre
  <2> QED BY <1>1, <2>1
<1>4. 8 * PayloadBytes <= 5 * n /\ 5 * n < 8 * PayloadBytes + 5
  <2>1. 8 * Len(other) <= 5 * Len(SymbolsOf(other)) /\ 5 * Len(SymbolsOf(other)) < 8 * Len(other) + 5
    BY <1>1, SymbolsOfAre
  <2> QED BY <1>1, <2>1
<1> HIDE DEF m, n
<1>5. m = n
  BY <1>1, <1>2, <1>3, <1>4
<1> QED
  BY <1>1, <1>5

\* Two texts whose checksums are right do not differ in a few symbols.
THEOREM WrongSymbols ==
  ASSUME NEW hrp \in Hrps, NEW data \in Seq(Symbols), NEW right \in Seq(Symbols),
         VerifyChecksum(hrp, data), VerifyChecksum(hrp, right)
  PROVE  ~HasWrongSymbols(data, right)
<1> SUFFICES ASSUME HasWrongSymbols(data, right) PROVE FALSE
  OBVIOUS
<1> DEFINE front == Front(hrp)
           F     == Len(front)
           M     == Len(right)
           N     == F + M
           x     == front \o data
           y     == front \o right
           wrong == {i \in DOMAIN right : data[i] # right[i]}
<1>1. front \in Seq(Symbols) /\ F \in Nat /\ M \in Nat /\ DOMAIN right = 1..M
  BY FrontTyped
<1>2. PICK i, j \in 1..M : /\ Len(data) = M /\ wrong # {}
                           /\ i <= j /\ j < i + KeySymbols /\ wrong \subseteq i..j
                           /\ j <= i + 5 \/ wrong \subseteq {i, j}
  BY <1>1 DEF HasWrongSymbols
<1>3. Polymod(x) = {0} /\ Polymod(y) = {0}
  BY DEF VerifyChecksum, Front
<1> HIDE DEF front
<1>4. /\ x \in Seq(Symbols) /\ Len(x) = N /\ \A n \in 1..N : x[n] = IF n <= F THEN front[n] ELSE data[n - F]
      /\ y \in Seq(Symbols) /\ Len(y) = N /\ \A n \in 1..N : y[n] = IF n <= F THEN front[n] ELSE right[n - F]
  <2>1. /\ x \in Seq(Symbols) /\ Len(x) = Len(front) + Len(data)
        /\ \A n \in 1..Len(front) + Len(data) : x[n] = IF n <= Len(front) THEN front[n] ELSE data[n - Len(front)]
    BY <1>1, Joined
  <2>2. /\ y \in Seq(Symbols) /\ Len(y) = Len(front) + Len(right)
        /\ \A n \in 1..Len(front) + Len(right) : y[n] = IF n <= Len(front) THEN front[n] ELSE right[n - Len(front)]
    BY <1>1, Joined
  <2> HIDE DEF x, y, wrong
  <2> QED BY <1>2, <2>1, <2>2
<1> HIDE DEF x, y, F, M
<1>5. PICK D, W : /\ AreDifferences(D, W, N)
                  /\ \A n \in 1..N : W[n] = {} <=> x[n] = y[n]
                  /\ D[N] = Xor(Polymod(x), Polymod(y))
  <2> HIDE DEF N
  <2>1. x \in Seq(Symbols) /\ y \in Seq(Symbols) /\ Len(x) = N /\ Len(y) = N
    BY <1>4
  <2>2. Len(x) = Len(y)
    BY <2>1
  <2>3. \E D, W : /\ AreDifferences(D, W, Len(x))
                  /\ \A n \in 1..Len(x) : W[n] = Xor(BitsOf(x[n]), BitsOf(y[n])) /\ (W[n] = {} <=> x[n] = y[n])
                  /\ D[Len(x)] = Xor(Polymod(x), Polymod(y))
    BY ONLY <2>1, <2>2, Differences
  <2> QED BY <2>1, <2>3
<1>6. D[N] = {}
  <2> HIDE DEF N
  <2>1. Polymod(x) = Polymod(y)
    BY <1>3
  <2> QED BY <1>5, <2>1, XorFacts
<1>7. \A n \in 1..N : W[n] # {} => n - F \in wrong /\ n = F + (n - F)
  <2> SUFFICES ASSUME NEW n \in 1..N, W[n] # {} PROVE n - F \in wrong /\ n = F + (n - F)
    OBVIOUS
  <2>1. x[n] # y[n]
    BY <1>5
  <2>2. ~(n <= F)
    BY <1>4, <2>1
  <2>3. n - F \in 1..M /\ n = F + (n - F)
    BY <1>1, <2>2
  <2>4. data[n - F] # right[n - F]
    BY <1>4, <2>1, <2>2
  <2> QED BY <1>1, <2>3, <2>4
<1>8. \A k \in wrong : F + k \in 1..N /\ W[F + k] # {}
  <2> SUFFICES ASSUME NEW k \in wrong PROVE F + k \in 1..N /\ W[F + k] # {}
    OBVIOUS
  <2>1. k \in 1..M /\ data[k] # right[k]
    BY <1>1
  <2>2. PICK n \in 1..N : n = F + k /\ ~(n <= F) /\ n - F = k
    BY <1>1, <2>1
  <2>3. x[n] = data[k] /\ y[n] = right[k]
    BY <1>4, <2>2
  <2> QED BY <1>5, <2>1, <2>2, <2>3
<1> HIDE DEF wrong
<1> DEFINE a == F + i
           b == F + j
<1>9. /\ N \in Nat /\ a \in 1..N /\ b \in a..N /\ b < a + KeySymbols
      /\ b <= a + 5 <=> j <= i + 5
  BY <1>1, <1>2 DEF KeySymbols
<1>10. \A n \in 1..N : W[n] # {} => n \in a..b
  BY <1>1, <1>2, <1>7
<1>11. b <= a + 5 \/ \A n \in 1..N : W[n] # {} => n \in {a, b}
  <2>1. CASE wrong \subseteq {i, j}
    BY <1>7, <2>1
  <2>2. CASE j <= i + 5
    BY <1>9, <2>2
  <2> QED BY <1>2, <2>1, <2>2
<1>12. \A n \in 1..N : W[n] = {}
  <2> HIDE DEF a, b, N
  <2>1. AreDifferences(D, W, N)
    BY <1>5
  <2> QED BY ONLY <1>6, <1>9, <1>10, <1>11, <2>1, WrongIsNoticed
<1> QED
  BY <1>2, <1>8, <1>12

\* What the text of a key has turned into is not taken for a key.
LEMMA DamageIsRefused ==
  ASSUME NEW text \in Texts, NEW hrp \in Hrps, NEW payload \in Payload,
         IsDamaged(text, hrp, Right(hrp, payload))
  PROVE  ~DecodeBech32_32Bytes(text, hrp).ok
<1> SUFFICES ASSUME DecodeBech32_32Bytes(text, hrp).ok PROVE FALSE
  OBVIOUS
<1> DEFINE right == Right(hrp, payload)
<1>1. PICK bytes : bytes = DecodeBech32_32Bytes(text, hrp).bytes
  OBVIOUS
<1>2. /\ bytes \in Payload /\ text.data = Right(hrp, bytes)
      /\ text.hrp = hrp /\ text.case # "mixed"
      /\ text.data \in Seq(Symbols) /\ VerifyChecksum(hrp, text.data)
  BY <1>1, TakenIsRight
<1>3. right \in Seq(Symbols) /\ VerifyChecksum(hrp, right)
  <2>1. /\ right = SymbolsOf(payload) \o CreateChecksum(hrp, SymbolsOf(payload))
        /\ SymbolsOf(payload) \in Seq(Symbols) /\ right \in Seq(Symbols)
    BY RightIs
  <2>2. CreateChecksum(hrp, SymbolsOf(payload)) \in [1..6 -> Symbols]
    BY CreateIs
  <2> QED BY <2>1, <2>2, ChecksumFits
<1> HIDE DEF right
<1>4. Len(text.data) = Len(right)
  BY <1>2, SameLengths DEF right
<1>5. CASE \E n \in 0..Len(right) - 1 : text.data = SubSeq(right, 1, n)
  <2>1. PICK n \in 0..Len(right) - 1 : text.data = SubSeq(right, 1, n)
    BY <1>5
  <2>2. Len(SubSeq(right, 1, n)) = n
    BY <1>3
  <2>3. n # Len(right)
    BY <1>3
  <2> QED BY <1>4, <2>1, <2>2, <2>3
<1>6. CASE HasWrongSymbols(text.data, right)
  BY <1>2, <1>3, <1>6, WrongSymbols
<1> QED
  BY <1>2, <1>5, <1>6 DEF IsDamaged, right

-----------------------------------------------------------------------------
(* Keys.                                                                   *)

\* What the text gives, and the key that is monitored because of it.
Given     == DecodeBech32_32Bytes(entry.text, entry.callback)
Watched   == IF entry.callback = "npub" THEN Given.bytes ELSE PubkeyOf[Given.bytes]
Deriving  == {"derive_context", "derive_keypair", "derive_xonly"}

\* Everything that came of a text came of what the text gives.
TextInv ==
  /\ entry \in Entries
  /\ at = "entered" =>
       private_key = << >> /\ auth_key = NoKey /\ header = NoHeader /\ monitored = << >>
  /\ private_key # << >> => entry.callback = "nsec" /\ Given.ok /\ private_key = Given.bytes
  /\ at \in Deriving => private_key # << >>
  /\ auth_key # NoKey => entry.callback = "nsec" /\ Given.ok /\ auth_key = KeyOf(Given.bytes)
  /\ \/ header = NoHeader /\ monitored = << >>
     \/ /\ Given.ok /\ header # NoHeader
        /\ monitored = BytesToHex(Watched) /\ header.npub.data = Right("npub", Watched)
  /\ entry.callback = "npub" /\ at # "entered" /\ Given.ok => monitored = BytesToHex(Watched)

\* What KeysAssumption says of what is typed.
LEMMA EntryIs ==
  ASSUME NEW e \in Entries
  PROVE  /\ e.callback \in {"npub", "nsec"} /\ e.callback \in Hrps /\ e.text \in Texts
         /\ e.encoded => e.payload \in Payload /\ IsEncoded(e.text, e.callback, Right(e.callback, e.payload))
         /\ e.damaged => e.payload \in Payload /\ IsDamaged(e.text, e.callback, Right(e.callback, e.payload))
BY KeysAssumption DEF Hrps

\* A text that is taken gives a key, and is that key's own text.
LEMMA GivenIs ==
  ASSUME entry \in Entries, Given.ok
  PROVE  /\ Given.bytes \in Payload /\ Given.bytes # << >>
         /\ entry.text.data = Right(entry.callback, Given.bytes)
         /\ Watched \in Payload
         /\ HexToBytes(BytesToHex(Given.bytes)) = Given.bytes
<1>1. entry.callback \in Hrps /\ entry.text \in Texts
  BY EntryIs
<1>2. Given.bytes \in Payload /\ entry.text.data = Right(entry.callback, Given.bytes)
  BY <1>1, TakenIsRight DEF Given
<1>3. Given.bytes \in Seq(Bytes) /\ Len(Given.bytes) = PayloadBytes
  BY <1>2, RightIs
<1>4. Given.bytes # << >>
  BY <1>3, PayloadAssumption
<1>5. PubkeyOf \in [Payload -> Payload]
  BY KeysAssumption
<1>6. Watched \in Payload
  BY <1>2, <1>5 DEF Watched
<1> QED
  BY <1>2, <1>3, <1>4, <1>6, HexRoundTrip

\* The hex of a key is encoded to the text of the key, and that is taken.
LEMMA HexIsEncoded ==
  ASSUME NEW payload \in Payload
  PROVE  /\ EncodeNpubFromHex(BytesToHex(payload)).data = Right("npub", payload)
         /\ DecodeBech32_32Bytes(EncodeNpubFromHex(BytesToHex(payload)), "npub")
              = [ok |-> TRUE, error |-> "none", bytes |-> payload]
         /\ EncodeNpubFromHex(BytesToHex(payload)) # NoText
<1> DEFINE npub == EncodeNpubFromHex(BytesToHex(payload))
           right == Right("npub", payload)
<1>1. /\ payload \in Seq(Bytes) /\ Len(payload) = PayloadBytes /\ right \in Seq(Symbols)
      /\ EncodeBech32_32Bytes("npub", payload) = [hrp |-> "npub", data |-> right, case |-> "lower"]
  BY RightIs
<1>2. HexToBytes(BytesToHex(payload)) = payload
  BY <1>1, HexRoundTrip
<1>3. npub = [hrp |-> "npub", data |-> right, case |-> "lower"]
  BY <1>1, <1>2 DEF EncodeNpubFromHex
<1> HIDE DEF npub
<1>4. right \in Seq(0..Foreign)
  <2> DEFINE T == 0..Foreign
  <2>1. Symbols \subseteq T
    BY DEF Symbols, Foreign
  <2> HIDE DEF right, T
  <2>2. right \in Seq(Symbols)
    BY <1>1
  <2>3. right \in Seq(T)
    BY <2>1, <2>2
  <2> QED BY <2>3 DEF T
<1>5. npub \in Texts /\ "npub" \in Hrps
  BY <1>3, <1>4 DEF Texts, Hrps, Cases
<1>6. npub.hrp = "npub" /\ npub.data = right /\ npub.case # "mixed"
  BY <1>3
<1>7. npub # NoText
  BY <1>6 DEF NoText, NoHrp
<1> QED
  BY <1>5, <1>6, <1>7, RightIsTaken DEF npub

\* Nothing has come of the text at the start.
LEMMA InitText == Init => TextInv
BY DEF Init, TextInv, Deriving

\* No step lets anything come of a text but what the text gives.
LEMMA StepText == TextInv /\ [Next]_vars => TextInv'
<1> SUFFICES ASSUME TextInv, [Next]_vars PROVE TextInv'
  OBVIOUS
<1>0. /\ entry \in Entries
      /\ at = "entered" =>
           private_key = << >> /\ auth_key = NoKey /\ header = NoHeader /\ monitored = << >>
      /\ private_key # << >> => entry.callback = "nsec" /\ Given.ok /\ private_key = Given.bytes
      /\ at \in Deriving => private_key # << >>
      /\ auth_key # NoKey => entry.callback = "nsec" /\ Given.ok /\ auth_key = KeyOf(Given.bytes)
      /\ \/ header = NoHeader /\ monitored = << >>
         \/ /\ Given.ok /\ header # NoHeader
            /\ monitored = BytesToHex(Watched) /\ header.npub.data = Right("npub", Watched)
      /\ entry.callback = "npub" /\ at # "entered" /\ Given.ok => monitored = BytesToHex(Watched)
  BY DEF TextInv
<1> DEFINE Same == Given' = Given /\ Watched' = Watched /\ entry' = entry
<1>1. entry' = entry => Same
  BY DEF Given, Watched
<1> HIDE DEF Same
<1>2. CASE NpubSubmit
  <2>1. entry' = entry /\ at = "entered" /\ at' = "idle" /\ entry.callback = "npub"
        /\ private_key' = private_key /\ auth_key' = auth_key
    BY <1>2 DEF NpubSubmit
  <2>2. Same /\ Given = Decoded("npub") /\ Watched = Given.bytes
    BY <1>1, <2>1 DEF Given, Decoded, Watched
  <2>3. CASE ~Given.ok
    <3>1. header' = header /\ monitored' = monitored
      BY <1>2, <2>2, <2>3 DEF NpubSubmit
    <3> QED BY <1>0, <2>1, <2>2, <2>3, <3>1 DEF TextInv, Same, Deriving
  <2>4. CASE Given.ok
    <3>1. header' = [npub |-> entry.text, hex_pubkey |-> BytesToHex(Watched)] /\ monitored' = BytesToHex(Watched)
      BY <1>2, <2>2, <2>4 DEF NpubSubmit, StartMonitoring
    <3>2. entry.text.data = Right("npub", Watched) /\ entry.text # NoText
      <4>1. entry.text.data = Right(entry.callback, Given.bytes) /\ Given.bytes \in Payload
        BY <1>0, <2>4, GivenIs
      <4>2. entry.text.hrp = "npub"
        BY <1>0, <2>1, <2>4, EntryIs, TakenIsRight DEF Given
      <4> QED BY <2>1, <2>2, <4>1, <4>2 DEF NoText, NoHrp
    <3>3. header'.npub.data = Right("npub", Watched) /\ header' # NoHeader
      BY <3>1, <3>2 DEF NoHeader
    <3> QED BY <1>0, <2>1, <2>2, <2>4, <3>1, <3>3 DEF TextInv, Same, Deriving
  <2> QED BY <2>3, <2>4
<1>3. CASE NsecSubmit
  <2>1. /\ entry' = entry /\ at = "entered" /\ at' # "entered" /\ entry.callback = "nsec"
        /\ auth_key' = auth_key /\ header' = header /\ monitored' = monitored
    BY <1>3 DEF NsecSubmit
  <2>2. Same /\ Given = Decoded("nsec")
    BY <1>1, <2>1 DEF Given, Decoded
  <2>3. CASE ~Given.ok
    <3>1. private_key' = private_key /\ at' = "idle"
      BY <1>3, <2>2, <2>3 DEF NsecSubmit
    <3> QED BY <1>0, <2>1, <2>2, <3>1 DEF TextInv, Same, Deriving
  <2>4. CASE Given.ok
    <3>1. private_key' = Given.bytes /\ private_key' # << >>
      BY <1>0, <1>3, <2>2, <2>4, GivenIs DEF NsecSubmit
    <3> QED BY <1>0, <2>1, <2>2, <2>4, <3>1 DEF TextInv, Same
  <2> QED BY <2>3, <2>4
<1>4. ASSUME NEW call, NEW touched, NEW next, Succeeds(call, touched, next),
             call # "entered", next # "entered", next \in Deriving => call \in Deriving
      PROVE  TextInv'
  <2>1. /\ entry' = entry /\ private_key' = private_key /\ auth_key' = auth_key
        /\ header' = header /\ monitored' = monitored /\ at = call /\ at' = next
    BY <1>4 DEF Succeeds
  <2> QED BY <1>0, <1>1, <1>4, <2>1 DEF TextInv, Same
<1>5. ASSUME NEW call, NEW touched, NEW cleared, Fails(call, touched, cleared), call # "entered"
      PROVE  TextInv'
  <2>1. /\ entry' = entry /\ private_key' = << >> /\ auth_key' = auth_key
        /\ header' = header /\ monitored' = monitored /\ at = call /\ at' = "idle"
    BY <1>5 DEF Fails
  <2> QED BY <1>0, <1>1, <1>5, <2>1 DEF TextInv, Same, Deriving
<1>6. CASE DeriveContext
  BY <1>4, <1>5, <1>6 DEF DeriveContext, Deriving
<1>7. CASE DeriveKeypair
  BY <1>4, <1>5, <1>7 DEF DeriveKeypair, Deriving
<1>8. CASE KeyIsSet
  <2>1. /\ entry' = entry /\ at = "derive_xonly" /\ at' = "idle"
        /\ auth_key' = KeyOf(private_key) /\ private_key' = << >>
    BY <1>8 DEF KeyIsSet
  <2>2. Same /\ private_key = Given.bytes /\ Given.ok /\ entry.callback = "nsec"
    BY <1>0, <1>1, <2>1 DEF Deriving
  <2>3. Watched = PubkeyOf[private_key] /\ Watched \in Payload
    BY <1>0, <2>2, GivenIs DEF Watched
  <2> DEFINE npub == EncodeNpubFromHex(BytesToHex(Watched))
  <2>4. /\ npub.data = Right("npub", Watched) /\ npub # NoText
        /\ DecodeBech32_32Bytes(npub, "npub").bytes = Watched
    BY <2>3, HexIsEncoded
  <2>5. \/ header' = header /\ monitored' = monitored
        \/ StartMonitoring(npub, DecodeBech32_32Bytes(npub, "npub").bytes)
    BY <1>8, <2>3 DEF KeyIsSet
  <2> HIDE DEF npub
  <2>6. CASE header' = header /\ monitored' = monitored
    BY <1>0, <2>1, <2>2, <2>6 DEF TextInv, Same, Deriving
  <2>7. CASE StartMonitoring(npub, DecodeBech32_32Bytes(npub, "npub").bytes)
    <3>1. header' = [npub |-> npub, hex_pubkey |-> BytesToHex(Watched)] /\ monitored' = BytesToHex(Watched)
      BY <2>4, <2>7 DEF StartMonitoring
    <3>2. header'.npub.data = Right("npub", Watched) /\ header' # NoHeader
      BY <2>4, <3>1 DEF NoHeader
    <3> QED BY <1>0, <2>1, <2>2, <3>1, <3>2 DEF TextInv, Same, Deriving
  <2> QED BY <2>5, <2>6, <2>7
<1>9. CASE DeriveXonly
  BY <1>5, <1>8, <1>9 DEF DeriveXonly
<1>10. CASE Challenge
  <2>1. /\ entry' = entry /\ private_key' = private_key /\ auth_key' = auth_key
        /\ header' = header /\ monitored' = monitored /\ at = "idle" /\ at' = "auth_context"
    BY <1>10 DEF Challenge
  <2> QED BY <1>0, <1>1, <2>1 DEF TextInv, Same, Deriving
<1>11. CASE AuthContext
  BY <1>4, <1>5, <1>11 DEF AuthContext, Deriving
<1>12. CASE AuthSeed
  BY <1>4, <1>5, <1>12 DEF AuthSeed, Deriving
<1>13. CASE AuthKeypair
  BY <1>4, <1>5, <1>13 DEF AuthKeypair, Deriving
<1>14. CASE AuthXonly
  BY <1>4, <1>5, <1>14 DEF AuthXonly, Deriving
<1>15. CASE AuthAux
  BY <1>4, <1>5, <1>15 DEF AuthAux, Deriving
<1>16. CASE AuthSign
  BY <1>5, <1>16 DEF AuthSign
<1>17. CASE UNCHANGED vars
  BY <1>0, <1>1, <1>17 DEF vars, TextInv, Same
<1> QED
  BY <1>2, <1>3, <1>6, <1>7, <1>9, <1>10, <1>11, <1>12, <1>13, <1>14, <1>15, <1>16,
     <1>17 DEF Next, Idle

\* What came of what the text gives is what OneTextPerKey says.
LEMMA TextIsKey == TextInv => OneTextPerKey
<1> SUFFICES ASSUME TextInv PROVE OneTextPerKey
  OBVIOUS
<1>0. entry \in Entries
  BY DEF TextInv
<1>1. header # NoHeader => EncodeNpubFromHex(monitored).data = header.npub.data
  <2> SUFFICES ASSUME header # NoHeader PROVE EncodeNpubFromHex(monitored).data = header.npub.data
    OBVIOUS
  <2>1. Given.ok /\ monitored = BytesToHex(Watched) /\ header.npub.data = Right("npub", Watched)
    BY DEF TextInv
  <2>2. Watched \in Payload
    BY <1>0, <2>1, GivenIs
  <2> QED BY <2>1, <2>2, HexIsEncoded
<1>2. private_key # << >> => EncodeBech32_32Bytes("nsec", private_key).data = entry.text.data
  <2> SUFFICES ASSUME private_key # << >>
               PROVE  EncodeBech32_32Bytes("nsec", private_key).data = entry.text.data
    OBVIOUS
  <2>1. entry.callback = "nsec" /\ Given.ok /\ private_key = Given.bytes
    BY DEF TextInv
  <2>2. entry.text.data = Right("nsec", private_key)
    BY <1>0, <2>1, GivenIs
  <2> QED BY <2>2 DEF Right
<1>3. ASSUME entry.encoded, at # "entered"
      PROVE  IF entry.callback = "npub" THEN monitored = BytesToHex(entry.payload)
             ELSE     /\ private_key \in {entry.payload, << >>}
                      /\ auth_key \in {KeyOf(entry.payload), NoKey}
                      /\ at = "derive_context" => private_key = entry.payload
                      /\ monitored \in {<< >>, BytesToHex(PubkeyOf[entry.payload])}
  <2>1. /\ entry.callback \in Hrps /\ entry.text \in Texts /\ entry.payload \in Payload
        /\ IsEncoded(entry.text, entry.callback, Right(entry.callback, entry.payload))
    BY <1>0, <1>3, EntryIs
  <2>2. /\ entry.text.hrp = entry.callback /\ entry.text.case # "mixed"
        /\ entry.text.data = Right(entry.callback, entry.payload)
    BY <2>1 DEF IsEncoded
  <2>3. Given = [ok |-> TRUE, error |-> "none", bytes |-> entry.payload]
    BY <2>1, <2>2, RightIsTaken DEF Given
  <2>4. Given.ok /\ Given.bytes = entry.payload
    BY <2>3
  <2>5. CASE entry.callback = "npub"
    <3>1. monitored = BytesToHex(Watched) /\ Watched = entry.payload
      BY <1>3, <2>4, <2>5 DEF TextInv, Watched
    <3> QED BY <2>5, <3>1
  <2>6. CASE entry.callback # "npub"
    <3>1. Watched = PubkeyOf[entry.payload]
      BY <2>4, <2>6 DEF Watched
    <3>2. private_key \in {entry.payload, << >>} /\ auth_key \in {KeyOf(entry.payload), NoKey}
      BY <2>4 DEF TextInv
    <3>3. at = "derive_context" => private_key = entry.payload
      BY <2>4 DEF TextInv, Deriving
    <3>4. monitored \in {<< >>, BytesToHex(PubkeyOf[entry.payload])}
      BY <3>1 DEF TextInv
    <3> QED BY <2>6, <3>2, <3>3, <3>4
  <2> QED BY <2>5, <2>6
<1> QED
  BY <1>1, <1>2, <1>3 DEF OneTextPerKey

\* Nothing comes of a damaged text.
LEMMA DamageGivesNothing == TextInv => DamageIsNoticed
<1> SUFFICES ASSUME TextInv, entry.damaged PROVE ~Accepted
  BY DEF DamageIsNoticed
<1>1. entry \in Entries
  BY DEF TextInv
<1>2. /\ entry.callback \in Hrps /\ entry.text \in Texts /\ entry.payload \in Payload
      /\ IsDamaged(entry.text, entry.callback, Right(entry.callback, entry.payload))
  BY <1>1, EntryIs
<1>3. ~Given.ok
  BY <1>2, DamageIsRefused DEF Given
<1>4. header = NoHeader /\ private_key = << >> /\ auth_key = NoKey
  BY <1>3 DEF TextInv
<1> QED
  BY <1>4 DEF Accepted, NoKey

\* A key and its text determine one another, for keys of every length and every
\* text of symbols: main's callbacks take a text for a key exactly if the key is
\* encoded to it, and the npub that is derived from an nsec is that of its key.
THEOREM KeysAndTextsMatch == Spec => []OneTextPerKey
BY InitText, StepText, TextIsKey, PTL DEF Spec

\* main's callbacks never take for a key what the text of one has turned into: in
\* mixed case, with another human-readable part, cut off, with up to six wrong
\* symbols in a row, or with two that are less than KeySymbols apart.
THEOREM NoDamageIsTaken == Spec => []DamageIsNoticed
BY InitText, StepText, DamageGivesNothing, PTL DEF Spec

=============================================================================
