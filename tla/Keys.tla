--------------------------------- MODULE Keys ---------------------------------
(***************************************************************************)
(* A key on its way through the program: main's submit callbacks decode    *)
(* the text (Nip19), AuthKey::FromHexPrivkey derives the public key, and   *)
(* each AUTH challenge has BuildAuthEvent sign with it.                    *)
(*                                                                         *)
(* Every call of secp256k1 and of the random source may fail, and each     *)
(* failure returns early.  `held` is what the call under way has written   *)
(* and not cleared: of the buffers that the source clears by name at some  *)
(* return, and the secp256k1 context.  Whether a random source that fails  *)
(* has written to its buffer is open.  A step is the code up to the next   *)
(* call that may fail.                                                     *)
(***************************************************************************)
EXTENDS Nip19

CONSTANTS
  Entries,     \* what the user types: a text, the callback, and where the text is from
  PubkeyOf     \* the public key of a private one (secp256k1), as bytes

Payload == [1..PayloadBytes -> Bytes]

\* The symbols of the text that is a key's.
Right(hrp, payload) == EncodeBech32_32Bytes(hrp, payload).data

\* The text of a key, in either case.
IsEncoded(text, callback, right) ==
  text.hrp = callback /\ text.data = right /\ text.case \in {"lower", "upper"}

\* Symbols are wrong: up to six in a row, or two that are not farther apart than
\* the symbols of a key of 32 bytes.
HasWrongSymbols(data, right) ==
  LET wrong == {i \in DOMAIN right : data[i] # right[i]}
  IN /\ Len(data) = Len(right) /\ wrong # {}
     /\ \E i, j \in DOMAIN right :
          /\ i <= j /\ j < i + KeySymbols
          /\ wrong \subseteq i..j
          /\ j <= i + 5 \/ wrong \subseteq {i, j}

\* What the text of a key has turned into.
IsDamaged(text, callback, right) ==
  \/ text.case = "mixed"
  \/ text.hrp # callback
  \/ \E n \in 0..Len(right) - 1 : text.data = SubSeq(right, 1, n)
  \/ HasWrongSymbols(text.data, right)

ASSUME KeysAssumption ==
  /\ PubkeyOf \in [Payload -> Payload]
  /\ \A e \in Entries :
       /\ e.callback \in {"npub", "nsec"} /\ e.text \in Texts
       /\ e.encoded \in BOOLEAN /\ e.damaged \in BOOLEAN
       /\ e.encoded \/ e.damaged => e.payload \in Payload
       /\ e.encoded => IsEncoded(e.text, e.callback, Right(e.callback, e.payload))
       /\ e.damaged => IsDamaged(e.text, e.callback, Right(e.callback, e.payload))

VARIABLES
  entry,        \* what was typed, and the callback it goes to
  at,           \* the next call that may fail, or "entered" or "idle"
  held,         \* buffers and objects that are written and not cleared
  private_key,  \* privkey_bytes of the call under way
  auth_key,     \* main's auth_key
  header,       \* the header context
  monitored     \* the pubkey handed to ResolveRelaysForPubkey, as hex

vars == <<entry, at, held, private_key, auth_key, header, monitored>>

\* main's shared_ptr, which points to nothing or to an AuthKey.
NoKey           == [set |-> FALSE, privkey_bytes |-> << >>]
KeyOf(privkey)  == [set |-> TRUE, privkey_bytes |-> privkey]

NoHeader == [npub |-> NoText, hex_pubkey |-> << >>]

Init ==
  /\ entry \in Entries
  /\ at = "entered" /\ held = {}
  /\ private_key = << >> /\ auth_key = NoKey
  /\ header = NoHeader /\ monitored = << >>

-----------------------------------------------------------------------------
(* The callbacks.                                                          *)

Decoded(hrp) == DecodeBech32_32Bytes(entry.text, hrp)

\* What a text that is no key's leaves: its symbols are cleared behind ConvertBits
\* and not before, the bytes when there are too many or too few.
LeftBy(error) ==
  CASE error \in {"character", "checksum"} -> {"symbols"}
    [] error = "conversion"                -> {"bytes"}
    [] OTHER                               -> {}

\* SetHeaderContext, Reset and ResolveRelaysForPubkey.
StartMonitoring(npub, bytes) ==
  /\ header' = [npub |-> npub, hex_pubkey |-> BytesToHex(bytes)]
  /\ monitored' = BytesToHex(bytes)

NpubSubmit ==
  /\ at = "entered" /\ entry.callback = "npub"
  /\ at' = "idle"
  /\ IF Decoded("npub").ok
     THEN held' = {} /\ StartMonitoring(entry.text, Decoded("npub").bytes)
     ELSE held' = LeftBy(Decoded("npub").error) /\ UNCHANGED <<header, monitored>>
  /\ UNCHANGED <<entry, private_key, auth_key>>

\* DecodeNsecToHex clears the symbols and the bytes, FromHexPrivkey turns the
\* hex into privkey_bytes, which by then is well-formed, and starts to derive.
NsecSubmit ==
  /\ at = "entered" /\ entry.callback = "nsec"
  /\ IF Decoded("nsec").ok
     THEN /\ private_key' = HexToBytes(BytesToHex(Decoded("nsec").bytes))
          /\ held' = {"hex", "privkey"}
          /\ at' = "derive_context"
     ELSE at' = "idle" /\ held' = LeftBy(Decoded("nsec").error) /\ UNCHANGED private_key
  /\ UNCHANGED <<entry, auth_key, header, monitored>>

-----------------------------------------------------------------------------
(* Calls that may fail.  `touched` is what the call has written to, whether *)
(* it failed or not, and `cleared` what the code clears behind it.         *)

Succeeds(call, touched, next) ==
  /\ at = call
  /\ at' = next
  /\ held' = held \cup touched
  /\ UNCHANGED <<entry, private_key, auth_key, header, monitored>>

Fails(call, touched, cleared) ==
  /\ at = call
  /\ at' = "idle"
  /\ held' = (held \cup touched) \ cleared
  /\ private_key' = << >>
  /\ UNCHANGED <<entry, auth_key, header, monitored>>

\* FromHexPrivkey, when no public key comes out: it clears the hex and the
\* bytes and returns null; the callback reports that.
NoPubkey == {"hex", "privkey"}

DeriveContext ==
  \/ Succeeds("derive_context", {"context"}, "derive_keypair")
  \/ Fails("derive_context", {}, NoPubkey)

DeriveKeypair ==
  \/ Succeeds("derive_keypair", {"keypair"}, "derive_xonly")
  \/ Fails("derive_keypair", {"keypair"}, {"keypair", "context"} \cup NoPubkey)

\* The public key is out, and the bytes are moved into an AuthKey, which for an
\* array is a copy: privkey_bytes keeps them.  Running sessions are given the
\* AuthKey; without any, its npub is encoded, decoded again and monitored.
KeyIsSet ==
  /\ at = "derive_xonly"
  /\ at' = "idle"
  /\ held' = held \ {"keypair", "context", "hex"}
  /\ auth_key' = KeyOf(private_key)
  /\ private_key' = << >>
  /\ LET npub   == EncodeNpubFromHex(BytesToHex(PubkeyOf[private_key]))
         pubkey == DecodeBech32_32Bytes(npub, "npub")
     IN \/ UNCHANGED <<header, monitored>>
        \/ pubkey.ok /\ StartMonitoring(npub, pubkey.bytes)
  /\ UNCHANGED entry

DeriveXonly ==
  \/ KeyIsSet
  \/ Fails("derive_xonly", {}, {"keypair", "context"} \cup NoPubkey)

-----------------------------------------------------------------------------
(* BuildAuthEvent, when a challenge comes and a key is set.                 *)

Challenge ==
  /\ at = "idle" /\ auth_key.set
  /\ at' = "auth_context"
  /\ held' = held \cap {"privkey"}
  /\ UNCHANGED <<entry, private_key, auth_key, header, monitored>>

AuthContext ==
  \/ Succeeds("auth_context", {"context"}, "auth_seed")
  \/ Fails("auth_context", {}, {})

AuthSeed ==
  \/ Succeeds("auth_seed", {"ctx_seed"}, "auth_keypair")
  \/ \E touched \in SUBSET {"ctx_seed"} : Fails("auth_seed", touched, {"context"})

AuthKeypair ==
  \/ Succeeds("auth_keypair", {"keypair"}, "auth_xonly")
  \/ Fails("auth_keypair", {"keypair"}, {"ctx_seed", "keypair", "context"})

\* With the public key the event is put together, and hashed to its id.
AuthXonly ==
  \/ Succeeds("auth_xonly", {"event_id"}, "auth_aux")
  \/ Fails("auth_xonly", {}, {"ctx_seed", "keypair", "context"})

\* Seeded bug: the early return added last forgets the keypair.
AuthAuxForgets ==
  \/ Succeeds("auth_aux", {"aux_rand"}, "auth_sign")
  \/ \E touched \in SUBSET {"aux_rand"} : Fails("auth_aux", touched, {"ctx_seed", "context"})

AuthAux ==
  \/ Succeeds("auth_aux", {"aux_rand"}, "auth_sign")
  \/ \E touched \in SUBSET {"aux_rand"} : Fails("auth_aux", touched, {"ctx_seed", "keypair", "context"})

\* Signed or not, everything is cleared.
AuthSign == Fails("auth_sign", {}, {"ctx_seed", "keypair", "aux_rand", "event_id", "context"})

-----------------------------------------------------------------------------

\* The user does nothing more.
Idle == at = "idle" /\ ~auth_key.set /\ UNCHANGED vars

Next ==
  \/ NpubSubmit \/ NsecSubmit
  \/ DeriveContext \/ DeriveKeypair \/ DeriveXonly
  \/ Challenge
  \/ AuthContext \/ AuthSeed \/ AuthKeypair \/ AuthXonly \/ AuthAux \/ AuthSign
  \/ Idle

Spec == Init /\ [][Next]_vars

-----------------------------------------------------------------------------
(* Properties.                                                             *)

\* The returns that do not clear everything: a text that is no key's, and the two
\* failures of the random source.
NotCleared(call) ==
  CASE call = "entered"   -> {"symbols", "bytes"}
    [] call = "auth_seed" -> {"ctx_seed"}
    [] call = "auth_aux"  -> {"aux_rand", "event_id"}
    [] OTHER              -> {}

\* signer.cpp:105, "keypair holds secret material - zero it on every return
\* path", and likewise for the hex, the bytes of the key and the context: no
\* return, at whichever call, leaves one of them behind, but for the bytes that
\* have become an AuthKey; and the seeds, the event id and the decoder's buffers
\* are left by no return but the three that NotCleared names.
NothingElseLeft ==
  [][at' = "idle" /\ at # "idle" =>
       held' \subseteq (IF auth_key'.set THEN {"privkey"} ELSE {}) \cup NotCleared(at)]_vars

Accepted == header # NoHeader \/ auth_key.set \/ private_key # << >>

\* A text with a few wrong characters, with two of them swapped, in mixed case
\* or for the other callback is never taken for a key.
DamageIsNoticed == entry.damaged => ~Accepted

\* A key and its text determine one another: a text that is taken is the very
\* one its key is encoded to, and the text a key is encoded to, in either case,
\* is taken for that key.  So is the npub that is derived from an nsec.
OneTextPerKey ==
  /\ header # NoHeader =>
       EncodeNpubFromHex(monitored).data = header.npub.data
  /\ private_key # << >> =>
       EncodeBech32_32Bytes("nsec", private_key).data = entry.text.data
  /\ entry.encoded /\ at # "entered" =>
       IF entry.callback = "npub" THEN monitored = BytesToHex(entry.payload)
       ELSE     /\ private_key \in {entry.payload, << >>}
                /\ auth_key \in {KeyOf(entry.payload), NoKey}
                /\ at = "derive_context" => private_key = entry.payload
                /\ monitored \in {<< >>, BytesToHex(PubkeyOf[entry.payload])}

-----------------------------------------------------------------------------
(* What comments say, and the model refutes.                               *)

\* signer.cpp:210, "zero all sensitive stack buffers before return", of which
\* event_id is one at 205 and 214: it is left by no return.
EventIdIsCleared == at = "idle" => "event_id" \notin held

\* bech32_internal.hpp:177, "zero the 5-bit encoded data before returning on
\* error": no error leaves it.
SymbolsAreCleared == at = "idle" => "symbols" \notin held

=============================================================================
