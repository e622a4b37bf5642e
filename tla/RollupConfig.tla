---------------------------- MODULE RollupConfig ----------------------------
(***************************************************************************)
(* The field conversions of LoadOPStackRollupConfigFromChainID and         *)
(* CustomBytes32.UnmarshalJSON (src/contracts/test/ZKUpgrader.t.sol,       *)
(* lines 96-198).  One behaviour loads one field of the raw JSON config.   *)
(*                                                                         *)
(* A JSON string is a "0x" prefix flag and a sequence of characters over a *)
(* small alphabet: decimal digits, a hex-only digit and a non-hex letter.  *)
(* Bytes32 is abstracted to Width hex digits (64 in the code); the padding *)
(* and the length check are kept exactly.                                  *)
(***************************************************************************)
EXTENDS Naturals, Sequences, SequencesExt

CONSTANTS
    Chars,      \* characters a field string is made of
    MaxLen,     \* bound: characters in a field string
    Width,      \* hex digits of a Bytes32 (64 in the code)
    JsonNums    \* values a field may carry as a JSON number

(* The hex digits of Chars and their values; other characters are not hex. *)
HexDigitValue == ("0" :> 0) @@ ("1" :> 1) @@ ("9" :> 9) @@ ("a" :> 10)
DecDigits == {"0", "1", "9"}

ASSUME Chars \subseteq DOMAIN HexDigitValue \cup {"x"}

Strings == UNION {[1..n -> Chars] : n \in 0..MaxLen}

(* A field of the raw config: a JSON number, or a JSON string.  A string   *)
(* is its "0x" flag and the characters strings.TrimPrefix leaves, so an    *)
(* unprefixed string never starts with "0x".                               *)
StartsWith0x(s) == Len(s) >= 2 /\ s[1] = "0" /\ s[2] = "x"
Fields == [kind : {"num"}, val : JsonNums]
          \cup {f \in [kind : {"str"}, prefixed : BOOLEAN, chars : Strings] :
                   f.prefixed \/ ~StartsWith0x(f.chars)}

IsHex(s) == \A k \in DOMAIN s : s[k] \in DOMAIN HexDigitValue
HexValue(s) == FoldLeft(LAMBDA acc, c : 16 * acc + HexDigitValue[c], 0, s)

(* The outcome of a conversion: the value it yields, or an error.         *)
Ok(n) == [ok |-> TRUE, val |-> n]
Err == [ok |-> FALSE, val |-> 0]

VARIABLES
    field,    \* the raw field being loaded
    target,   \* "number" or "bytes32": the rollup.Config type it lands in
    loaded,   \* the field has been converted
    result    \* what the loaded config holds, or an error

vars == <<field, target, loaded, result>>

Init ==
    /\ field \in Fields
    /\ target \in {"number", "bytes32"}
    /\ loaded = FALSE
    /\ result = Err

(***************************************************************************)
(* Number fields (lines 138-152, 170-183): a string has "0x" trimmed and   *)
(* goes through strconv.ParseInt(_, 16, 64); on success the int replaces   *)
(* it, otherwise it is left a string, which json.Unmarshal into the uint64 *)
(* field of rollup.Config rejects (lines 192-195).                         *)
(***************************************************************************)
ParseInt16(s) == IF s # <<>> /\ IsHex(s) THEN Ok(HexValue(s)) ELSE Err

LoadNumber ==
    /\ target = "number" /\ ~loaded
    /\ result' = IF field.kind = "num" THEN Ok(field.val) ELSE ParseInt16(field.chars)
    /\ loaded' = TRUE
    /\ UNCHANGED <<field, target>>

(***************************************************************************)
(* Bytes32 fields (lines 153-167) through CustomBytes32.UnmarshalJSON      *)
(* (96-122): trim "0x", left-pad with zeros to Width ("%064s" never cuts), *)
(* put "0x" back, then ParseHexOrString, whose hex decoding fails on an    *)
(* odd number of digits or a non-hex character; anything but Width/2       *)
(* bytes is rejected.  A JSON number is not converted and json.Unmarshal  *)
(* into the eth.Bytes32 field rejects it (lines 192-195).                  *)
(***************************************************************************)
Zeros(n) == [k \in 1..n |-> "0"]

PadLeft(s) == IF Len(s) < Width THEN Zeros(Width - Len(s)) \o s ELSE s

(* ParseHexOrString of "0x" + p decodes to Len(p) / 2 bytes.               *)
HexDecodes(p) == IsHex(p) /\ Len(p) % 2 = 0

(* Mutant: whatever ParseHexOrString decodes is copied in, without the    *)
(* length check of line 116.                                               *)
CustomBytes32NoLengthCheck(s) ==
    LET p == PadLeft(s)
    IN  IF HexDecodes(p) THEN Ok(HexValue(p)) ELSE Err

CustomBytes32(s) ==
    LET p == PadLeft(s)
    IN  IF HexDecodes(p) /\ Len(p) \div 2 = Width \div 2 THEN Ok(HexValue(p)) ELSE Err

LoadBytes32 ==
    /\ target = "bytes32" /\ ~loaded
    /\ result' = IF field.kind = "num" THEN Err ELSE CustomBytes32(field.chars)
    /\ loaded' = TRUE
    /\ UNCHANGED <<field, target>>

Next == LoadNumber \/ LoadBytes32

Spec == Init /\ [][Next]_vars

-----------------------------------------------------------------------------
(***************************************************************************)
(* Properties.                                                             *)
(***************************************************************************)

(* Spec 6 (rollup config files) and 8.6: a Bytes32 field in minimal hex,   *)
(* with or without "0x", loads as the value of its digits, the same as     *)
(* its form padded to the full width; a string of more digits than fit,   *)
(* or with a character that is not hex, is rejected.  At stake: the       *)
(* "%064s" padding, the ParseHexOrString decoding and the 32-byte length  *)
(* check of lines 103-118: an even string of more than Width digits       *)
(* decodes, and only the length check rejects it.                          *)
Bytes32MinimalHex ==
    (target = "bytes32" /\ loaded /\ field.kind = "str") =>
        result = IF IsHex(field.chars) /\ Len(field.chars) <= Width
                 THEN Ok(HexValue(field.chars)) ELSE Err

(* Spec 6 (rollup config files): a numeric field may arrive hex-encoded    *)
(* ("0x...") or decimal, and loads as the number it denotes.  At stake:    *)
(* the prefix-blind base-16 parse of lines 141, 148, 172 and 179.          *)
NumberAsWritten ==
    LET s == field.chars
    IN  (target = "number" /\ loaded /\ field.kind = "str" /\ ~field.prefixed
         /\ s # <<>> /\ \A k \in DOMAIN s : s[k] \in DecDigits)
            => result = Ok(FoldLeft(LAMBDA acc, c : 10 * acc + HexDigitValue[c], 0, s))

=============================================================================
