----------------------------- MODULE JsonString -----------------------------
(***************************************************************************)
(* parse_string (crates/ofw-adapter-codex/src/lib.rs): the inside of one   *)
(* JSON string, its escapes and its surrogate pairs, decoded into text.    *)
(*                                                                         *)
(* Data abstraction.  A character is its code point; the four hexadecimal  *)
(* digits of an escape are one symbol with their value, or a symbol that   *)
(* is no such quad.  The code points and quads looked at are parameters.   *)
(***************************************************************************)
EXTENDS Cuttings

CONSTANTS
    Plain,              \* code points that may stand for themselves
    Quads,              \* values of the quads after \u
    MaxSymbols,         \* bound: the symbols of a string
    Maximum             \* the limit on the decoded text, in bytes

Units16 == {u \in Nat : u < 65536}                  \* any u16
High == {c \in Nat : 55296 <= c /\ c < 56320}       \* 0xD800..=0xDBFF
Low == {c \in Nat : 56320 <= c /\ c < 57344}        \* 0xDC00..=0xDFFF
Scalars == {c \in Nat : c < 1114112} \ (High \cup Low)      \* any char

ASSUME RangesAssumption ==
    /\ Plain \subseteq Scalars \ {34, 92}
    /\ Quads \subseteq Units16
    /\ {MaxSymbols, Maximum} \subseteq Nat

Quote == [is |-> "quote", code |-> 34]
Backslash == [is |-> "backslash", code |-> 92]
LetterU == [is |-> "u", code |-> 117]
LetterN == [is |-> "n", code |-> 110]       \* stands for the simple escapes
Symbols ==
    {Quote, Backslash, LetterU, LetterN}
        \cup [is : {"plain"}, code : Plain] \cup [is : {"quad"}, code : Quads]

VARIABLES
    symbols,            \* history: the symbols read
    within,             \* where in an escape the reader is
    high,               \* the high surrogate waiting for its other half
    output,             \* the code points decoded so far
    outcome             \* Reading, Ok or an EnvelopeErrorCode

stringVars == <<symbols, within, high, output, outcome>>

Utf8Length(c) == IF c < 128 THEN 1 ELSE IF c < 2048 THEN 2
                 ELSE IF c < 65536 THEN 3 ELSE 4
Bytes(text) == FoldLeft(LAMBDA n, c : n + Utf8Length(c), 0, text)

\* The scalar two surrogates stand for; WithoutOffset forgets the 0x10000.
WithoutOffset(first, second) == (first - 55296) * 1024 + (second - 56320)
ScalarOf(first, second) == 65536 + (first - 55296) * 1024 + (second - 56320)
-----------------------------------------------------------------------------
StringInit ==
    /\ symbols = <<>>
    /\ within = "text"
    /\ high = 0
    /\ output = <<>>
    /\ outcome = "Reading"

RefuseString ==
    /\ outcome' = "InvalidJson"
    /\ UNCHANGED <<within, high, output>>

\* A character is complete; the limit is looked at behind each one.
Push(c) ==
    /\ output' = Append(output, c)
    /\ within' = "text" /\ high' = 0
    /\ outcome' = IF Bytes(output') <= Maximum THEN "Reading" ELSE "FieldTooLong"

ReadText(s) ==
    /\ within = "text"
    /\ \/ /\ s.is = "quote"
          /\ outcome' = "Ok"
          /\ UNCHANGED <<within, high, output>>
       \/ /\ s.is = "backslash"
          /\ within' = "escape"
          /\ UNCHANGED <<high, output, outcome>>
       \/ /\ s.is \notin {"quote", "backslash"}
          /\ IF s.code < 32 THEN RefuseString ELSE Push(s.code)

ReadEscape(s) ==
    /\ within = "escape"
    /\ CASE s.is = "u" -> within' = "quad" /\ UNCHANGED <<high, output, outcome>>
         [] s.is = "n" -> Push(10)
         [] s.is \in {"quote", "backslash"} -> Push(s.code)
         [] OTHER -> RefuseString

ReadQuad(s) ==
    /\ within = "quad"
    /\ IF s.is # "quad" \/ s.code \in Low THEN RefuseString
       ELSE IF s.code \in High
         THEN within' = "other half" /\ high' = s.code /\ UNCHANGED <<output, outcome>>
       ELSE Push(s.code)

\* A high surrogate has to be followed by \u and a low one.
ReadOtherHalf(s) ==
    \/ /\ within = "other half"
       /\ IF s.is = "backslash" THEN within' = "other u" /\ UNCHANGED <<high, output, outcome>>
                                ELSE RefuseString
    \/ /\ within = "other u"
       /\ IF s.is = "u" THEN within' = "low" /\ UNCHANGED <<high, output, outcome>>
                        ELSE RefuseString
    \/ /\ within = "low"
       /\ IF s.is = "quad" /\ s.code \in Low THEN Push(ScalarOf(high, s.code)) ELSE RefuseString

ReadSymbol(s) ==
    /\ outcome = "Reading"
    /\ Len(symbols) < MaxSymbols
    /\ symbols' = Append(symbols, s)
    /\ ReadText(s) \/ ReadEscape(s) \/ ReadQuad(s) \/ ReadOtherHalf(s)

\* The input ends inside the string.
StringTruncated ==
    /\ outcome = "Reading"
    /\ RefuseString
    /\ UNCHANGED symbols

\* Digits are told apart from other characters only where a quad is due.
OfferedSymbols == {s \in Symbols : s.is = "quad" => within \in {"quad", "low"}}

StringNext == StringTruncated \/ \E s \in OfferedSymbols : ReadSymbol(s)

StringSpec == StringInit /\ [][StringNext]_stringVars
-----------------------------------------------------------------------------
\* The property.  The forms a character of the text may have, the UTF-16
\* units each form spells, and the standard's encoding of a scalar.

IsCharacter(piece) ==
    \/ Len(piece) = 1 /\ piece[1].is \in {"plain", "u", "n"} /\ piece[1].code >= 32
    \/ Len(piece) = 2 /\ piece[1].is = "backslash"
                      /\ piece[2].is \in {"quote", "backslash", "n"}
    \/ Len(piece) = 3 /\ piece[1].is = "backslash" /\ piece[2].is = "u"
                      /\ piece[3].is = "quad"

JsonCharacters == {piece \in Seq(Symbols) : IsCharacter(piece)}

Encode(c) ==
    IF c < 65536 THEN <<c>>
    ELSE <<55296 + ((c - 65536) \div 1024), 56320 + ((c - 65536) % 1024)>>

Units(piece) ==
    IF Len(piece) = 3 THEN <<piece[3].code>>
    ELSE IF Len(piece) = 2 /\ piece[2].is = "n" THEN <<10>>
    ELSE Encode(piece[Len(piece)].code)

\* A string that is read is UTF-16, and is read as the text it encodes:
\* no surrogate gets into the text, none is dropped and no two are paired
\* across another character (parse_unicode_escape).
DecodesUtf16 ==
    outcome = "Ok" =>
        /\ \A i \in DOMAIN output : output[i] \notin High \cup Low
        /\ Bytes(output) <= Maximum
        /\ \E pieces \in CuttingsOf(SubSeq(symbols, 1, Len(symbols) - 1), JsonCharacters) :
              Spelling(pieces, Units) = Spelling(output, Encode)
=============================================================================
