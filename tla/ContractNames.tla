---------------------------- MODULE ContractNames ----------------------------
(***************************************************************************)
(* The validated strings of crates/ofw-contracts/src/lib.rs: what their    *)
(* constructors, the only way to get one out of JSON, accept.  A text is a *)
(* sequence of characters; the letters and digits are parameters.          *)
(***************************************************************************)
EXTENDS Naturals, Sequences

CONSTANTS
    Lower, Upper, Digits,   \* ASCII characters
    Others,                 \* characters that stand in no name or version
    MaxIdentifierLength,          \* MAX_IDENTIFIER_LENGTH
    MaxNameLength,                \* MAX_NAMESPACED_NAME_LENGTH
    MaxVersionLength              \* MAX_VERSION_LENGTH

Letters == Lower \cup Upper
Alphanumeric == Letters \cup Digits
Punctuation == {".", "_", ":", "@", "/", "-"}
Characters == Alphanumeric \cup Punctuation \cup {"+"} \cup Others
ContractTexts == Seq(Characters)

ASSUME NamesAssumption ==
    /\ {MaxIdentifierLength, MaxNameLength, MaxVersionLength} \subseteq Nat
    /\ Alphanumeric \cap (Punctuation \cup {"+"}) = {}

Consists(text, characters) == \A i \in DOMAIN text : text[i] \in characters

\* What is between the dots of a text, also before the first and behind the
\* last.
Dots(text) == {i \in DOMAIN text : text[i] = "."}
Bounds(text) == {0, Len(text) + 1} \cup Dots(text)
Adjacent(cuts) ==
    {c \in cuts \X cuts : c[1] < c[2] /\ \A k \in cuts : k <= c[1] \/ k >= c[2]}
Span(text, c) == SubSeq(text, c[1] + 1, c[2] - 1)
Segments(text) == {Span(text, c) : c \in Adjacent(Bounds(text))}

\* validate_identifier.
IdentifierError(text, maximum) ==
    IF text = <<>> THEN "Empty"
    ELSE IF Len(text) > maximum THEN "TooLong"
    ELSE IF text[1] \notin Alphanumeric
              \/ ~Consists(text, Alphanumeric \cup Punctuation)
      THEN "InvalidIdentifierCharacter"
    ELSE "none"

\* is_lower_identifier_segment, of a segment that is not empty.
NameSegment(s) ==
    s # <<>> /\ s[1] \in Lower /\ Consists(s, Lower \cup Digits \cup {"_"})

\* NamespacedName::new.
NameError(text) ==
    IF IdentifierError(text, MaxNameLength) # "none" THEN IdentifierError(text, MaxNameLength)
    ELSE IF Dots(text) = {} THEN "MissingNamespace"
    ELSE IF \E s \in Segments(text) : ~NameSegment(s) THEN "InvalidNamespacedName"
    ELSE "none"

\* Version::new: the first sign ends the numbers.
VersionError(text) ==
    LET signs == {i \in DOMAIN text : text[i] \in {"+", "-"}}
        first == CHOOSE i \in signs : \A j \in signs : i <= j
        core == IF signs = {} THEN text ELSE SubSeq(text, 1, first - 1)
        suffix == IF signs = {} THEN <<>> ELSE SubSeq(text, first + 1, Len(text))
        numbers == \A s \in Segments(core) : s # <<>> /\ Consists(s, Digits)
    IN  IF text = <<>> THEN "Empty"
        ELSE IF Len(text) > MaxVersionLength THEN "TooLong"
        ELSE IF \/ (\E i, j, k \in Dots(core) : i < j /\ j < k)
                \/ ~numbers
                \/ /\ signs # {}
                   /\ suffix = <<>> \/ ~Consists(suffix, Alphanumeric \cup {".", "-"})
          THEN "InvalidVersion"
        ELSE "none"
=============================================================================
