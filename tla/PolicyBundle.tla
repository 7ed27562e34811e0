---------------------------- MODULE PolicyBundle ----------------------------
(***************************************************************************)
(* parse_bundle (crates/ofw-policy/src/bundle.rs): one v1 policy bundle is *)
(* read, converted rule by rule and validated, all of it or nothing, down  *)
(* to the constructors of crates/ofw-policy/src/lib.rs.                    *)
(*                                                                         *)
(* serde reads a document from front to back and stops at the first thing  *)
(* that is not JSON (MalformedSyntax) or not the type (MalformedShape);    *)
(* what the values say is looked at when all of it has been read.  An      *)
(* array is a sequence; null is what Option also takes for nothing.  Names *)
(* and versions are texts of ContractNames; of the strings nobody looks    *)
(* into only the length matters, which is one number in bytes and another  *)
(* in characters.                                                          *)
(***************************************************************************)
EXTENDS ContractNames, Cuttings

CONSTANTS
    HeaderTexts,        \* bound: what may stand before the rules ...
    RuleTexts,          \* ... and the rules offered
    Rank,               \* where a rule identity comes in the order of bytes
    NameDimensions,     \* selectors on namespaced names
    EnumDimensions,     \* selectors on enumerations
    Members,            \* the wire names of those enumerations
    EnumTexts,          \* what may stand for one of them
    Absent,             \* null
    LeftOut,            \* a member that is left out
    Prose,              \* strings nobody looks into
    CharsIn,              \* their length in characters ...
    BytesIn,              \* ... and in bytes
    MaxRuleTexts,       \* bound: the rules of a document
    MaxSet,             \* MAX_SCOPE_VALUES, MAX_NAME_SET, ..._PREFIXES
    MaxAlternatives,    \* MAX_SAFER_ALTERNATIVES
    MaxText,            \* 512, of rationale and alternatives
    MaxPrefix,          \* 4096, of path prefixes
    MaxKey,             \* 256, which the schema allows a key_id
    MaxRules            \* MAX_RULES_PER_BUNDLE

Selectors == NameDimensions \cup EnumDimensions \cup {"canonical_path_prefixes"}
ScopeFields == {"tenant_ids", "repository_ids", "environments"}

ASSUME CapsAssumption ==
    /\ {MaxRuleTexts, MaxSet, MaxAlternatives, MaxText, MaxPrefix, MaxKey,
        MaxRules} \subseteq Nat
    /\ NameDimensions \cap EnumDimensions = {}
    /\ "canonical_path_prefixes" \notin NameDimensions \cup EnumDimensions
    /\ \A s, t \in DOMAIN Rank : Rank[s] = Rank[t] => s = t

ASSUME ProseAssumption ==
    /\ CharsIn \in [Prose -> Nat] /\ BytesIn \in [Prose -> Nat]
    /\ \A t \in Prose : CharsIn[t] <= BytesIn[t] /\ (CharsIn[t] = 0 => BytesIn[t] = 0)

\* What JSON has there, whatever it says.  An RFC 3339 date-time is ASCII, has
\* the shape the code looks for when its T is a capital, and a zone behind it.
ASSUME DocumentsAssumption ==
    /\ \A h \in HeaderTexts :
          /\ {h.id, h.version, h.issuer} \subseteq ContractTexts
          /\ h.key \in Prose \cup {Absent, LeftOut}
          /\ {h.issued.chars, h.issued.bytes} \subseteq Nat
          /\ h.issued.dateTime =>
                /\ h.issued.printable /\ h.issued.chars = h.issued.bytes
                /\ h.issued.bytes >= 20 /\ (h.issued.capital => h.issued.shaped)
          /\ {h.scope["tenant_ids"], h.scope["repository_ids"]} \subseteq Seq(ContractTexts)
          /\ h.scope["environments"] \in Seq(EnumTexts)
    /\ \A r \in RuleTexts :
          /\ r.id \in ContractTexts /\ r.categories \in Seq(ContractTexts)
          /\ r.rationale \in Prose /\ r.alternatives \in Seq(Prose)
          /\ \A d \in NameDimensions : r.selects[d] \in Seq(ContractTexts) \cup {Absent}
          /\ \A d \in EnumDimensions : r.selects[d] \in Seq(EnumTexts) \cup {Absent}
          /\ r.selects["canonical_path_prefixes"] \in Seq(Prose) \cup {Absent}

VARIABLES
    header,             \* what precedes the rules
    document,           \* the rules deserialized
    rules,              \* the rules converted, in order
    parsing,            \* what parse_bundle does next
    result              \* Parsing, Ok or a BundleError

bundleVars == <<header, document, rules, parsing, result>>

BundleInit ==
    /\ header = Absent
    /\ document = <<>>
    /\ rules = <<>>
    /\ parsing = "bytes"
    /\ result = "Parsing"

Set(array) == {array[i] : i \in DOMAIN array}
-----------------------------------------------------------------------------
FailBundle(error) ==
    /\ result' = error
    /\ UNCHANGED <<header, document, rules, parsing>>

\* Before serde is called; the document may also break off anywhere.
TooLarge == parsing = "bytes" /\ result = "Parsing" /\ FailBundle("TooLarge")
NotUtf8 == parsing = "bytes" /\ result = "Parsing" /\ FailBundle("NotUtf8")
Malformed ==
    /\ parsing \in {"bytes", "rules"} /\ result = "Parsing"
    /\ parsing' = "broken"
    /\ result' \in {"MalformedSyntax", "MalformedShape"}
    /\ UNCHANGED <<header, document, rules>>

\* What BundleDocument admits before the rules; of key_id, nothing is asked.
HeaderShape(h) ==
    /\ IdentifierError(h.id, MaxIdentifierLength) = "none"
    /\ IdentifierError(h.issuer, MaxIdentifierLength) = "none"
    /\ VersionError(h.version) = "none"
    /\ h.layer \in {"organization", "user", "repository"}
    /\ \A f \in ScopeFields \ {"environments"} : \A i \in DOMAIN h.scope[f] :
          IdentifierError(h.scope[f][i], MaxIdentifierLength) = "none"
    /\ Set(h.scope["environments"]) \subseteq Members

ReadHeader(h) ==
    /\ parsing = "bytes" /\ result = "Parsing"
    /\ header' = h
    /\ IF HeaderShape(h) THEN parsing' = "rules" /\ result' = result
                         ELSE parsing' = parsing /\ result' = "MalformedShape"
    /\ UNCHANGED <<document, rules>>

\* What RuleDocument and SelectorsDocument admit.
RuleShape(r) ==
    /\ IdentifierError(r.id, MaxIdentifierLength) = "none"
    /\ r.effect \in {"ask", "deny"}
    /\ \A d \in NameDimensions : r.selects[d] # Absent =>
          \A i \in DOMAIN r.selects[d] : NameError(r.selects[d][i]) = "none"
    /\ \A d \in EnumDimensions : r.selects[d] # Absent =>
          Set(r.selects[d]) \subseteq Members
    /\ \A i \in DOMAIN r.categories : NameError(r.categories[i]) = "none"

ReadRule(r) ==
    /\ parsing = "rules" /\ result = "Parsing"
    /\ Len(document) < MaxRuleTexts
    /\ document' = Append(document, r)
    /\ result' = IF RuleShape(r) THEN result ELSE "MalformedShape"
    /\ UNCHANGED <<header, rules, parsing>>

\* to_set.
SetError(array, maximum) ==
    IF Len(array) > maximum THEN "TooManyValues"
    ELSE IF Cardinality(Set(array)) # Len(array) THEN "DuplicateValue"
    ELSE "none"

\* validate_issued_at: 19 bytes of date and time and something behind them.
IssuedAt(issued) == issued.bytes \in 20..35 /\ issued.shaped /\ issued.printable

Errors(codes) == codes \ {"none"}

\* The header's own values, once the document has been read.
HeaderError(h) ==
    LET scope == Errors({SetError(h.scope[f], MaxSet) : f \in ScopeFields})
    IN  IF h.schema # "1.0" THEN "UnsupportedSchemaVersion"
        ELSE IF ~IssuedAt(h.issued) THEN "InvalidIssuedAt"
        ELSE IF scope # {} THEN CHOOSE e \in scope : TRUE
        ELSE "none"

EndOfDocument ==
    /\ parsing = "rules" /\ result = "Parsing"
    /\ IF HeaderError(header) # "none" THEN FailBundle(HeaderError(header))
       ELSE parsing' = "convert" /\ UNCHANGED <<header, document, rules, result>>

\* present and unique_set on one selector.
SelectorError(array) ==
    IF array = Absent THEN "none"
    ELSE IF array = <<>> THEN "EmptySelectorValues"
    ELSE SetError(array, MaxSet)

InvalidRule(r) ==
    \/ \A d \in Selectors : r.selects[d] = Absent
    \/ r.categories = <<>>
    \/ BytesIn[r.rationale] \notin 1..MaxText
    \/ \E i \in DOMAIN r.alternatives : BytesIn[r.alternatives[i]] \notin 1..MaxText

InvalidPrefix(r) ==
    LET prefixes == r.selects["canonical_path_prefixes"]
    IN  prefixes # Absent /\ \E i \in DOMAIN prefixes : BytesIn[prefixes[i]] \notin 1..MaxPrefix

\* convert_rule and RestrictionRule::new.  Where several selectors are at
\* fault the code names the first, here any.
RuleErrors(r) ==
    LET selectors == Errors({SelectorError(r.selects[d]) : d \in Selectors})
    IN  IF selectors # {} THEN selectors
        ELSE IF InvalidPrefix(r) THEN {"Invalid"}
        ELSE IF Len(r.alternatives) > MaxAlternatives THEN {"TooManyValues"}
        ELSE IF SetError(r.categories, MaxSet) # "none"
          THEN {SetError(r.categories, MaxSet)}
        ELSE IF InvalidRule(r) THEN {"Invalid"}
        ELSE {}

\* A dimension nothing is selected on matches everything.
Converted(r) ==
    [id |-> r.id, effect |-> r.effect,
     selects |-> [d \in Selectors |->
                    IF r.selects[d] = Absent THEN {} ELSE Set(r.selects[d])]]

\* SkipRule is the mutation that goes on past a rule at fault.
SkipRule(r) ==
    /\ document' = Tail(document)
    /\ UNCHANGED <<header, rules, parsing, result>>
RejectRule(r) == \E error \in RuleErrors(r) : FailBundle(error)

Current == document[Len(rules) + 1]

ConvertRule ==
    /\ parsing = "convert" /\ result = "Parsing"
    /\ Len(rules) < Len(document)
    /\ \/ RuleErrors(Current) # {} /\ RejectRule(Current)
       \/ /\ RuleErrors(Current) = {}
          /\ rules' = Append(rules, Converted(Current))
          /\ UNCHANGED <<header, document, parsing, result>>

\* ValidatedPolicyBundle::new, which sorts by identity to find duplicates and
\* leaves the rules of the bundle so.
Validate ==
    /\ parsing = "convert" /\ result = "Parsing"
    /\ Len(rules) = Len(document)
    /\ IF \/ Len(rules) > MaxRules
          \/ Cardinality({rules[i].id : i \in DOMAIN rules}) # Len(rules)
         THEN FailBundle("Invalid")
         ELSE /\ \E sorted \in [DOMAIN rules -> Set(rules)] :
                    /\ Set(sorted) = Set(rules)
                    /\ \A i, j \in DOMAIN rules :
                          i < j => Rank[sorted[i].id] < Rank[sorted[j].id]
                    /\ rules' = sorted
              /\ result' = "Ok"
              /\ UNCHANGED <<header, document, parsing>>

BundleNext ==
    \/ TooLarge \/ NotUtf8 \/ Malformed
    \/ \E h \in HeaderTexts : ReadHeader(h)
    \/ \E r \in RuleTexts : ReadRule(r)
    \/ EndOfDocument \/ ConvertRule \/ Validate

BundleSpec == BundleInit /\ [][BundleNext]_bundleVars
-----------------------------------------------------------------------------
\* The properties.  The contract of a v1 bundle is a JSON schema
\* (policy/schemas/v1): patterns, arrays whose items are unique, and lengths in
\* characters.

NamePieces ==
    {s \in ContractTexts : /\ s # <<>> /\ s[1] \in Lower
                   /\ Consists(s, Lower \cup Digits \cup {"_"})}
NumberPieces == {s \in ContractTexts : s # <<>> /\ Consists(s, Digits)}

\* Pieces joined by dots: a first one and others with a dot in front.
Dotted(Legal) == {s \in ContractTexts : s # <<>> /\ s[1] = "." /\ Tail(s) \in Legal}
Joined(text, Legal, counts) ==
    \E pieces \in CuttingsOf(text, Legal \cup Dotted(Legal)) :
        /\ Len(pieces) \in counts /\ pieces[1] \in Legal
        /\ \A k \in 2..Len(pieces) : pieces[k] \in Dotted(Legal)

IdPattern(text) ==
    /\ Len(text) \in 1..MaxIdentifierLength
    /\ text[1] \in Alphanumeric
    /\ Consists(text, Alphanumeric \cup Punctuation)
NamePattern(text) ==
    Len(text) \in 3..MaxNameLength /\ Joined(text, NamePieces, 2..Len(text))
VersionPattern(text) ==
    /\ Len(text) \in 1..MaxVersionLength
    /\ \/ Joined(text, NumberPieces, 1..3)
       \/ \E k \in 2..(Len(text) - 1) :
             /\ text[k] \in {"+", "-"}
             /\ Joined(SubSeq(text, 1, k - 1), NumberPieces, 1..3)
             /\ Consists(SubSeq(text, k + 1, Len(text)), Alphanumeric \cup {".", "-"})

UniqueItems(array, counts, Item(_)) ==
    /\ Len(array) \in counts
    /\ \A i, j \in DOMAIN array : array[i] = array[j] => i = j
    /\ \A i \in DOMAIN array : Item(array[i])

IsMember(value) == value \in Members
IsProse(value) == value \in Prose
Fit(array, Length, maximum) ==
    \A i \in DOMAIN array : Length[array[i]] \in 1..maximum

\* The header but for its date and its key.
HeaderConforms(h) ==
    /\ h.schema = "1.0" /\ IdPattern(h.id) /\ VersionPattern(h.version)
    /\ h.layer \in {"organization", "user", "repository"}
    /\ IdPattern(h.issuer)
    /\ UniqueItems(h.scope["tenant_ids"], 0..MaxSet, IdPattern)
    /\ UniqueItems(h.scope["repository_ids"], 0..MaxSet, IdPattern)
    /\ UniqueItems(h.scope["environments"], 0..MaxSet, IsMember)

Dated(h) == h.issued.dateTime /\ h.issued.chars <= 35
Signed(h) == h.key # LeftOut /\ (h.key # Absent => CharsIn[h.key] <= MaxKey)

\* A rule, with its lengths in the given unit.
RuleConforms(r, Length) ==
    /\ IdPattern(r.id) /\ r.effect \in {"ask", "deny"}
    /\ \E d \in Selectors : r.selects[d] # Absent
    /\ \A d \in Selectors : r.selects[d] # Absent =>
          \/ d \in NameDimensions /\ UniqueItems(r.selects[d], 1..MaxSet, NamePattern)
          \/ d \in EnumDimensions /\ UniqueItems(r.selects[d], 1..MaxSet, IsMember)
          \/ /\ d = "canonical_path_prefixes"
             /\ UniqueItems(r.selects[d], 1..MaxSet, IsProse)
             /\ Fit(r.selects[d], Length, MaxPrefix)
    /\ UniqueItems(r.categories, 1..MaxSet, NamePattern)
    /\ Length[r.rationale] \in 1..MaxText
    /\ Len(r.alternatives) <= MaxAlternatives /\ Fit(r.alternatives, Length, MaxText)

RulesConform(Length) ==
    /\ \A i \in DOMAIN document : RuleConforms(document[i], Length)
    /\ \A i, j \in DOMAIN document : document[i].id = document[j].id => i = j
    /\ Len(document) <= MaxRules

\* "A bundle is all or nothing" (bundle.rs).  What loads has a header and rules
\* that conform to the schema, its date and key_id apart, which the code hardly
\* looks at; and what is loaded is every rule of it, with exactly the values it
\* selects on, none widened and none absorbed, except that null passes for a
\* selector nobody wrote.  Conversely a document that conforms, also with its
\* lengths in bytes and a capital T in its date, is not refused for its values.
BundleIsWhole ==
    /\ result = "Ok" =>
          /\ HeaderConforms(header) /\ RulesConform(CharsIn)
          /\ Len(rules) = Len(document)
          /\ \A r \in Set(document) : \E loaded \in Set(rules) :
                /\ loaded.id = r.id /\ loaded.effect = r.effect
                /\ \A d \in Selectors :
                      \/ r.selects[d] = Absent /\ loaded.selects[d] = {}
                      \/ /\ r.selects[d] \notin {Absent, <<>>}
                         /\ loaded.selects[d] = Set(r.selects[d])
    /\ header # Absent /\ parsing # "broken" /\ result \notin {"Parsing", "Ok"} =>
          ~ /\ HeaderConforms(header) /\ RulesConform(BytesIn)
            /\ Dated(header) /\ header.issued.capital /\ Signed(header)
=============================================================================
