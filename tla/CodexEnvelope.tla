--------------------------- MODULE CodexEnvelope ---------------------------
(***************************************************************************)
(* The Codex adapter (crates/ofw-adapter-codex/src/lib.rs): the bounded    *)
(* JSON reader of the hook envelope, and the second reader that takes the  *)
(* command out of its tool_input.                                          *)
(*                                                                         *)
(* Data abstraction.  The envelope arrives as tokens: punctuation, string, *)
(* null, an atom (a number, true or false), a string that is broken        *)
(* inside, or junk that starts nothing; the white space between them is    *)
(* skipped.  What a string holds is a text with a size; how its characters *)
(* are read is the module JsonString.  The fields of the envelope and      *)
(* every limit are parameters.                                             *)
(***************************************************************************)
EXTENDS Naturals, Sequences, FiniteSets

CONSTANTS
    Strings,            \* fields: required, not empty, at most MaxIdentifier
    Paths,              \* fields: required, not empty, at most MaxPath ...
    Nullable,           \* ... those of them that may be null instead
    Texts,              \* what strings hold
    KeyTexts,           \* bound: the texts offered as keys of the envelope ...
    FieldTexts,         \* ... and in the value of each field, keys included
    Blanks,             \* texts of nothing but white space
    Size,               \* their length in bytes
    MaxTokens,          \* bound: the tokens of an envelope
    MaxName,            \* MAX_FIELD_NAME_BYTES
    MaxIdentifier,      \* MAX_IDENTIFIER_BYTES
    MaxPath,            \* MAX_PATH_BYTES
    MaxString,          \* MAX_JSON_STRING_BYTES
    MaxMembers,         \* MAX_OBJECT_MEMBERS
    MaxElements,        \* MAX_ARRAY_ELEMENTS
    MaxDepth,           \* MAX_JSON_NESTING_DEPTH
    MaxValues           \* MAX_JSON_VALUES

Fields == Strings \cup Paths \cup {"tool_input"}
SupportedTools == {"Bash", "apply_patch"}

ASSUME FieldsAssumption ==
    /\ {"hook_event_name", "tool_name"} \subseteq Strings
    /\ "tool_input" \notin Strings \cup Paths
    /\ Strings \cap Paths = {} /\ Nullable \subseteq Paths
    /\ IsFiniteSet(Fields)
    /\ Size \in [Texts -> Nat]
    /\ "command" \in Texts /\ Size["command"] <= MaxName
    /\ KeyTexts \cup Blanks \subseteq Texts
    /\ FieldTexts \in [Fields -> SUBSET Texts]
    /\ {MaxTokens, MaxName, MaxIdentifier, MaxPath, MaxString, MaxMembers,
        MaxElements, MaxDepth, MaxValues} \subseteq Nat
    /\ MaxDepth > 0

NoText == ""
Marks == {"{", "}", "[", "]", ":", ",", "atom", "null", "broken", "junk"}
Tokens ==
    [is : Marks, text : {NoText}] \cup [is : {"string"}, text : Texts]
Offered(texts) == {t \in Tokens : t.is = "string" => t.text \in texts}

VARIABLES
    text,               \* history: the tokens accepted so far
    expect,             \* what the reader is about to read
    stack,              \* open containers, the envelope first
    field,              \* the field of the envelope being read
    from,               \* the position its value started at
    fields,             \* EnvelopeBuilder: the tokens of each field's value
    values,             \* values counted
    parsed              \* Reading, Parsed or an EnvelopeErrorCode

envelopeVars == <<text, expect, stack, field, from, fields, values, parsed>>

Top == stack[Len(stack)]
InEnvelope == Len(stack) = 1
Frame(kind) == [is |-> kind, keys |-> {}, count |-> 0]
Closing(kind) == IF kind = "array" THEN "]" ELSE "}"
Opens(t) == t.is \in {"{", "["}
Counted(frame, n) == [frame EXCEPT !.count = @ + n]
WithTop(frame) == [stack EXCEPT ![Len(stack)] = frame]
Limit ==
    IF field \in Paths THEN MaxPath
    ELSE IF field = "tool_input" THEN MaxString
    ELSE MaxIdentifier
-----------------------------------------------------------------------------
EnvelopeInit ==
    /\ text = <<>>
    /\ expect = "start"
    /\ stack = <<>>
    /\ field = NoText
    /\ from = 0
    /\ fields = [f \in {} |-> <<>>]
    /\ values = 0
    /\ parsed \in {"Reading", "InputTooLarge", "InvalidUtf8"}

Error(code) ==
    /\ parsed' = code
    /\ UNCHANGED <<expect, stack, field, from, fields, values>>

\* The envelope itself counts as a value.
Start(t) ==
    /\ expect = "start"
    /\ IF MaxValues = 0 THEN Error("TooManyJsonValues")
       ELSE IF t.is # "{" THEN Error("InvalidJson")
       ELSE /\ values' = 1
            /\ stack' = <<Frame("envelope")>>
            /\ expect' = "first"
            /\ UNCHANGED <<field, from, fields, parsed>>

\* The tokens of a field's value, the one just read included.
ValueEnds(t) ==
    fields' = [f \in DOMAIN fields \cup {field} |->
                 IF f = field THEN SubSeq(Append(text, t), from, Len(text) + 1)
                              ELSE fields[f]]

\* A container is complete, and with the outermost one of tool_input the field.
Close(t) ==
    /\ stack' = SubSeq(stack, 1, Len(stack) - 1)
    /\ expect' = IF Len(stack) = 1 THEN "end" ELSE "more"
    /\ IF Len(stack) = 2 THEN ValueEnds(t) ELSE UNCHANGED fields
    /\ UNCHANGED <<field, from, values, parsed>>

\* Before the first member or element; an envelope without any is refused.
CloseEmpty(t) ==
    /\ expect = "first"
    /\ t.is = Closing(Top.is)
    /\ IF InEnvelope THEN Error("MissingField") ELSE Close(t)

\* CountedFirst is the mutation that counts a member before there is one.
CountedFirst ==
    IF InEnvelope THEN Top.count >= Cardinality(Fields)
                  ELSE Top.count + 1 >= MaxMembers
Full ==
    IF InEnvelope THEN Top.count >= Cardinality(Fields)
                  ELSE Top.count >= MaxMembers

\* Duplicates are looked for among all keys of the object so far.
AddKey(t) == [Counted(Top, 1) EXCEPT !.keys = @ \cup {t.text}]

Key(t) ==
    /\ expect \in {"first", "key"} /\ Top.is # "array"
    /\ ~(expect = "first" /\ t.is = Closing(Top.is))
    /\ IF Full
         THEN Error(IF InEnvelope THEN "UnknownField"
                                   ELSE "TooManyContainerEntries")
       ELSE IF t.is # "string" THEN Error("InvalidJson")
       ELSE IF Size[t.text] > (IF InEnvelope THEN MaxName ELSE MaxString)
         THEN Error("FieldTooLong")
       ELSE IF t.text \in Top.keys THEN Error("DuplicateField")
       ELSE /\ stack' = WithTop(AddKey(t))
            /\ field' = IF InEnvelope THEN t.text ELSE field
            /\ expect' = "colon"
            /\ UNCHANGED <<from, fields, values, parsed>>

Colon(t) ==
    /\ expect = "colon"
    /\ IF t.is # ":" THEN Error("InvalidJson")
       ELSE IF InEnvelope /\ field \notin Fields THEN Error("UnknownField")
       ELSE /\ expect' = "value"
            /\ from' = IF InEnvelope THEN Len(text) + 2 ELSE from
            /\ UNCHANGED <<stack, field, fields, values, parsed>>

\* parse_required_string and parse_nullable_string.
FieldValue(t) ==
    /\ expect = "value" /\ InEnvelope /\ field # "tool_input"
    /\ IF values >= MaxValues THEN Error("TooManyJsonValues")
       ELSE IF t.is = "broken" THEN Error("InvalidJson")
       ELSE IF ~(t.is = "string" \/ (t.is = "null" /\ field \in Nullable))
         THEN Error("InvalidFieldType")
       ELSE IF t.is = "string" /\ Size[t.text] > Limit THEN Error("FieldTooLong")
       ELSE IF t.is = "string" /\ t.text = NoText THEN Error("EmptyField")
       ELSE /\ values' = values + 1
            /\ expect' = "more"
            /\ ValueEnds(t)
            /\ UNCHANGED <<stack, field, from, parsed>>

\* parse_value, in tool_input and below it.
InArray == Top.is = "array"
Element == WithTop(Counted(Top, IF InArray THEN 1 ELSE 0))

Container(t) ==
    /\ stack' = Append(Element, Frame(IF t.is = "{" THEN "object" ELSE "array"))
    /\ expect' = "first"
    /\ values' = values + 1
    /\ UNCHANGED <<field, from, fields, parsed>>

Scalar(t) ==
    /\ stack' = Element
    /\ expect' = "more"
    /\ values' = values + 1
    /\ IF InEnvelope THEN ValueEnds(t) ELSE UNCHANGED fields
    /\ UNCHANGED <<field, from, parsed>>

Value(t) ==
    /\ \/ expect = "value" /\ (~InEnvelope \/ field = "tool_input")
       \/ expect = "first" /\ InArray /\ t.is # Closing(Top.is)
    /\ IF InArray /\ Top.count >= MaxElements THEN Error("TooManyContainerEntries")
       ELSE IF values >= MaxValues THEN Error("TooManyJsonValues")
       ELSE IF Opens(t)
         THEN IF Len(stack) >= MaxDepth THEN Error("NestingTooDeep")
                                        ELSE Container(t)
       ELSE IF t.is = "string" /\ Size[t.text] > MaxString THEN Error("FieldTooLong")
       ELSE IF t.is \in {"string", "atom", "null"} THEN Scalar(t)
       ELSE Error("InvalidJson")

\* After a member or an element.
More(t) ==
    /\ expect = "more"
    /\ \/ /\ t.is = ","
          /\ expect' = IF InArray THEN "value" ELSE "key"
          /\ UNCHANGED <<stack, field, from, fields, values, parsed>>
       \/ t.is = Closing(Top.is) /\ Close(t)
       \/ t.is \notin {",", Closing(Top.is)} /\ Error("InvalidJson")

Trailing(t) == expect = "end" /\ Error("InvalidJson")

Take(t) ==
    \/ Start(t) \/ CloseEmpty(t) \/ Key(t) \/ Colon(t)
    \/ FieldValue(t) \/ Value(t) \/ More(t) \/ Trailing(t)

Read(t) ==
    /\ parsed = "Reading"
    /\ Len(text) < MaxTokens
    /\ Take(t)
    /\ text' = IF parsed' = "Reading" THEN Append(text, t) ELSE text

\* The input ends in the middle: to every check that is like junk.
Junk == [is |-> "junk", text |-> NoText]
Truncated ==
    /\ parsed = "Reading" /\ expect # "end"
    /\ Take(Junk)
    /\ UNCHANGED text

\* EnvelopeBuilder::finish.  MissingIsNull is the mutation that takes a field
\* nobody wrote for null, as an Option is deserialized elsewhere.
MissingIsNull == Fields \ Nullable \subseteq DOMAIN fields
Complete == DOMAIN fields = Fields

FinishCode ==
    IF ~Complete THEN "MissingField"
    ELSE IF fields["hook_event_name"][1].text # "PreToolUse" THEN "UnsupportedProtocol"
    ELSE IF fields["tool_name"][1].text \notin SupportedTools THEN "UnsupportedTool"
    ELSE IF fields["tool_input"][1].is # "{" THEN "InvalidFieldType"
    ELSE "Parsed"

Finish ==
    /\ parsed = "Reading" /\ expect = "end"
    /\ parsed' = FinishCode
    /\ UNCHANGED <<text, expect, stack, field, from, fields, values>>

EnvelopeNext ==
    \/ Truncated \/ Finish
    \/ \E t \in Offered(IF InEnvelope /\ expect # "value" THEN KeyTexts
                       ELSE IF field \in Fields THEN FieldTexts[field] ELSE {}) :
          Read(t)

EnvelopeSpec == EnvelopeInit /\ [][EnvelopeNext]_envelopeVars
-----------------------------------------------------------------------------
\* parse_command_tool_input: the tokens of tool_input are read again, for the
\* one member it may have.  FirstMemberOnly stops behind that member.
At(raw, k) == IF k \in DOMAIN raw THEN raw[k] ELSE Junk

FirstMemberOnly(raw) == "none"
Behind(raw) ==
    IF At(raw, 5).is = "}" THEN IF At(raw, 6) # Junk THEN "InvalidJson" ELSE "none"
    ELSE IF At(raw, 5).is # "," \/ At(raw, 6).is # "string" THEN "InvalidJson"
    ELSE IF Size[At(raw, 6).text] > MaxName THEN "FieldTooLong"
    ELSE IF At(raw, 6).text = "command" THEN "DuplicateField"
    ELSE "UnknownField"

ToolInputCode(raw) ==
    LET key == At(raw, 2)
        value == At(raw, 4)
    IN  IF At(raw, 1).is # "{" THEN "InvalidJson"
        ELSE IF key.is = "}" THEN "MissingField"
        ELSE IF key.is # "string" THEN "InvalidJson"
        ELSE IF Size[key.text] > MaxName THEN "FieldTooLong"
        ELSE IF key.text # "command" THEN "UnknownField"
        ELSE IF At(raw, 3).is # ":" THEN "InvalidJson"
        ELSE IF value.is # "string" THEN "InvalidFieldType"
        ELSE IF Size[value.text] > MaxString THEN "FieldTooLong"
        ELSE IF value.text = NoText THEN "EmptyField"
        ELSE IF Behind(raw) # "none" THEN Behind(raw)
        ELSE IF value.text \in Blanks THEN "EmptyField"
        ELSE "none"

\* assess_supported_pre_tool_use: the two readers as one boundary.
Extraction ==
    IF parsed # "Parsed" THEN [error |-> <<"Envelope", parsed>>]
    ELSE IF ToolInputCode(fields["tool_input"]) # "none"
      THEN [error |-> <<"ToolInput", ToolInputCode(fields["tool_input"])>>]
    ELSE [tool |-> fields["tool_name"][1].text,
          command |-> fields["tool_input"][4].text]
-----------------------------------------------------------------------------
\* The properties.  JSON said of the tokens s alone: the stretch m[1]..m[2] of
\* them is one value when it is a scalar, or a container whose inside can be
\* cut at some of its commas into members or elements.
Stretches(i, j, commas) ==
    LET cuts == {i - 1, j + 1} \cup commas
    IN  {<<c[1] + 1, c[2] - 1>> : c \in
            {c \in cuts \X cuts :
                c[1] < c[2] /\ \A k \in cuts : k <= c[1] \/ k >= c[2]}}

CommasIn(s, i, j) == SUBSET {k \in i..j : s[k].is = ","}

Named(s, members) ==
    /\ \A m \in members : s[m[1]].is = "string" /\ s[m[1] + 1].is = ":"
    /\ \A m, n \in members : s[m[1]].text = s[n[1]].text => m = n

IsScalar(s, m) == m[1] = m[2] /\ s[m[1]].is \in {"string", "atom", "null"}
Encloses(s, m, open, close) ==
    m[1] < m[2] /\ s[m[1]].is = open /\ s[m[2]].is = close
Cuts(s, m) ==
    {Stretches(m[1] + 1, m[2] - 1, c) : c \in CommasIn(s, m[1] + 1, m[2] - 1)}

ValueIn(s, value, m) ==
    \/ IsScalar(s, m)
    \/ /\ Encloses(s, m, "{", "}")
       /\ \/ m[2] = m[1] + 1
          \/ \E members \in Cuts(s, m) :
                /\ \A n \in members : n[2] >= n[1] + 2
                /\ Named(s, members)
                /\ Cardinality(members) <= MaxMembers
                /\ \A n \in members : value[<<n[1] + 2, n[2]>>]
    \/ /\ Encloses(s, m, "[", "]")
       /\ \/ m[2] = m[1] + 1
          \/ \E elements \in Cuts(s, m) :
                /\ \A n \in elements : n[1] <= n[2]
                /\ Cardinality(elements) <= MaxElements
                /\ \A n \in elements : value[<<n[1], n[2]>>]

Pairs(s) == (1..Len(s)) \X (0..Len(s))
IsValue(s) ==
    LET value[m \in Pairs(s)] == ValueIn(s, value, m)
    IN  value

\* Members of the envelope are cut at commas outside every inner container.
Depth(s, k) == Cardinality({i \in 1..k : s[i].is \in {"{", "["}})
                 - Cardinality({i \in 1..k : s[i].is \in {"}", "]"}})
OuterMembers(s) ==
    Stretches(2, Len(s) - 1, {k \in DOMAIN s : s[k].is = "," /\ Depth(s, k) = 1})

TextOf(s, name) ==
    LET m == CHOOSE m \in OuterMembers(s) : s[m[1]].text = name
    IN  SubSeq(s, m[1] + 2, m[2])

\* The values of a text: what a colon follows is the name of one.
ValuesIn(s) ==
    Cardinality({k \in DOMAIN s : s[k].is \in {"{", "[", "string", "atom", "null"}})
      - Cardinality({k \in DOMAIN s : s[k].is = ":"})

StringsFit(raw, limit) ==
    \A k \in DOMAIN raw : raw[k].is = "string" => Size[raw[k].text] <= limit

\* "never repairs, defaults, or ignores input" (lib.rs, parse_pre_tool_use):
\* an envelope that is accepted is one JSON object without a duplicate key at
\* any depth, whose members are the ten fields and nothing else, each with the
\* tokens the builder keeps for it.  It is within every limit: of nesting, of
\* members and elements (ValueIn), of values, and of the length of each string
\* where it stands.  Only a nullable field is null, and none is empty.  What
\* hook_event_name and tool_name say is supported, and tool_input is an object.
EnvelopeIsStrict ==
    parsed = "Parsed" =>
        /\ text[1].is = "{" /\ text[Len(text)].is = "}"
        /\ Named(text, OuterMembers(text))
        /\ \A m \in OuterMembers(text) : IsValue(text)[<<m[1] + 2, m[2]>>]
        /\ \A k \in DOMAIN text : Depth(text, k) <= MaxDepth
        /\ {text[m[1]].text : m \in OuterMembers(text)} = Fields
        /\ Cardinality(OuterMembers(text)) = Cardinality(Fields)
        /\ \A f \in Fields : fields[f] = TextOf(text, f)
        /\ \A f \in Fields \ {"tool_input"} :
              /\ Len(fields[f]) = 1
              /\ fields[f][1].is \in {"string"} \cup
                    (IF f \in Nullable THEN {"null"} ELSE {})
              /\ fields[f][1].is = "string" => fields[f][1].text # NoText
        /\ ValuesIn(text) <= MaxValues
        /\ \A f \in Strings : StringsFit(fields[f], MaxIdentifier)
        /\ \A f \in Paths : StringsFit(fields[f], MaxPath)
        /\ StringsFit(fields["tool_input"], MaxString)
        /\ fields["hook_event_name"][1].text = "PreToolUse"
        /\ fields["tool_name"][1].text \in SupportedTools
        /\ fields["tool_input"][1].is = "{"

\* Nothing is refused for a limit it does not reach: with the value that is
\* one too many there are more than MaxValues, with the container that is
\* nested too deep there are more than MaxDepth around each other, and a
\* member or an element is one too many behind as many commas of its container
\* as that may have parts.
OpenAt(s, p) ==
    /\ Opens(s[p])
    /\ \A k \in p..Len(s) : Depth(s, k) >= Depth(s, p)
CommasOf(s, p) ==
    {k \in p..Len(s) : s[k].is = "," /\ Depth(s, k) = Depth(s, p)}

LimitsAreExact ==
    /\ parsed = "TooManyJsonValues" => ValuesIn(text) >= MaxValues
    /\ parsed = "NestingTooDeep" => Depth(text, Len(text)) >= MaxDepth
    /\ parsed = "TooManyContainerEntries" =>
          \E p \in DOMAIN text :
              /\ OpenAt(text, p)
              /\ Cardinality(CommasOf(text, p)) >=
                    (IF text[p].is = "{" THEN MaxMembers ELSE MaxElements)

\* The two readers agree on the text of tool_input: what the first accepted is
\* JSON without duplicates to the second, and a command is extracted exactly
\* when it is the only member there is, so that no other member and no second
\* command can mean something to the host that nobody judged.
ToolInputIsWhole ==
    parsed = "Parsed" =>
        LET raw == fields["tool_input"]
        IN  /\ ToolInputCode(raw) \notin {"InvalidJson", "DuplicateField"}
            /\ ToolInputCode(raw) = "none" <=>
                  /\ Len(raw) = 5 /\ raw[2].text = "command"
                  /\ raw[4].is = "string" /\ raw[4].text \notin {NoText} \cup Blanks
=============================================================================
