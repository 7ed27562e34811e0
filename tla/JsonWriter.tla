----------------------------- MODULE JsonWriter -----------------------------
(***************************************************************************)
(* The JSON writer (crates/ofw-cli/src/json.rs), which every answer and    *)
(* every report goes through: strings are escaped and members separated as *)
(* they are added, and an object may become a member of another.           *)
(*                                                                         *)
(* A text is a sequence of code points.  A number has one digit, and a     *)
(* truth value is its first letter.                                        *)
(***************************************************************************)
EXTENDS Naturals, SequencesExt

CONSTANTS
    WriterTexts,        \* strings that are written
    WriterLists,        \* sequences of strings that are written
    WriterKeys,         \* strings that name members
    MaxWritten          \* bound: members, nested ones included

CodePoints == {c \in Nat : c < 1114112}

TextAssumption ==
    /\ WriterTexts \cup WriterKeys \subseteq Seq(CodePoints)
    /\ WriterLists \subseteq Seq(Seq(CodePoints))
    /\ MaxWritten \in Nat

VARIABLES
    objects,            \* those under construction: buffer, empty
    members,            \* history: what was added to each of them
    added,              \* history: members added and objects begun
    written             \* what finish returned for the outermost

writerVars == <<objects, members, added, written>>

Mark == [quote |-> 34, backslash |-> 92, comma |-> 44, colon |-> 58, u |-> 117]
Brace == [open |-> 123, close |-> 125]
Bracket == [open |-> 91, close |-> 93]
ShortForm == [c \in {8, 9, 10, 12, 13} |->      \* \b \t \n \f \r
            CASE c = 8 -> 98 [] c = 9 -> 116 [] c = 10 -> 110 [] c = 12 -> 102
              [] c = 13 -> 114]
-----------------------------------------------------------------------------
\* write_escaped, for a character; QuoteOnly is the mutation that lets a
\* backslash through.
HexDigit(d) == IF d < 10 THEN 48 + d ELSE 87 + d
Unicode4(c) ==
    <<Mark.backslash, Mark.u, HexDigit((c \div 4096) % 16), HexDigit((c \div 256) % 16),
      HexDigit((c \div 16) % 16), HexDigit(c % 16)>>

QuoteOnly(c) == IF c = Mark.quote THEN <<Mark.backslash, c>> ELSE <<c>>
Escaped(c) ==
    CASE c \in {Mark.quote, Mark.backslash} -> <<Mark.backslash, c>>
      [] c \in DOMAIN ShortForm -> <<Mark.backslash, ShortForm[c]>>
      [] c < 32 /\ c \notin DOMAIN ShortForm -> Unicode4(c)
      [] OTHER -> <<c>>

Quoted(text) ==
    <<Mark.quote>> \o FlattenSeq([i \in DOMAIN text |-> Escaped(text[i])])
        \o <<Mark.quote>>

\* Object::new.
NewObject == [buffer |-> <<Brace.open>>, empty |-> TRUE]

WriterInit ==
    /\ objects = <<NewObject>>
    /\ members = << <<>> >>
    /\ added = 0
    /\ written = <<>>

\* separate, and a member.
Comma(first) == IF first THEN <<>> ELSE <<Mark.comma>>

WithMember(o, key, text) ==
    [buffer |-> o.buffer \o Comma(o.empty) \o Quoted(key) \o <<Mark.colon>> \o text,
     empty |-> FALSE]

\* What a value is written as.
Listing(texts) ==
    <<Bracket.open>>
        \o FlattenSeq([i \in DOMAIN texts |-> Comma(i = 1) \o Quoted(texts[i])])
        \o <<Bracket.close>>

WrittenAs(value) ==
    CASE value.is = "string" -> Quoted(value.of)
      [] value.is = "boolean" -> <<IF value.of THEN 116 ELSE 102>>
      [] value.is = "integer" -> <<48 + value.of>>
      [] value.is = "strings" -> Listing(value.of)

Finished(o) == o.buffer \o <<Brace.close>>

Innermost == Len(objects)

\* string, boolean, integer, strings.
WriterValues ==
    [is : {"string"}, of : WriterTexts] \cup [is : {"boolean"}, of : BOOLEAN]
        \cup [is : {"integer"}, of : {7}]
        \cup [is : {"strings"}, of : WriterLists]

AddMember(key, value) ==
    /\ written = <<>> /\ added < MaxWritten
    /\ added' = added + 1
    /\ objects' = [objects EXCEPT ![Innermost] = WithMember(@, key, WrittenAs(value))]
    /\ members' = [members EXCEPT ![Innermost] = Append(@, [key |-> key, value |-> value])]
    /\ UNCHANGED written

\* Another object is begun, and becomes a member of the one before it.
BeginObject ==
    /\ written = <<>> /\ added < MaxWritten
    /\ added' = added + 1
    /\ objects' = Append(objects, NewObject)
    /\ members' = Append(members, <<>>)
    /\ UNCHANGED written

AddObject(key) ==
    /\ written = <<>> /\ Innermost > 1
    /\ objects' = [Front(objects) EXCEPT
                     ![Innermost - 1] = WithMember(@, key, Finished(Last(objects)))]
    /\ members' = [Front(members) EXCEPT
                     ![Innermost - 1] = Append(@, [key |-> key,
                        value |-> [is |-> "object", of |-> Last(members)]])]
    /\ UNCHANGED <<added, written>>

FinishObject ==
    /\ written = <<>> /\ Innermost = 1
    /\ written' = Finished(objects[1])
    /\ UNCHANGED <<objects, members, added>>

WriterNext ==
    \/ \E key \in WriterKeys : \E value \in WriterValues : AddMember(key, value)
    \/ BeginObject \/ \E key \in WriterKeys : AddObject(key)
    \/ FinishObject

WriterSpec == WriterInit /\ [][WriterNext]_writerVars
-----------------------------------------------------------------------------
\* The property.  A reader as RFC 8259 has it, character by character: what it
\* is inside of, what may come next, and the string it is in the middle of.
\* Behind a backslash it takes the forms there are for the characters that
\* have to be escaped, and refuses any other.

Reader(inside, next) ==
    [inside |-> inside, next |-> next, text |-> <<>>, digits |-> 0, code |-> 0]
InString(inside, text) == [Reader(inside, "character") EXCEPT !.text = text]
Wrong == Reader("nothing", "nothing")

\* What is being read: the text, an object or a list of strings, as far as it
\* was read, and what is around it.
Due(is) == IF is = "object" THEN "key" ELSE "value"
Inside(is, outer) ==
    [is |-> is, of |-> <<>>, due |-> Due(is), key |-> <<>>, outer |-> outer]

\* A key or a value is complete.
Grown(inside, value) ==
    Append(inside.of, CASE inside.is = "object" -> [key |-> inside.key, value |-> value]
                        [] inside.is = "strings" -> value.of
                        [] inside.is = "text" -> value)
Delivered(inside, value) ==
    IF inside.due = "key"
      THEN Reader([inside EXCEPT !.due = "value", !.key = value.of], "colon")
      ELSE Reader([inside EXCEPT !.due = Due(inside.is), !.key = <<>>,
                                 !.of = Grown(inside, value)], "separator")

HexValue == [d \in (48..57) \cup (97..102) |-> IF d < 58 THEN d - 48 ELSE d - 87]
Unescape == [c \in {Mark.quote, Mark.backslash, 98, 102, 110, 114, 116} |->
               IF c \in {Mark.quote, Mark.backslash} THEN c
               ELSE CHOOSE code \in DOMAIN ShortForm : ShortForm[code] = c]

ReadCharacterOf(r, c) ==
    IF c = Mark.quote THEN Delivered(r.inside, [is |-> "string", of |-> r.text])
    ELSE IF c = Mark.backslash THEN [r EXCEPT !.next = "escape"]
    ELSE IF c < 32 THEN Wrong
    ELSE InString(r.inside, Append(r.text, c))
ReadEscapeOf(r, c) ==
    IF c \in DOMAIN Unescape THEN InString(r.inside, Append(r.text, Unescape[c]))
    ELSE IF c = Mark.u THEN [r EXCEPT !.next = "digit", !.digits = 0, !.code = 0]
    ELSE Wrong
ReadDigitOf(r, c) ==
    IF c \notin DOMAIN HexValue THEN Wrong
    ELSE IF r.digits = 3 THEN InString(r.inside, Append(r.text, 16 * r.code + HexValue[c]))
    ELSE [r EXCEPT !.digits = @ + 1, !.code = 16 * @ + HexValue[c]]

ReadValueOf(r, c) ==
    CASE c = Mark.quote -> InString(r.inside, <<>>)
      [] c \in {116, 102} -> Delivered(r.inside, [is |-> "boolean", of |-> c = 116])
      [] c \in 48..57 -> Delivered(r.inside, [is |-> "integer", of |-> c - 48])
      [] c = Bracket.open -> Reader(Inside("strings", r.inside), "first")
      [] c = Brace.open -> Reader(Inside("object", r.inside), "first")
      [] OTHER -> Wrong

\* A key, or a string of a list.
ReadItemOf(r, c) == IF c = Mark.quote THEN InString(r.inside, <<>>) ELSE Wrong

Closes(inside, c) ==
    \/ inside.is = "strings" /\ c = Bracket.close
    \/ inside.is = "object" /\ c = Brace.close
Closed(inside) == Delivered(inside.outer, [is |-> inside.is, of |-> inside.of])

Advanced(r, c) ==
    CASE r.next = "character" -> ReadCharacterOf(r, c)
      [] r.next = "escape" -> ReadEscapeOf(r, c)
      [] r.next = "digit" -> ReadDigitOf(r, c)
      [] r.next = "value" -> ReadValueOf(r, c)
      [] r.next = "item" -> ReadItemOf(r, c)
      [] r.next = "first" -> IF Closes(r.inside, c) THEN Closed(r.inside)
                                                    ELSE ReadItemOf(r, c)
      [] r.next = "colon" -> IF c = Mark.colon THEN Reader(r.inside, "value") ELSE Wrong
      [] r.next = "separator" ->
            IF Closes(r.inside, c) THEN Closed(r.inside)
            ELSE IF c = Mark.comma /\ r.inside.is # "text" THEN Reader(r.inside, "item")
            ELSE Wrong
      [] r.next = "nothing" -> Wrong

\* Where the reader is after each character of a text, and at the end of it.
ReadTo(r, text) ==
    LET upTo[n \in 0..Len(text)] == IF n = 0 THEN r ELSE Advanced(upTo[n - 1], text[n])
    IN  upTo
After(r, text) == ReadTo(r, text)[Len(text)]

\* Whatever is added in whatever order, the text is one object and can be read
\* as nothing but what was added: no string of a payload closes its own
\* quotes, and no member is lost or torn by the ones around it (json.rs, "Every
\* value is escaped, including values that are `&'static str` today").
ReadsBack ==
    written # <<>> =>
        LET end == After(Reader(Inside("text", 0), "value"), written)
        IN  /\ end.next = "separator" /\ end.inside.is = "text"
            /\ end.inside.of = <<[is |-> "object", of |-> members[1]]>>
=============================================================================
