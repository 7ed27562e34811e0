----------------------------- MODULE ShellWords -----------------------------
(***************************************************************************)
(* tokenize (crates/ofw-intent/src/lib.rs): a command is split into        *)
(* literal words character by character, or refused.                       *)
(*                                                                         *)
(* Data abstraction.  Characters that the tokenizer treats alike are one   *)
(* character of the model: a blank, a live character ($ or `), an operator *)
(* (a redirection, a glob, a comment, ...), a line feed, which it counts   *)
(* among the operators, and the literal ones.  Lengths are in characters.  *)
(***************************************************************************)
EXTENDS Cuttings

CONSTANTS
    Literals,           \* characters that stand for themselves
    MaxInput,           \* bound: the length of the commands looked at
    MaxCommand,         \* MAX_COMMAND_BYTES
    MaxShellTokens,     \* MAX_TOKENS
    MaxToken            \* MAX_TOKEN_BYTES

Blank == " "
Single == "'"
Double == "\""
Escape == "\\"
Live == "$"
LineFeed == "\n"
Operators == {";", LineFeed}
Special == Operators \cup {Blank, Single, Double, Escape, Live}
ShellCharacters == Literals \cup Special

ASSUME ShellAssumption ==
    /\ {MaxInput, MaxCommand, MaxShellTokens, MaxToken} \subseteq Nat
    /\ Literals \cap Special = {}

VARIABLES
    commandText,        \* the command to be split
    at,                 \* characters consumed
    mode,               \* the loop the tokenizer is in
    tokens, current, started,
    answer              \* Reading, Ok or a ShellError

shellVars == <<commandText, at, mode, tokens, current, started, answer>>

Commands == UNION {[1..n -> ShellCharacters] : n \in 0..MaxInput}
-----------------------------------------------------------------------------
ShellInit ==
    /\ commandText \in Commands
    /\ at = 0
    /\ mode = "word"
    /\ tokens = <<>>
    /\ current = <<>>
    /\ started = FALSE
    /\ answer = IF Len(commandText) > MaxCommand THEN "CommandTooLong" ELSE "Reading"

Consume == at' = at + 1
RefuseWords(reason) ==
    /\ answer' = reason
    /\ UNCHANGED <<mode, tokens, current, started>>

\* The end of a turn of the outer loop, which measures the token.
Measure(word) ==
    /\ current' = word
    /\ answer' = IF Len(word) > MaxToken THEN "TokenTooLong" ELSE "Reading"

\* push_token; LosesEmpty is the mutation that drops an empty quoted word.
LosesEmpty ==
    IF Len(tokens) >= MaxShellTokens THEN RefuseWords("TooManyTokens")
    ELSE /\ tokens' = IF current = <<>> THEN tokens ELSE Append(tokens, current)
         /\ current' = <<>>
         /\ started' = FALSE
         /\ UNCHANGED <<mode, answer>>
PushToken ==
    IF Len(tokens) >= MaxShellTokens THEN RefuseWords("TooManyTokens")
    ELSE /\ tokens' = Append(tokens, current)
         /\ current' = <<>>
         /\ started' = FALSE
         /\ UNCHANGED <<mode, answer>>

\* A blank ends the word it follows, if there is one.
ReadBlank(c) ==
    /\ mode = "word" /\ c = Blank
    /\ IF started THEN PushToken
                  ELSE UNCHANGED <<mode, tokens, current, started, answer>>

\* A quote or a backslash starts a loop of its own, and a word.
Openings == {Single, Double, Escape}
OpenedMode(c) ==
    CASE c = Single -> "single" [] c = Double -> "double" [] c = Escape -> "escape"
ReadOpening(c) ==
    /\ mode = "word" /\ c \in Openings
    /\ mode' = OpenedMode(c)
    /\ started' = TRUE
    /\ UNCHANGED <<tokens, current, answer>>

ReadOperator(c) ==
    /\ mode = "word"
    /\ \/ c = Live /\ RefuseWords("NonLiteralExpansion")
       \/ c \in Operators /\ RefuseWords("UnsupportedConstruct")

ReadLiteral(c) ==
    /\ mode = "word" /\ c \in Literals
    /\ started' = TRUE
    /\ Measure(Append(current, c))
    /\ UNCHANGED <<mode, tokens>>

\* Between single quotes nothing but the closing quote is special.
ReadSingle(c) ==
    /\ mode = "single"
    /\ IF c = Single
         THEN mode' = "word" /\ Measure(current)
         ELSE current' = Append(current, c) /\ UNCHANGED <<mode, answer>>
    /\ UNCHANGED <<tokens, started>>

\* Between double quotes expansions are live and a backslash escapes four.
Escapable == {Double, Escape, Live}
ReadDouble(c) ==
    /\ mode = "double"
    /\ \/ c = Live /\ RefuseWords("NonLiteralExpansion")
       \/ /\ c = Double
          /\ mode' = "word"
          /\ Measure(current)
          /\ UNCHANGED <<tokens, started>>
       \/ /\ c = Escape
          /\ mode' = "doubleEscape"
          /\ UNCHANGED <<tokens, current, started, answer>>
       \/ /\ c \notin Escapable
          /\ current' = Append(current, c)
          /\ UNCHANGED <<mode, tokens, started, answer>>

ReadEscaped(c) ==
    \/ /\ mode = "escape"
       /\ mode' = "word"
       /\ Measure(Append(current, c))
       /\ UNCHANGED <<tokens, started>>
    \/ /\ mode = "doubleEscape"
       /\ IF c \in Escapable
            THEN /\ mode' = "double"
                 /\ current' = Append(current, c)
                 /\ UNCHANGED <<tokens, started, answer>>
            ELSE RefuseWords("UnsupportedConstruct")

ReadCharacter ==
    /\ answer = "Reading"
    /\ at < Len(commandText)
    /\ Consume
    /\ LET c == commandText[at + 1]
       IN  \/ ReadBlank(c) \/ ReadOpening(c) \/ ReadOperator(c) \/ ReadLiteral(c)
           \/ ReadSingle(c) \/ ReadDouble(c) \/ ReadEscaped(c)
    /\ UNCHANGED commandText

\* The command is used up: an open quote, a last word, or no word at all.
EndOfCommand ==
    /\ answer = "Reading"
    /\ at = Len(commandText)
    /\ IF mode # "word" THEN RefuseWords("UnterminatedQuote")
       ELSE IF started /\ Len(tokens) >= MaxShellTokens THEN RefuseWords("TooManyTokens")
       ELSE IF started
         THEN /\ tokens' = Append(tokens, current)
              /\ answer' = "Ok"
              /\ UNCHANGED <<mode, current, started>>
         ELSE /\ answer' = IF tokens = <<>> THEN "Empty" ELSE "Ok"
              /\ UNCHANGED <<mode, tokens, current, started>>
    /\ UNCHANGED <<commandText, at>>

ShellNext == ReadCharacter \/ EndOfCommand

ShellSpec == ShellInit /\ [][ShellNext]_shellVars
-----------------------------------------------------------------------------
\* The properties.  A text is cut into pieces, each of which is one of the
\* forms of the grammar; nothing below mentions the tokenizer's state.

Within(piece) == SubSeq(piece, 2, Len(piece) - 1)
Between(piece, quote) ==
    Len(piece) >= 2 /\ piece[1] = quote /\ piece[Len(piece)] = quote

DoublePieces ==
    {p \in Seq(ShellCharacters) : \/ Len(p) = 1 /\ p[1] \notin Escapable
                                  \/ Len(p) = 2 /\ p[1] = Escape /\ p[2] \in Escapable}
DoubleCuttings(piece) == CuttingsOf(Within(piece), DoublePieces)

LegalPieces ==
    {p \in Seq(ShellCharacters) :
        \/ Len(p) = 1 /\ p[1] \in Literals \cup {Blank}
        \/ Len(p) = 2 /\ p[1] = Escape
        \/ Between(p, Single) /\ \A i \in DOMAIN Within(p) : Within(p)[i] # Single
        \/ Between(p, Double) /\ DoubleCuttings(p) # {}}

\* What a piece stands for, and the same for a shell, to which a backslash
\* before a line feed continues the line.
PieceValue(p) ==
    IF Between(p, Single) THEN Within(p)
    ELSE IF Between(p, Double)
      THEN LET parts == CHOOSE q \in DoubleCuttings(p) : TRUE
           IN  [k \in DOMAIN parts |-> parts[k][Len(parts[k])]]
    ELSE <<p[Len(p)]>>
ShellValue(p) == IF p = <<Escape, LineFeed>> THEN <<>> ELSE PieceValue(p)

\* The words of the first n pieces: one behind a gap begins a word, the others
\* are joined to the word before them.
WordsTo(pieces, ValueOf(_)) ==
    LET Gap(k) == k = 0 \/ pieces[k] = <<Blank>>
        upTo[n \in 0..Len(pieces)] ==
            IF n = 0 THEN <<>>
            ELSE IF Gap(n) THEN upTo[n - 1]
            ELSE IF Gap(n - 1) THEN Append(upTo[n - 1], ValueOf(pieces[n]))
            ELSE [upTo[n - 1] EXCEPT ![Len(upTo[n - 1])] = @ \o ValueOf(pieces[n])]
    IN  upTo
WordsOf(pieces, ValueOf(_)) == WordsTo(pieces, ValueOf)[Len(pieces)]

ShortWords(words) ==
    Len(words) <= MaxShellTokens /\ \A n \in DOMAIN words : Len(words[n]) <= MaxToken

\* "rejects input it does not fully understand rather than parsing what it
\* can" (lib.rs, the crate's documentation): a command is split exactly when
\* all of it can be cut into legal pieces within the limits, and the tokens
\* are the words of that cutting with no character lost.
WordsAreLiteral ==
    LET cuttings == CuttingsOf(commandText, LegalPieces)
    IN  /\ answer = "Ok" =>
              /\ Len(commandText) <= MaxCommand /\ ShortWords(tokens) /\ tokens # <<>>
              /\ \E pieces \in cuttings : tokens = WordsOf(pieces, PieceValue)
        /\ answer \notin {"Ok", "Reading"} =>
              \/ Len(commandText) > MaxCommand
              \/ \A pieces \in cuttings : \/ WordsOf(pieces, PieceValue) = <<>>
                                          \/ ~ShortWords(WordsOf(pieces, PieceValue))

\* "Splits a command into literal words, or refuses" (lib.rs, tokenize): the
\* tokens are the words the shell will read.
WordsAreShellWords ==
    answer = "Ok" =>
        \A pieces \in CuttingsOf(commandText, LegalPieces) :
            tokens = WordsOf(pieces, ShellValue)
=============================================================================
