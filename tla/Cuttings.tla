------------------------------ MODULE Cuttings ------------------------------
(***************************************************************************)
(* Texts cut into consecutive pieces.  The grammars the readers of this    *)
(* project are compared with are stated with it: a text is in the grammar  *)
(* when some way of cutting it leaves legal pieces only.                   *)
(***************************************************************************)
EXTENDS SequencesExt

\* Every way of cutting the first n characters of text into pieces that are
\* all legal, each a sequence of pieces: the last of them begins behind a
\* place up to which the text can be cut.
CuttingsTo(text, Legal) ==
    LET upTo[n \in 0..Len(text)] ==
            IF n = 0 THEN {<<>>}
            ELSE UNION {{Append(pieces, SubSeq(text, k + 1, n)) : pieces \in upTo[k]} :
                        k \in {k \in 0..(n - 1) : SubSeq(text, k + 1, n) \in Legal}}
    IN  upTo

CuttingsOf(text, Legal) == CuttingsTo(text, Legal)[Len(text)]

\* The values of the pieces, one after the other.
Spelling(pieces, ValueOf(_)) ==
    FlattenSeq([k \in DOMAIN pieces |-> ValueOf(pieces[k])])
=============================================================================
