------------------------- MODULE MCTargetResolution -------------------------
(***************************************************************************)
(* The resolver on small instances: a repository reached through a link,   *)
(* a directory beside it, and two names inside that may be a file, a       *)
(* directory, or a link out of it, back into it, to itself or to nothing.  *)
(* One directory outside has a name that is no UTF-8, one a long name.     *)
(***************************************************************************)
EXTENDS TargetResolution

CONSTANTS repo, home, out, a, l, raw, long

MCFixed == [p \in {<<home>>, <<out>>, <<raw>>, <<long>>} |-> Dir]
MCWidth == [n \in {repo, home, out, a, l, raw, long} |-> IF n = long THEN 5 ELSE 1]

MCRepository == <<repo>>

MCNodes ==
    [p \in {<<repo>>, <<home, a>>, <<home, l>>, <<home, a, a>>, <<out, a>>} |->
       CASE p = <<repo>> -> {Link(<<home>>), Link(<<out>>)}
         [] p = <<home, a>> -> {Dir, File, Link(<<out>>)}
         [] p = <<home, l>> -> {Dir, Link(<<out>>), Link(<<home, a>>),
                                Link(<<home, l>>), Link(<<raw>>), Link(<<long>>)}
         [] p = <<home, a, a>> -> {File}
         [] p = <<out, a>> -> {File, Link(<<home>>)}]

Candidate(kind, effect, paths) == [kind |-> kind, effect |-> effect, paths |-> paths]
Here(path) == Operand(FALSE, path)

Status == Candidate("git.status", "Read", <<>>)
LogInside == Candidate("git.log", "Read", <<Here(<<a>>), Here(<<l, Up>>)>>)
LogOutside == Candidate("git.log", "Read", <<Operand(TRUE, <<out, a>>)>>)
AddTwo == Candidate("patch.add_file", "Create", <<Here(<<a>>), Here(<<l, a>>)>>)
AddBelow == Candidate("patch.add_file", "Create", <<Here(<<l, a, l>>)>>)
AddDeep == Candidate("patch.add_file", "Create", <<Here(<<a, a, a, a, a, a>>)>>)
Move == Candidate("patch.move_file", "Move", <<Here(<<a, a>>), Here(<<l>>)>>)

MCCandidates == {Status, LogInside, LogOutside, AddTwo, AddBelow, AddDeep, Move}

\* The same again; another operation on as many paths, in either direction; the
\* same operation on others.
MCRedemptions ==
    {<<c, c>> : c \in MCCandidates} \cup
    {<<AddTwo, Move>>, <<Move, AddTwo>>, <<LogOutside, Status>>, <<AddBelow, AddDeep>>}

MCCreation == {Candidate("patch.add_file", "Create", <<Here(<<l>>)>>)}
=============================================================================
