--------------------------- MODULE MCPolicyBundle ---------------------------
(***************************************************************************)
(* Policy bundles on small instances: each value of a header and of a rule *)
(* in turn within and out of its pattern, and every sequence of rules.     *)
(***************************************************************************)
EXTENDS PolicyBundle, TLC

\* Bundles of at most two rules and one too many, each value in turn out of its
\* pattern; of the strings one has more bytes than it may have characters.
BundleProse == {"", "s", "wide", "long"}
ProseChars ==
    [t \in BundleProse |-> CASE t = "" -> 0 [] t = "s" -> 1 [] t = "wide" -> 2 [] OTHER -> 3]
ProseBytes ==
    [t \in BundleProse |-> CASE t = "" -> 0 [] t = "s" -> 1 [] OTHER -> 3]
Name == <<"a", ".", "b">>
BundleTexts ==
    {<<"a">>, <<"1", "/", "-">>, <<>>, <<"a", "a", "a", "a", "a", "a", "a">>,
     <<".", "a">>, <<"a", " ">>}
Versions ==
    {<<"1", ".", "1", ".", "1">>, <<"1", ".", "1", ".", "1", ".", "1">>,
     <<"1", "+">>, <<"1", "-", "a", ".", "-">>, <<"1", "+", "a", "+">>,
     <<".", "1">>, <<"1", ".">>, <<>>,
     <<"1", "1", "1", "1", "1", "1", "1", "1">>}
Scope == [tenant_ids |-> <<>>, repository_ids |-> <<>>, environments |-> <<>>]
Issued(length, shaped, dateTime) ==
    [bytes |-> length, chars |-> length, shaped |-> shaped, printable |-> TRUE,
     dateTime |-> dateTime, capital |-> TRUE]
Header ==
    [schema |-> "1.0", id |-> <<"a">>, version |-> <<"1">>, layer |-> "user",
     issuer |-> <<"a">>, key |-> Absent, issued |-> Issued(20, TRUE, TRUE),
     scope |-> Scope]
Scopes ==
    {[Scope EXCEPT !.tenant_ids = <<<<"a">>, <<"a">>>>],
     [Scope EXCEPT !.repository_ids = <<<<" ">>>>],
     [Scope EXCEPT !.environments = <<"local", "test", "local">>],
     [Scope EXCEPT !.environments = <<"here">>]}
BundleHeaders ==
    {Header, [Header EXCEPT !.layer = "builtin"], [Header EXCEPT !.schema = "2.0"],
     [Header EXCEPT !.issuer = <<"-">>], [Header EXCEPT !.key = LeftOut],
     [Header EXCEPT !.key = "long"], [Header EXCEPT !.issued = Issued(36, TRUE, TRUE)],
     [Header EXCEPT !.issued = Issued(19, TRUE, FALSE)],
     [Header EXCEPT !.issued = Issued(20, TRUE, FALSE)],
     [Header EXCEPT !.issued.shaped = FALSE, !.issued.capital = FALSE],
     [Header EXCEPT !.issued.printable = FALSE, !.issued.dateTime = FALSE]}
        \cup {[Header EXCEPT !.id = t] : t \in BundleTexts}
        \cup {[Header EXCEPT !.version = t] : t \in Versions}
        \cup {[Header EXCEPT !.scope = s] : s \in Scopes}

Unselective ==
    [operation_kinds |-> Absent, environments |-> Absent,
     canonical_path_prefixes |-> Absent]
Rule ==
    [id |-> <<"a">>, effect |-> "deny",
     selects |-> [Unselective EXCEPT !.operation_kinds = <<Name>>],
     categories |-> <<Name>>, rationale |-> "s", alternatives |-> <<>>]
Selecting(dimension, array) ==
    [Rule EXCEPT !.selects = [Unselective EXCEPT ![dimension] = array]]
BundleRules ==
    {Rule, [Rule EXCEPT !.id = <<"b">>], [Rule EXCEPT !.id = <<"-">>],
     [Rule EXCEPT !.effect = "allow"], [Rule EXCEPT !.selects = Unselective],
     [Rule EXCEPT !.categories = <<Name, Name>>], [Rule EXCEPT !.rationale = ""],
     [Rule EXCEPT !.rationale = "wide"],
     [Rule EXCEPT !.alternatives = <<"s", "s", "s">>]}
        \cup {Selecting("operation_kinds", a) : a \in
                {<<>>, <<Name, Name>>, <<<<"a">>>>, <<<<"a", ".">>>>,
                 <<<<"a", ".", "A">>>>, <<<<"a", ".", ".", "b">>>>,
                 <<<<"a", "_", "b">>>>, <<Name, <<"a", ".", "a">>>>}}
        \cup {Selecting("environments", a) : a \in
                {<<"local", "test", "local">>, <<"here">>}}
        \cup {Selecting("canonical_path_prefixes", a) : a \in {<<"long">>, <<"s", "">>, <<"s", "s">>}}

BundleRanks == (<<"a">> :> 1) @@ (<<"b">> :> 2)
=============================================================================
