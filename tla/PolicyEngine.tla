---------------------------- MODULE PolicyEngine ----------------------------
(***************************************************************************)
(* The restriction-only policy engine (crates/ofw-policy/src/lib.rs):      *)
(* validation of a bundle, composition of bundles into one effective       *)
(* policy, and evaluation of that policy against the facts of an           *)
(* operation.                                                              *)
(*                                                                         *)
(* Data abstraction.  A selector is a set of values for each dimension; a  *)
(* scalar fact is the set that holds its one value, so that the two        *)
(* matching functions of the code are one operator.  Names, rationale,     *)
(* risk categories and alternatives of a rule play no part in evaluation   *)
(* and are left out; the limits on their sizes are part of what makes a    *)
(* file a valid bundle, which is an input here.  The order in which rules  *)
(* are listed carries no meaning and a policy is a set.                    *)
(***************************************************************************)
EXTENDS Naturals, FiniteSets

CONSTANTS
    Dimensions,         \* operation kind, effect, target kinds, environment, ...
    Values,             \* the values selectors and facts range over
    RuleIds,
    BundleIds,          \* bundle identifier and version
    MaxBundles,         \* MAX_BUNDLES
    MaxEffectiveRules   \* MAX_EFFECTIVE_RULES

ASSUME BoundsAssumption == {MaxBundles, MaxEffectiveRules} \subseteq Nat

\* The layers a supplied bundle may declare (PolicyLayer without Builtin).
Layers == {"Organization", "User", "Repository"}

Restrictions == {"Ask", "Deny"}

\* A rule; paths says that it has canonical path prefixes, which no fact can
\* resolve.  A rule that selects nothing is rejected.
Rules ==
    {r \in [id : RuleIds, restriction : Restrictions,
            selects : [Dimensions -> SUBSET Values], paths : BOOLEAN] :
        r.paths \/ \E d \in Dimensions : r.selects[d] # {}}

\* A validated bundle: no two rules of it have the same identifier.
Bundles ==
    {b \in [layer : Layers, id : BundleIds, rules : SUBSET Rules] :
        \A r, s \in b.rules : r.id = s.id => r = s}

\* Fact<T>.
Known(values) == [known |-> TRUE, values |-> values]
Unknown == [known |-> FALSE, values |-> {}]
Fact == {f \in [known : BOOLEAN, values : SUBSET Values] : f.known \/ f = Unknown}

Facts == [Dimensions -> Fact]
-----------------------------------------------------------------------------
\* Composition.  supplied is a function from where a bundle came from to the
\* bundle.

Identity(b) == <<b.layer, b.id>>

\* Every rule under the identity (layer, bundle, rule).
EffectiveRulesOf(b) ==
    {[identity |-> <<b.layer, b.id, r.id>>, rule |-> r] : r \in b.rules}

\* Overlay is the mutation in which a repository rule replaces the rules of
\* other layers that have its identifier.
Overlay(supplied) ==
    LET all == UNION {EffectiveRulesOf(supplied[f]) : f \in DOMAIN supplied}
    IN  {e \in all : e.rule.id \in {o.rule.id : o \in
                        {o \in all : o.identity[1] = "Repository"}}
                      => e.identity[1] = "Repository"}

Compose(supplied) ==
    UNION {EffectiveRulesOf(supplied[f]) : f \in DOMAIN supplied}

Composes(supplied) ==
    /\ \A f, g \in DOMAIN supplied :
          Identity(supplied[f]) = Identity(supplied[g]) => f = g
    /\ Cardinality(DOMAIN supplied) <= MaxBundles
    /\ Cardinality(Compose(supplied)) <= MaxEffectiveRules
-----------------------------------------------------------------------------
\* Evaluation.

\* The dimensions that exclude nothing as far as is known.  UnknownExcludes
\* is the mutation in which a fact that is not known fails to match.
UnknownExcludes(selected, fact) ==
    selected = {} \/ (fact.known /\ selected \cap fact.values # {})
Admits(selected, fact) ==
    selected = {} \/ ~fact.known \/ selected \cap fact.values # {}

\* The facts a rule would need and nobody has established.
Missing(r, facts) ==
    {d \in Dimensions : r.selects[d] # {} /\ ~facts[d].known}
        \cup (IF r.paths THEN {"canonical_path"} ELSE {})

\* A dimension that is known not to match decides the rule, whatever else is
\* missing.
NoMatch(r, facts) == \E d \in Dimensions : ~Admits(r.selects[d], facts[d])
Undecided(r, facts) == ~NoMatch(r, facts) /\ Missing(r, facts) # {}
Match(r, facts) == ~NoMatch(r, facts) /\ Missing(r, facts) = {}

Matching(policy, facts, restriction) ==
    {e \in policy : Match(e.rule, facts) /\ e.rule.restriction = restriction}

IndeterminateRules(policy, facts) ==
    {e \in policy : Undecided(e.rule, facts)}

\* AskFirst is the mutation that lets a matched ask hide an undecided rule.
AskFirst(policy, facts) ==
    IF Matching(policy, facts, "Deny") # {} THEN "Deny"
    ELSE IF Matching(policy, facts, "Ask") # {} THEN "Ask"
    ELSE IF IndeterminateRules(policy, facts) # {} THEN "Indeterminate"
    ELSE "NoRestriction"

PolicyOutcome(policy, facts) ==
    IF Matching(policy, facts, "Deny") # {} THEN "Deny"
    ELSE IF IndeterminateRules(policy, facts) # {} THEN "Indeterminate"
    ELSE IF Matching(policy, facts, "Ask") # {} THEN "Ask"
    ELSE "NoRestriction"

\* The rules reported as having determined the outcome; ListUndecided also
\* reports the ones that could not be decided.
ListUndecided(policy, facts) ==
    IF PolicyOutcome(policy, facts) = "Indeterminate"
      THEN IndeterminateRules(policy, facts)
      ELSE Matching(policy, facts, PolicyOutcome(policy, facts))

Determining(policy, facts) ==
    IF PolicyOutcome(policy, facts) \in Restrictions
      THEN Matching(policy, facts, PolicyOutcome(policy, facts))
      ELSE {}
=============================================================================
