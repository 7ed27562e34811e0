--------------------------- MODULE Decision_proofs ---------------------------
(***************************************************************************)
(* What is decided and what is said of it.  First the floor, for every set *)
(* of bundles, files and operations.  Then the answers and the records of  *)
(* the pipeline, for any envelopes, policies and number of calls: both     *)
(* properties are about entries of the log that are written once, and the  *)
(* invariant follows a call to its entry, stage by stage: what has been    *)
(* passed, whom that leaves to blame, and whose references the assessment  *)
(* carries.                                                                *)
(***************************************************************************)
EXTENDS MonotonicFloor, Assessment, FiniteSetTheorems, SequenceTheorems, TLAPS

-----------------------------------------------------------------------------
(***************************************************************************)
(* The policy engine.                                                      *)
(***************************************************************************)

\* The outcome of a policy is one of four.
Outcomes == {"NoRestriction", "Ask", "Indeterminate", "Deny"}

LEMMA OutcomeType ==
    ASSUME NEW policy, NEW facts
    PROVE  PolicyOutcome(policy, facts) \in Outcomes
BY DEF PolicyOutcome, Outcomes

\* The order of the outcomes that a larger policy can only climb.
Height == [NoRestriction |-> 0, Ask |-> 1, Indeterminate |-> 2, Deny |-> 3]

\* Adding rules to a policy never lowers its outcome (evaluate).
LEMMA EvaluateMonotone ==
    ASSUME NEW small, NEW large, NEW facts, small \subseteq large
    PROVE  Height[PolicyOutcome(small, facts)] <= Height[PolicyOutcome(large, facts)]
<1>1. /\ Matching(small, facts, "Deny") \subseteq Matching(large, facts, "Deny")
      /\ Matching(small, facts, "Ask") \subseteq Matching(large, facts, "Ask")
      /\ IndeterminateRules(small, facts) \subseteq IndeterminateRules(large, facts)
  BY DEF Matching, IndeterminateRules
<1>2. QED
  BY <1>1 DEF PolicyOutcome, Height

\* The effective policy grows with what is supplied (compose).
LEMMA ComposeMonotone ==
    ASSUME NEW small, NEW large, DOMAIN small \subseteq DOMAIN large,
           \A f \in DOMAIN small : large[f] = small[f]
    PROVE  Compose(small) \subseteq Compose(large)
BY DEF Compose

\* Facts that become known do not undo what was known.
LEMMA RuleSettled ==
    ASSUME NEW r, NEW o, NEW s, NEW t, s \subseteq t
    PROVE  /\ NoMatch(r, FactsOf(o, s)) => NoMatch(r, FactsOf(o, t))
           /\ Match(r, FactsOf(o, s)) => Match(r, FactsOf(o, t))
<1> DEFINE before == FactsOf(o, s)
           after == FactsOf(o, t)
<1>1. \A d \in Dimensions : before[d].known => after[d] = before[d]
  BY DEF FactsOf, Known, Unknown
<1>2. NoMatch(r, before) => NoMatch(r, after)
  BY <1>1 DEF NoMatch, Admits
<1>3. ASSUME Match(r, before) PROVE Match(r, after)
  <2>1. ~r.paths /\ \A d \in Dimensions : r.selects[d] = {} \/ before[d].known
    BY <1>3 DEF Match, Missing
  <2>2. Missing(r, after) = {}
    BY <2>1, <1>1 DEF Missing
  <2>3. ~NoMatch(r, after)
    BY <1>3, <2>1, <1>1 DEF Match, NoMatch, Admits
  <2>4. QED
    BY <2>2, <2>3 DEF Match
<1>4. QED
  BY <1>2, <1>3

\* An outcome that is not indeterminate survives every further fact.
LEMMA OutcomeSettled ==
    ASSUME NEW policy, NEW o, NEW s, NEW t, s \subseteq t,
           PolicyOutcome(policy, FactsOf(o, s)) # "Indeterminate"
    PROVE  PolicyOutcome(policy, FactsOf(o, t)) = PolicyOutcome(policy, FactsOf(o, s))
<1> DEFINE before == FactsOf(o, s)
           after == FactsOf(o, t)
<1>1. \A e \in policy : /\ NoMatch(e.rule, before) => NoMatch(e.rule, after)
                        /\ Match(e.rule, before) => Match(e.rule, after)
  BY RuleSettled
<1>2. CASE Matching(policy, before, "Deny") # {}
  <2>1. Matching(policy, after, "Deny") # {}
    BY <1>1, <1>2 DEF Matching
  <2>2. QED
    BY <1>2, <2>1 DEF PolicyOutcome
<1>3. CASE Matching(policy, before, "Deny") = {}
  <2>1. IndeterminateRules(policy, before) = {}
    BY <1>3 DEF PolicyOutcome
  <2>2. \A e \in policy : NoMatch(e.rule, before) \/ Match(e.rule, before)
    BY <2>1 DEF IndeterminateRules, Undecided, Match
  <2>3. \A e \in policy : /\ NoMatch(e.rule, after) <=> NoMatch(e.rule, before)
                          /\ Match(e.rule, after) <=> Match(e.rule, before)
    BY <1>1, <2>2 DEF Match
  <2>4. /\ Matching(policy, after, "Deny") = Matching(policy, before, "Deny")
        /\ Matching(policy, after, "Ask") = Matching(policy, before, "Ask")
    BY <2>3 DEF Matching
  <2>5. IndeterminateRules(policy, after) = {}
    BY <2>2, <2>3 DEF IndeterminateRules, Undecided, Match
  <2>6. QED
    BY <2>1, <2>4, <2>5 DEF PolicyOutcome
<1>4. QED
  BY <1>2, <1>3

-----------------------------------------------------------------------------
(***************************************************************************)
(* The decision core.                                                      *)
(***************************************************************************)

LEMMA BaselineType ==
    ASSUME NEW e PROVE Baseline(e) \in {"Allow", "Ask", "Deny"}
BY DEF Baseline

\* A higher policy outcome never makes the decision freer (decide).
LEMMA DecideMonotone ==
    ASSUME NEW e, NEW low \in Outcomes, NEW high \in Outcomes,
           Height[low] <= Height[high]
    PROVE  Restrictiveness[Decide(e, high)] >= Restrictiveness[Decide(e, low)]
<1>1. Baseline(e) \in {"Allow", "Ask", "Deny"}
  BY BaselineType
<1>2. QED
  BY <1>1 DEF Decide, Join, Strength, Restrictiveness, Outcomes, Height

\* Nor does the audit gate that follows.
LEMMA GateMonotone ==
    ASSUME NEW e, NEW h, NEW x, NEW y,
           Restrictiveness[x] >= Restrictiveness[y]
    PROVE  Restrictiveness[Gated(e, h, x)] >= Restrictiveness[Gated(e, h, y)]
BY DEF Gated, Restrictiveness

\* No operation that went through the interpreter is allowed: its execution
\* surface is always present (evidence_from_intent).
THEOREM PipelineNeverAllows ==
    ASSUME NEW kind, NEW effect, NEW resolved, NEW outcome \in Outcomes, NEW h
    PROVE  LET e == EvidenceFromIntent(kind, effect, resolved)
           IN  Gated(e, h, Decide(e, outcome)) # "Allow"
<1> DEFINE e == EvidenceFromIntent(kind, effect, resolved)
<1>1. e.surface = "Present"
  BY DEF EvidenceFromIntent
<1>2. Baseline(e) \in {"Ask", "Deny"}
  BY <1>1 DEF Baseline, AllowRow
<1>3. Decide(e, outcome) # "Allow"
  BY <1>2 DEF Decide, Join, Strength, Outcomes
<1>4. QED
  BY <1>3 DEF Gated

-----------------------------------------------------------------------------
(***************************************************************************)
(* The specification.                                                      *)
(***************************************************************************)

\* What is supplied from finitely many files is finitely many rules.
LEMMA ComposeFinite ==
    ASSUME NEW s, DOMAIN s \subseteq Files, s \in [DOMAIN s -> Catalogue]
    PROVE  IsFiniteSet(DOMAIN s) /\ IsFiniteSet(Compose(s))
<1>1. IsFiniteSet(DOMAIN s)
  BY FiniteAssumption, FS_Subset
<1>2. ASSUME NEW b \in Catalogue PROVE IsFiniteSet(EffectiveRulesOf(b))
  <2> DEFINE effective == [r \in b.rules |->
                             [identity |-> <<b.layer, b.id, r.id>>, rule |-> r]]
  <2>1. IsFiniteSet(b.rules)
    BY FiniteAssumption
  <2>2. effective \in Surjection(b.rules, EffectiveRulesOf(b))
    BY DEF EffectiveRulesOf, Surjection
  <2>3. QED
    BY <2>1, <2>2, FS_Surjection
<1>3. DEFINE ofFile == [f \in DOMAIN s |-> EffectiveRulesOf(s[f])]
             images == {EffectiveRulesOf(s[f]) : f \in DOMAIN s}
<1>4. IsFiniteSet(images)
  <2>1. ofFile \in Surjection(DOMAIN s, images)
    BY DEF Surjection
  <2>2. QED
    BY <1>1, <2>1, FS_Surjection
<1>5. \A rules \in images : IsFiniteSet(rules)
  BY <1>2
<1>6. IsFiniteSet(UNION images)
  BY <1>4, <1>5, FS_UNION
<1>7. QED
  BY <1>1, <1>6 DEF Compose

\* Withdrawing a bundle leaves something that composes.
LEMMA WithdrawComposes ==
    ASSUME TypeOK, NEW f, Withdraw(f)
    PROVE  Composes(supplied')
<1>1. /\ DOMAIN supplied' = DOMAIN supplied \ {f}
      /\ \A g \in DOMAIN supplied' : supplied'[g] = supplied[g]
  BY DEF Withdraw
<1>2. IsFiniteSet(DOMAIN supplied) /\ IsFiniteSet(Compose(supplied))
  BY ComposeFinite DEF TypeOK
<1>3. Compose(supplied') \subseteq Compose(supplied)
  BY <1>1, ComposeMonotone
<1>4. \A g, h \in DOMAIN supplied' :
         Identity(supplied'[g]) = Identity(supplied'[h]) => g = h
  BY <1>1 DEF TypeOK, Composes
<1>5. /\ Cardinality(DOMAIN supplied') <= Cardinality(DOMAIN supplied)
      /\ Cardinality(DOMAIN supplied') \in Nat
      /\ Cardinality(DOMAIN supplied) \in Nat
  BY <1>1, <1>2, FS_Subset, FS_CardinalityType
<1>6. /\ Cardinality(Compose(supplied')) <= Cardinality(Compose(supplied))
      /\ Cardinality(Compose(supplied')) \in Nat
      /\ Cardinality(Compose(supplied)) \in Nat
  BY <1>2, <1>3, FS_Subset, FS_CardinalityType
<1>7. /\ Cardinality(DOMAIN supplied') <= MaxBundles
      /\ Cardinality(Compose(supplied')) <= MaxEffectiveRules
  BY <1>5, <1>6, BoundsAssumption DEF TypeOK, Composes
<1>8. QED
  BY <1>4, <1>7 DEF Composes

\* The initial state supplies nothing, which composes.
LEMMA NothingComposes ==
    ASSUME NEW s, DOMAIN s = {} PROVE Composes(s)
<1>1. Compose(s) = {}
  BY DEF Compose
<1>2. Cardinality({}) = 0
  BY FS_EmptySet
<1>3. QED
  BY <1>1, <1>2, BoundsAssumption DEF Composes

\* The type invariant.  That what is left after a withdrawal composes within
\* the bounds of compose (ofw-policy/src/lib.rs) as what was there did is the
\* part of it that is not the guard of a step.
THEOREM FloorTypeCorrect == Spec => []TypeOK
<1>1. Init => TypeOK
  <2> SUFFICES ASSUME Init PROVE TypeOK
    OBVIOUS
  <2>1. DOMAIN supplied = {} /\ supplied \in [DOMAIN supplied -> Catalogue]
    BY DEF Init
  <2>2. Composes(supplied)
    BY <2>1, NothingComposes
  <2>3. QED
    BY <2>1, <2>2, OperationsAssumption DEF Init, TypeOK
<1>2. TypeOK /\ [Next]_vars => TypeOK'
  <2> SUFFICES ASSUME TypeOK, [Next]_vars PROVE TypeOK'
    OBVIOUS
  <2>1. ASSUME NEW f \in Files, NEW b \in Catalogue, Supply(f, b) PROVE TypeOK'
    <3>1. /\ DOMAIN supplied' = DOMAIN supplied \cup {f}
          /\ supplied' \in [DOMAIN supplied' -> Catalogue]
      BY <2>1 DEF Supply, TypeOK
    <3>2. QED
      BY <2>1, <3>1 DEF Supply, TypeOK
  <2>2. ASSUME NEW f \in Files, Withdraw(f) PROVE TypeOK'
    <3>1. /\ DOMAIN supplied' = DOMAIN supplied \ {f}
          /\ supplied' \in [DOMAIN supplied' -> Catalogue]
      BY <2>2 DEF Withdraw, TypeOK
    <3>2. Composes(supplied')
      BY <2>2, WithdrawComposes
    <3>3. QED
      BY <2>2, <3>1, <3>2 DEF Withdraw, TypeOK
  <2>3. ASSUME NEW d \in Dimensions, Establish(d) PROVE TypeOK'
    BY <2>3 DEF Establish, TypeOK
  <2>4. ASSUME NEW o \in Operations, Worsen(o) PROVE TypeOK'
    BY <2>4, OperationsAssumption DEF Worsen, TypeOK
  <2>5. CASE UNCHANGED vars
    BY <2>5 DEF vars, TypeOK
  <2>6. QED
    BY <2>1, <2>2, <2>3, <2>4, <2>5 DEF Next
<1>3. QED
  BY <1>1, <1>2, PTL DEF Spec

\* Every outcome the pipeline sees is one of the four.
LEMMA CurrentOutcome == Outcome \in Outcomes
BY OutcomeType DEF Outcome

\* Supplying one more bundle never makes the final decision freer: ADR 0002's
\* floor for every set of bundles, every operation, every state of the facts
\* and of the trail.
THEOREM FloorIsMonotonic == Spec => FloorHolds
<1> DEFINE Adds == \E f \in Files, b \in Catalogue : Supply(f, b)
<1>1. ASSUME Adds PROVE Restrictiveness[Final'] >= Restrictiveness[Final]
  <2>1. PICK f \in Files, b \in Catalogue : Supply(f, b)
    BY <1>1
  <2>2. /\ DOMAIN supplied \subseteq DOMAIN supplied'
        /\ \A g \in DOMAIN supplied : supplied'[g] = supplied[g]
    BY <2>1 DEF Supply
  <2>3. Policy \subseteq Policy'
    BY <2>2, ComposeMonotone DEF Policy
  <2>4. CurrentFacts' = CurrentFacts
    BY <2>1 DEF Supply, CurrentFacts
  <2>5. Height[Outcome] <= Height[Outcome']
    <3> DEFINE small == Policy
               large == Policy'
    <3> HIDE DEF small, large
    <3>1. Height[PolicyOutcome(small, CurrentFacts)]
            <= Height[PolicyOutcome(large, CurrentFacts)]
      BY <2>3, EvaluateMonotone DEF small, large
    <3>2. QED
      BY <3>1, <2>4 DEF small, large, Outcome
  <2>6. Outcome \in Outcomes /\ Outcome' \in Outcomes
    BY OutcomeType DEF Outcome
  <2>7. operation' = operation /\ health' = health
    BY <2>1 DEF Supply
  <2>8. Restrictiveness[Decided'] >= Restrictiveness[Decided]
    BY <2>5, <2>6, <2>7, DecideMonotone DEF Decided
  <2>9. QED
    BY <2>7, <2>8, GateMonotone DEF Final
<1>2. QED
  BY <1>1, PTL DEF Spec, FloorHolds

\* An outcome that is not indeterminate survives every fact established later.
THEOREM OutcomesSettle == Spec => SettledOutcome
<1> DEFINE Learns == \E d \in Dimensions : Establish(d)
<1>1. ASSUME Learns, Outcome # "Indeterminate" PROVE Outcome' = Outcome
  <2>1. /\ supplied' = supplied /\ operation' = operation
        /\ known \subseteq known'
    BY <1>1 DEF Establish
  <2>2. Policy' = Policy
    BY <2>1 DEF Policy
  <2>3. CurrentFacts' = FactsOf(operation, known')
    BY <2>1 DEF CurrentFacts
  <2>4. QED
    BY <1>1, <2>1, <2>2, <2>3, OutcomeSettled DEF Outcome, CurrentFacts
<1>2. QED
  BY <1>1, PTL DEF Spec, SettledOutcome

\* A denial attributed to the baseline outlives every withdrawal of policy.
THEOREM BaselineStands == Spec => BaselineBlameStands
<1> DEFINE Removes == \E f \in Files : Withdraw(f)
<1>1. ASSUME Removes, FinalReason = "BASELINE_DENIED"
      PROVE  FinalReason' = "BASELINE_DENIED"
  <2> DEFINE e == operation.evidence
  <2>1. PICK f \in Files : Withdraw(f)
    BY <1>1
  <2>2. operation' = operation /\ health' = health
    BY <2>1 DEF Withdraw
  <2>3. CurrentFacts' = CurrentFacts
    BY <2>1 DEF Withdraw, CurrentFacts
  <2>4. Policy' \subseteq Policy
    BY <2>1, ComposeMonotone DEF Withdraw, Policy
  <2>5. Height[Outcome'] <= Height[Outcome]
    <3> DEFINE small == Policy'
               large == Policy
    <3> HIDE DEF small, large
    <3>1. Height[PolicyOutcome(small, CurrentFacts)]
            <= Height[PolicyOutcome(large, CurrentFacts)]
      BY <2>4, EvaluateMonotone DEF small, large
    <3>2. QED
      BY <3>1, <2>3 DEF small, large, Outcome
  <2>6. Outcome \in Outcomes /\ Outcome' \in Outcomes
    BY OutcomeType DEF Outcome
  <2>7. Baseline(e) \in {"Allow", "Ask", "Deny"}
    BY BaselineType
  <2>8. /\ Provable(e) /\ Gate(e.effect, health) # "Indeterminate"
        /\ Decide(e, Outcome) = "Deny" /\ Outcome # "Deny"
    BY <1>1, <2>6, <2>7
    DEF FinalReason, Reason, DecidedReason, Decide, Join, Strength, Outcomes
  <2>9. Baseline(e) = "Deny" /\ Outcome \in {"NoRestriction", "Ask"}
    BY <2>6, <2>7, <2>8 DEF Decide, Join, Strength, Outcomes
  <2>10. Outcome' \in {"NoRestriction", "Ask"}
    BY <2>5, <2>6, <2>9 DEF Height, Outcomes
  <2>11. Decide(e, Outcome') = "Deny" /\ Outcome' # "Deny"
    BY <2>8, <2>9, <2>10 DEF Decide, Join, Strength
  <2>12. QED
    BY <2>2, <2>8, <2>11 DEF FinalReason, Reason, DecidedReason
<1>2. QED
  BY <1>1, PTL DEF Spec, BaselineBlameStands

-----------------------------------------------------------------------------
\* Worse evidence stays in the deny rows and out of the allow rows.
LEMMA BaselineMonotone ==
    ASSUME NEW e \in Evidence, NEW f \in Evidence,
           Worse(e, f), Provable(e), Provable(f)
    PROVE  Strength[Baseline(f)] >= Strength[Baseline(e)]
<1>1. ASSUME DenyRow(e) PROVE DenyRow(f)
  <2>1. CASE e.privilege \in {"Elevated", "SecurityControl"}
    BY <2>1 DEF Worse, AsBad, DenyRow
  <2>2. CASE e.containment = "CrossBoundary"
    BY <2>2 DEF Worse, AsBad, DenyRow
  <2>3. CASE e.publication = "Unsafe"
    BY <2>3 DEF Worse, AsBad, DenyRow
  <2>4. CASE e.effect \in {"Execute", "PermissionChange"}
    BY <2>4 DEF Worse, DenyRow
  <2>5. CASE WideDelete(e)
    BY <2>5 DEF Worse, AsBad, DenyRow, WideDelete
  <2>6. QED
    BY <1>1, <2>1, <2>2, <2>3, <2>4, <2>5 DEF DenyRow
<1>2. ASSUME AllowRow(f) PROVE AllowRow(e)
  <2>1. f.effect = e.effect
    BY DEF Worse
  <2>2. e.environment \in {"Local", "Development", "Test"}
    BY <1>2 DEF Worse, AsBad, AllowRow, Provable, Evidence, Environments
  <2>3. e.blast \in {"Single", "Bounded"}
    BY <1>2 DEF Worse, AsBad, AllowRow
  <2>4. e.surface = "None"
    BY <1>2 DEF Worse, AsBad, AllowRow
  <2>5. f.reversibility = "Reversible" => e.reversibility = "Reversible"
    BY DEF Worse, AsBad
  <2>6. f.containment = "RepositoryLocal" => e.containment = "RepositoryLocal"
    BY DEF Worse, AsBad
  <2>7. QED
    BY <1>2, <2>1, <2>2, <2>3, <2>4, <2>5, <2>6 DEF AllowRow
<1>3. QED
  BY <1>1, <1>2 DEF Baseline, Strength

\* The baseline is monotone in the consequences of the operation.
THEOREM BaselineIsMonotone == Spec => WorseNotFreer
<1> DEFINE Change == \E o \in Operations : Worsen(o)
<1>1. ASSUME TypeOK, Change,
             Provable(operation.evidence), Provable(operation'.evidence)
      PROVE  Strength[Baseline(operation'.evidence)]
                >= Strength[Baseline(operation.evidence)]
  <2>1. /\ operation.evidence \in Evidence /\ operation'.evidence \in Evidence
        /\ Worse(operation.evidence, operation'.evidence)
    BY <1>1, OperationsAssumption DEF TypeOK, Worsen, Operation
  <2>2. QED
    BY <1>1, <2>1, BaselineMonotone
<1>2. QED
  BY <1>1, FloorTypeCorrect, PTL DEF Spec, WorseNotFreer

\* An allow needs every condition of the allow row, a healthy trail unless it
\* is a read, and a policy none of whose rules could apply.
THEOREM AllowsAreEarned == Spec => []AllowIsEarned
<1>1. TypeOK => AllowIsEarned
  <2> SUFFICES ASSUME TypeOK, Final = "Allow"
               PROVE  LET e == operation.evidence
                      IN  /\ Provable(e)
                          /\ e.surface = "None" /\ e.privilege = "Standard"
                          /\ e.containment = "RepositoryLocal"
                          /\ e.publication # "Unsafe"
                          /\ \/ e.effect = "Read"
                             \/ e.effect \in {"Create", "Update"}
                                  /\ health = "Healthy"
                          /\ \A r \in Policy : NoMatch(r.rule, CurrentFacts)
    BY DEF AllowIsEarned
  <2> DEFINE e == operation.evidence
  <2>1. e \in Evidence
    BY DEF TypeOK, Operation
  <2>2. Outcome \in Outcomes /\ Baseline(e) \in {"Allow", "Ask", "Deny"}
    BY CurrentOutcome, BaselineType
  <2>3. Decide(e, Outcome) = "Allow"
    BY DEF Final, Gated, Decided
  <2>4. Provable(e) /\ Outcome = "NoRestriction" /\ Baseline(e) = "Allow"
    BY <2>2, <2>3 DEF Decide, Join, Strength, Outcomes
  <2>5. AllowRow(e) /\ ~DenyRow(e)
    BY <2>4 DEF Baseline
  <2>6. /\ e.privilege = "Standard" /\ e.containment = "RepositoryLocal"
        /\ e.publication # "Unsafe"
    BY <2>1, <2>5 DEF DenyRow, Evidence, Privileges, Containments
  <2>7. Gate(e.effect, health) # "Indeterminate"
    BY <2>4 DEF Final, Gated
  <2>8. ASSUME NEW r \in Policy PROVE NoMatch(r.rule, CurrentFacts)
    <3>1. r.rule.restriction \in Restrictions
      <4>1. PICK f \in DOMAIN supplied : r \in EffectiveRulesOf(supplied[f])
        BY DEF Policy, Compose
      <4>2. supplied[f] \in Bundles
        BY CatalogueAssumption DEF TypeOK
      <4>3. PICK q \in supplied[f].rules : r.rule = q
        BY <4>1 DEF EffectiveRulesOf
      <4>4. q \in Rules
        BY <4>2 DEF Bundles
      <4>5. QED
        BY <4>3, <4>4 DEF Rules
    <3>2. /\ Matching(Policy, CurrentFacts, "Deny") = {}
          /\ Matching(Policy, CurrentFacts, "Ask") = {}
          /\ IndeterminateRules(Policy, CurrentFacts) = {}
      BY <2>4 DEF Outcome, PolicyOutcome
    <3>3. ~Match(r.rule, CurrentFacts) /\ ~Undecided(r.rule, CurrentFacts)
      BY <3>1, <3>2 DEF Matching, IndeterminateRules, Restrictions
    <3>4. QED
      BY <3>3 DEF Match, Undecided
  <2>9. QED
    BY <2>4, <2>5, <2>6, <2>7, <2>8 DEF AllowRow, Gate
<1>2. QED
  BY <1>1, FloorTypeCorrect, PTL

\* On a trail that is not healthy everything but a read is indeterminate.
THEOREM UnrecordedStop == Spec => []UnrecordedMutationsStop
<1>1. UnrecordedMutationsStop
  BY DEF UnrecordedMutationsStop, Final, Gated, Gate, Decided, Decide
<1>2. QED
  BY <1>1, PTL

\* The rules an evaluation reports are the ones its outcome depends on.
LEMMA DeterminingDecides ==
    ASSUME NEW policy, NEW facts,
           PolicyOutcome(policy, facts) \in Restrictions
    PROVE  LET rules == Determining(policy, facts)
           IN  /\ PolicyOutcome(rules, facts) = PolicyOutcome(policy, facts)
               /\ PolicyOutcome(policy \ rules, facts)
                    # PolicyOutcome(policy, facts)
<1> DEFINE outcome == PolicyOutcome(policy, facts)
           rules == Determining(policy, facts)
<1>1. rules = Matching(policy, facts, outcome) /\ rules # {}
  BY DEF Determining, PolicyOutcome, Restrictions
<1>2. CASE outcome = "Deny"
  <2>1. /\ Matching(rules, facts, "Deny") = rules
        /\ Matching(policy \ rules, facts, "Deny") = {}
    BY <1>1, <1>2 DEF Matching
  <2>2. QED
    BY <1>1, <1>2, <2>1 DEF PolicyOutcome
<1>3. CASE outcome = "Ask"
  <2>1. /\ Matching(policy, facts, "Deny") = {}
        /\ IndeterminateRules(policy, facts) = {}
    BY <1>3 DEF PolicyOutcome
  <2>2. /\ Matching(rules, facts, "Deny") = {}
        /\ IndeterminateRules(rules, facts) = {}
        /\ Matching(rules, facts, "Ask") = rules
        /\ Matching(policy \ rules, facts, "Ask") = {}
    BY <1>1, <1>3, <2>1 DEF Matching, IndeterminateRules
  <2>3. QED
    BY <1>1, <1>3, <2>2 DEF PolicyOutcome
<1>4. QED
  BY <1>2, <1>3 DEF Restrictions

\* Attribution: the determining rules alone produce the outcome, and without
\* them it falls; an indeterminate outcome reports none.
THEOREM AttributionIsExact == Spec => []DeterminingRulesDecide
<1>1. DeterminingRulesDecide
  <2> DEFINE rules == Determining(Policy, CurrentFacts)
             undecided == IndeterminateRules(Policy, CurrentFacts)
  <2>1. Outcome \in Restrictions =>
           /\ PolicyOutcome(rules, CurrentFacts) = Outcome
           /\ PolicyOutcome(Policy \ rules, CurrentFacts) # Outcome
    BY DeterminingDecides DEF Outcome
  <2>2. ASSUME Outcome = "Indeterminate"
        PROVE  /\ rules = {}
               /\ PolicyOutcome(Policy \ undecided, CurrentFacts)
                    \in {"Ask", "NoRestriction"}
    <3>1. rules = {}
      BY <2>2 DEF Outcome, Determining, Restrictions
    <3>2. Matching(Policy, CurrentFacts, "Deny") = {}
      BY <2>2 DEF Outcome, PolicyOutcome
    <3>3. Matching(Policy \ undecided, CurrentFacts, "Deny") = {}
      BY <3>2 DEF Matching
    <3>4. IndeterminateRules(Policy \ undecided, CurrentFacts) = {}
      BY DEF IndeterminateRules
    <3>5. QED
      BY <3>1, <3>3, <3>4 DEF PolicyOutcome
  <2>3. Outcome = "NoRestriction" => rules = {} /\ undecided = {}
    BY DEF Outcome, Determining, Restrictions, PolicyOutcome
  <2>4. QED
    BY <2>1, <2>2, <2>3 DEF DeterminingRulesDecide
<1>2. QED
  BY <1>1, PTL

-----------------------------------------------------------------------------
(***************************************************************************)
(* The answers and the records.                                            *)
(***************************************************************************)

Stages == {"idle", "policy", "adapter", "intent", "resolve", "prove", "decide",
           "record"}

\* A call under assessment.
CallRecords ==
    [envelope : Envelopes, policy : Policies, place : Places \cup {"None"},
     health : Healths, refusal : ResolutionErrors \cup {"none"},
     context : Contexts \cup {Nothing}]

\* What AnswersBlameTheCulprit says of one entry.
Blamed(c, a) ==
    /\ a.reason \in Blames(Culprit(c))
    /\ a.tool = "None" <=> Culprit(c) \in {"policy", "adapter"}
    /\ a.kind = "None" <=> Culprit(c) \in {"policy", "adapter", "interpreter"}
    /\ a.kind # "None" => a.kind \in Literal(a.tool)
    /\ a.outcome # "Indeterminate" => Culprit(c) = "decision" /\ a.proven

\* The references and the tool of an assessment are a function of the bytes,
\* and of nothing when policy stopped the call.
Extracts(c) == Reading[c.envelope].adapter[1] = "Extracted"
Attributes(c, a) ==
    /\ ~c.policy.healthy => a.references = Unattributed
    /\ c.policy.healthy /\ ~Extracts(c) =>
          a.references = References(c.envelope, Nothing) /\ a.tool = "None"
    /\ c.policy.healthy /\ Extracts(c) =>
          /\ a.references = References(c.envelope, Reading[c.envelope].session)
          /\ a.tool = Reading[c.envelope].adapter[2]

Passed ==
    /\ stage \in {"policy", "adapter", "intent", "resolve", "prove", "decide"} =>
          call.refusal = "none"
    /\ stage \in {"adapter", "intent", "resolve", "prove", "decide"} =>
          call.policy.healthy
    /\ stage \in {"intent", "resolve", "prove", "decide"} => Extracts(call)
    /\ stage \in {"resolve", "prove", "decide"} =>
          Reads.kind \in Literal(Tool) /\ call.place # "None"

Assessed(c, a) == c \in CallRecords /\ Blamed(c, a) /\ Attributes(c, a)

Entered(entry) ==
    /\ Assessed(entry.call, entry.assessment)
    /\ entry.event # Nothing =>
          \E place, sink : entry.event = Event(entry.assessment, place, sink)

AssessInv ==
    /\ stage \in Stages
    /\ stage # "idle" => call \in CallRecords
    /\ Passed
    /\ stage = "record" => Assessed(call, assessment)
    /\ \E S : log \in Seq(S)
    /\ \A i \in DOMAIN log : Entered(log[i])
-----------------------------------------------------------------------------
\* The last part's reasons, whatever the evidence, the trail and policy are.
LEMMA DecisionBlames ==
    ASSUME NEW e, NEW sink, NEW policy, NEW facts
    PROVE  Reason(e, sink, PolicyOutcome(policy, facts)) \in DecisionReasons
<1> DEFINE outcome == PolicyOutcome(policy, facts)
           decided == Decide(e, outcome)
<1>1. outcome \in {"Deny", "Indeterminate", "Ask", "NoRestriction"}
  BY DEF PolicyOutcome
<1>2. Baseline(e) \in {"Deny", "Allow", "Ask"}
  BY DEF Baseline
<1>3. decided \in {"Allow", "Ask", "Deny", "Indeterminate"}
  <2> HIDE DEF outcome
  <2> QED
    BY <1>1, <1>2 DEF Decide, Join
<1>4. DecidedReason(decided, outcome) \in DecisionReasons
  <2> HIDE DEF decided, outcome
  <2> QED
    BY <1>3 DEF DecidedReason, DecisionReasons
<1> QED
  BY <1>4 DEF Reason, DecisionReasons

\* A call that was extracted is one of the two tools'.
LEMMA ExtractedTool ==
    ASSUME ReadingAssumption, NEW c \in CallRecords, Extracts(c)
    PROVE  Reading[c.envelope].adapter[2] \in Tools
<1>1. c.envelope \in Envelopes
  BY DEF CallRecords
<1>2. Reading[c.envelope].adapter \in {"Extracted"} \X Tools
  BY <1>1 DEF ReadingAssumption, Extracts
<1> QED
  BY <1>2

\* No literal is the name of something that is none.
LEMMA LiteralsAreNames ==
    ASSUME NEW tool
    PROVE  {"None", "NotLiteral", "Unsupported"} \cap Literal(tool) = {}
BY DEF Literal
-----------------------------------------------------------------------------
LEMMA PipelineInitInv == PipelineInit => AssessInv
<1> SUFFICES ASSUME PipelineInit PROVE AssessInv
  OBVIOUS
<1>1. log \in Seq({}) /\ DOMAIN log = {}
  BY DEF PipelineInit
<1> QED
  BY <1>1 DEF PipelineInit, AssessInv, Stages, Passed

\* The log stays as it is while a call is assessed.
LEMMA LogStands ==
    ASSUME AssessInv, log' = log
    PROVE  (\E S : log \in Seq(S))' /\ (\A i \in DOMAIN log : Entered(log[i]))'
BY DEF AssessInv, Entered, Assessed, Attributes, Extracts, Blamed

\* A call that is stopped is blamed on the part that stopped it.
LEMMA BeginInv ==
    ASSUME WorldAssumption, AssessInv,
           NEW e \in Envelopes, NEW policy \in Policies,
           NEW place \in Places \cup {"None"}, NEW sink \in Healths \ {"Unknown"},
           Begin(e, policy, place, sink)
    PROVE  AssessInv'
<1>1. call' \in CallRecords /\ call'.refusal = "none" /\ stage' = "policy"
  BY DEF Begin, CallRecords
<1>2. log' = log
  BY DEF Begin
<1> QED
  BY <1>1, <1>2, LogStands DEF AssessInv, Stages, Passed

LEMMA CheckPolicyInv ==
    ASSUME WorldAssumption, AssessInv, CheckPolicy PROVE AssessInv'
<1>1. /\ call \in CallRecords /\ call' = call /\ log' = log
      /\ call.refusal = "none" /\ stage = "policy"
  BY DEF CheckPolicy, AssessInv, Passed
<1>2. CASE call.policy.healthy
  BY <1>1, <1>2, LogStands DEF CheckPolicy, Pass, AssessInv, Stages, Passed
<1>3. CASE ~call.policy.healthy
  <2>1. call.policy.reason \in Faults
    BY <1>1, <1>3 DEF WorldAssumption, CallRecords
  <2>2. Culprit(call) = "policy"
    BY <1>3 DEF Culprit
  <2>3. /\ stage' = "record"
        /\ assessment' = [outcome |-> "Indeterminate", reason |-> call.policy.reason,
                          audit |-> "unknown", tool |-> "None", kind |-> "None",
                          proven |-> FALSE, policy |-> "unhealthy",
                          references |-> Unattributed]
    BY <1>3 DEF CheckPolicy, Conclude
  <2>4. Assessed(call, assessment')
    BY <1>1, <1>3, <2>1, <2>2, <2>3 DEF Assessed, Blamed, Blames, Attributes
  <2> QED
    BY <1>1, <2>3, <2>4, LogStands
    DEF AssessInv, Stages, Passed, Assessed, Blamed, Attributes, Extracts
<1> QED
  BY <1>2, <1>3

\* What a stage that stops the call leaves: the assessment is its last word.
LEMMA Stops ==
    ASSUME AssessInv, call' \in CallRecords, log' = log, stage' = "record",
           Assessed(call', assessment')
    PROVE  AssessInv'
BY LogStands DEF AssessInv, Stages, Passed, Assessed, Blamed, Attributes, Extracts

LEMMA AdaptInv ==
    ASSUME ReadingAssumption, AssessInv, Adapt PROVE AssessInv'
<1>1. /\ call \in CallRecords /\ call' = call /\ log' = log
      /\ call.refusal = "none" /\ call.policy.healthy /\ stage = "adapter"
  BY DEF Adapt, AssessInv, Passed
<1>2. CASE Extracts(call)
  BY <1>1, <1>2, LogStands
  DEF Adapt, Extracts, Reads, Pass, AssessInv, Stages, Passed
<1>3. CASE ~Extracts(call)
  <2>1. Culprit(call) = "adapter"
    BY <1>1, <1>3 DEF Culprit, Extracts
  <2>2. /\ stage' = "record"
        /\ assessment'.outcome = "Indeterminate"
        /\ assessment'.reason = AdapterReason(Reads.adapter)
        /\ assessment'.tool = "None" /\ assessment'.kind = "None"
        /\ assessment'.references = References(call.envelope, Nothing)
    BY <1>3 DEF Adapt, Extracts, Reads, Blocked, Conclude, Refused
  <2>3. AdapterReason(Reads.adapter) \in AdapterReasons
    BY DEF AdapterReason, AdapterReasons
  <2>4. Assessed(call', assessment')
    BY <1>1, <1>3, <2>1, <2>2, <2>3 DEF Assessed, Blamed, Blames, Attributes
  <2> QED
    BY <1>1, <2>2, <2>4, Stops
<1> QED
  BY <1>2, <1>3

\* A blocked assessment of a call whose tool is known.
LEMMA BlockedOwn ==
    ASSUME ReadingAssumption, NEW c \in CallRecords, c.policy.healthy, Extracts(c),
           NEW a, NEW kind,
           a.outcome = "Indeterminate", a.kind = kind,
           a.tool = Reading[c.envelope].adapter[2],
           a.references = References(c.envelope, Reading[c.envelope].session),
           a.reason \in Blames(Culprit(c)),
           Culprit(c) \in {"interpreter", "configuration", "resolver", "decision"},
           kind = "None" <=> Culprit(c) = "interpreter",
           kind # "None" => kind \in Literal(a.tool)
    PROVE  Assessed(c, a)
<1>1. a.tool # "None"
  BY ExtractedTool DEF Tools
<1> QED
  BY <1>1 DEF Assessed, Blamed, Attributes

LEMMA InterpretInv ==
    ASSUME ReadingAssumption, AssessInv, Interpret PROVE AssessInv'
<1>1. /\ call \in CallRecords /\ call' = call /\ log' = log
      /\ call.refusal = "none" /\ call.policy.healthy /\ stage = "intent"
      /\ Extracts(call)
  BY DEF Interpret, AssessInv, Passed
<1>2. {"None", "NotLiteral", "Unsupported"} \cap Literal(Tool) = {}
  BY LiteralsAreNames
<1>3. CASE Reads.kind \notin Literal(Tool)
  <2>1. Culprit(call) = "interpreter"
    BY <1>1, <1>3 DEF Culprit, Extracts, Reads, Tool
  <2>2. PICK reason \in InterpreterReasons : Blocked(reason, Tool, "None", Own)
    BY <1>3 DEF Interpret, InterpreterReasons, Narrows
  <2>3. /\ stage' = "record"
        /\ assessment'.outcome = "Indeterminate"
        /\ assessment'.reason = reason
        /\ assessment'.tool = Tool /\ assessment'.kind = "None"
        /\ assessment'.references = Own
    BY <2>2 DEF Blocked, Conclude
  <2>4. Assessed(call, assessment')
    BY <1>1, <2>1, <2>3, BlockedOwn DEF Blames, Own, Tool, Reads
  <2> QED
    BY <1>1, <2>3, <2>4, Stops
<1>4. CASE Reads.kind \in Literal(Tool) /\ call.place = "None"
  <2>1. Culprit(call) = "configuration"
    BY <1>1, <1>4 DEF Culprit, Extracts, Reads, Tool
  <2>2. Blocked("TRUSTED_CONFIGURATION_MISSING", Tool, Reads.kind, Own)
    BY <1>2, <1>4 DEF Interpret, Narrows
  <2>3. /\ stage' = "record"
        /\ assessment'.outcome = "Indeterminate"
        /\ assessment'.reason = "TRUSTED_CONFIGURATION_MISSING"
        /\ assessment'.tool = Tool /\ assessment'.kind = Reads.kind
        /\ assessment'.references = Own
    BY <2>2 DEF Blocked, Conclude
  <2>4. Assessed(call, assessment')
    BY <1>1, <1>2, <1>4, <2>1, <2>3, BlockedOwn DEF Blames, Own, Tool, Reads
  <2> QED
    BY <1>1, <2>3, <2>4, Stops
<1>5. CASE Reads.kind \in Literal(Tool) /\ call.place # "None"
  BY <1>1, <1>2, <1>5, LogStands
  DEF Interpret, Narrows, Pass, AssessInv, Stages, Passed, Extracts, Reads, Tool
<1> QED
  BY <1>3, <1>4, <1>5

\* From the resolver on: the kind is a literal and the call is placed.
Placed ==
    /\ call \in CallRecords /\ call.refusal = "none" /\ call.policy.healthy
    /\ Extracts(call) /\ Reads.kind \in Literal(Tool) /\ call.place # "None"

LEMMA ResolveFailsInv ==
    ASSUME ReadingAssumption, WorldAssumption, AssessInv,
           NEW error \in Refusals, ResolveFails(error)
    PROVE  AssessInv'
<1>1. Placed /\ log' = log
  BY DEF ResolveFails, AssessInv, Passed, Placed
<1>2. error \in ResolutionErrors /\ error # "none"
  BY DEF WorldAssumption, ResolutionErrors
<1>3. /\ call' \in CallRecords /\ call'.refusal = error
      /\ call'.envelope = call.envelope /\ call'.policy = call.policy
      /\ call'.place = call.place
  BY <1>1, <1>2 DEF ResolveFails, CallRecords, Placed
<1>4. Culprit(call') = "resolver" /\ Extracts(call')
  BY <1>1, <1>2, <1>3 DEF Culprit, Placed, Extracts, Reads, Tool
<1>5. /\ stage' = "record"
      /\ assessment'.outcome = "Indeterminate"
      /\ assessment'.reason = ResolutionReason(error)
      /\ assessment'.tool = Tool /\ assessment'.kind = Reads.kind
      /\ assessment'.references = Own
  BY DEF ResolveFails, Blocked, Conclude
<1>6. ResolutionReason(error) \in ResolverReasons
  BY DEF ResolutionReason, ResolverReasons
<1>7. Reads.kind # "None"
  BY <1>1, LiteralsAreNames DEF Placed
<1>8. Assessed(call', assessment')
  <2>1. call'.policy.healthy /\ Blames("resolver") = ResolverReasons
    BY <1>1, <1>3 DEF Placed, Blames
  <2>2. /\ assessment'.tool = Reading[call'.envelope].adapter[2]
        /\ assessment'.references =
             References(call'.envelope, Reading[call'.envelope].session)
        /\ Reads.kind \in Literal(assessment'.tool)
    BY <1>1, <1>3, <1>5 DEF Own, Reads, Tool, Placed
  <2> QED
    BY <1>3, <1>4, <1>5, <1>6, <1>7, <2>1, <2>2, BlockedOwn
<1> QED
  BY <1>1, <1>3, <1>5, <1>8, Stops

LEMMA ResolveToInv ==
    ASSUME AssessInv, NEW context \in Contexts, ResolveTo(context) PROVE AssessInv'
<1>1. Placed /\ log' = log /\ stage' = "prove"
  BY DEF ResolveTo, Pass, AssessInv, Passed, Placed
<1>2. /\ call' \in CallRecords /\ call'.refusal = call.refusal
      /\ call'.envelope = call.envelope /\ call'.policy = call.policy
      /\ call'.place = call.place
  BY <1>1 DEF ResolveTo, CallRecords, Placed
<1> QED
  BY <1>1, <1>2, LogStands
  DEF AssessInv, Stages, Passed, Placed, Extracts, Reads, Tool

LEMMA ProveInv ==
    ASSUME ReadingAssumption, AssessInv, Prove PROVE AssessInv'
<1>1. Placed /\ log' = log /\ call' = call
  BY DEF Prove, AssessInv, Passed, Placed
<1>2. CASE Provable(Established)
  BY <1>1, <1>2, LogStands
  DEF Prove, Pass, AssessInv, Stages, Passed, Placed, Extracts, Reads, Tool
<1>3. CASE ~Provable(Established)
  <2>1. /\ stage' = "record"
        /\ assessment'.outcome = "Indeterminate"
        /\ assessment'.reason = "OPERATION_NOT_PROVABLE"
        /\ assessment'.tool = Tool /\ assessment'.kind = Reads.kind
        /\ assessment'.references = Own
    BY <1>3 DEF Prove, Blocked, Conclude
  <2>2. Culprit(call) = "decision"
    BY <1>1 DEF Culprit, Placed, Extracts, Reads, Tool
  <2>3. Reads.kind # "None"
    BY <1>1, LiteralsAreNames DEF Placed
  <2>4. Assessed(call, assessment')
    BY <1>1, <2>1, <2>2, <2>3, BlockedOwn
    DEF Blames, DecisionReasons, Own, Reads, Tool, Placed
  <2> QED
    BY <1>1, <2>1, <2>4, Stops DEF Placed
<1> QED
  BY <1>2, <1>3

LEMMA DecideCallInv ==
    ASSUME ReadingAssumption, AssessInv, DecideCall PROVE AssessInv'
<1> DEFINE outcome == PolicyOutcome(call.policy.policy, PipelineFacts(Established))
<1>1. Placed /\ log' = log /\ call' = call
  BY DEF DecideCall, AssessInv, Passed, Placed
<1>2. /\ stage' = "record"
      /\ assessment'.reason = Reason(Established, call.health, outcome)
      /\ assessment'.tool = Tool /\ assessment'.kind = Reads.kind
      /\ assessment'.references = Own /\ assessment'.proven
  BY DEF DecideCall, Conclude
<1>3. Culprit(call) = "decision"
  BY <1>1 DEF Culprit, Placed, Extracts, Reads, Tool
<1>4. Reads.kind # "None" /\ Tool # "None"
  BY <1>1, LiteralsAreNames, ExtractedTool DEF Placed, Tools, Tool, Reads
<1>5. assessment'.reason \in DecisionReasons
  BY <1>2, DecisionBlames
<1>6. Assessed(call, assessment')
  BY <1>1, <1>2, <1>3, <1>4, <1>5
  DEF Assessed, Blamed, Blames, Attributes, Own, Reads, Tool, Placed
<1> QED
  BY <1>1, <1>2, <1>6, Stops DEF Placed

LEMMA RecordInv ==
    ASSUME AssessInv, NEW written \in BOOLEAN, Record(written) PROVE AssessInv'
<1> DEFINE entry == [call |-> call, assessment |-> assessment,
                     event |-> IF written
                                 THEN Event(assessment, Environment, call.health)
                                 ELSE Nothing]
<1>1. Assessed(call, assessment) /\ log' = Append(log, entry) /\ stage' = "idle"
  BY DEF Record, AssessInv
<1>2. Entered(entry)
  BY <1>1 DEF Entered
<1>3. PICK S : log \in Seq(S)
  BY DEF AssessInv
<1>4. log \in Seq(S \cup {entry}) /\ Len(log) \in Nat
  BY <1>3
<1> HIDE DEF entry
<1>5. /\ log' \in Seq(S \cup {entry})
      /\ DOMAIN log' = DOMAIN log \cup {Len(log) + 1}
      /\ \A i \in DOMAIN log : log'[i] = log[i]
      /\ log'[Len(log) + 1] = entry
  BY <1>1, <1>4
<1>6. \A i \in DOMAIN log' : Entered(log'[i])
  BY <1>2, <1>5 DEF AssessInv
<1>7. (\A i \in DOMAIN log : Entered(log[i]))'
  BY <1>6 DEF Entered, Assessed, Attributes, Extracts, Blamed
<1> QED
  BY <1>1, <1>5, <1>7 DEF AssessInv, Stages, Passed
-----------------------------------------------------------------------------
LEMMA PipelineKeepsInv ==
    ASSUME ReadingAssumption, WorldAssumption, AssessInv, [PipelineNext]_pipelineVars
    PROVE  AssessInv'
<1>1. CASE \E e \in Envelopes, policy \in Policies, place \in Places \cup {"None"},
              sink \in Healths \ {"Unknown"} : Begin(e, policy, place, sink)
  BY <1>1, BeginInv
<1>2. CASE CheckPolicy
  BY <1>2, CheckPolicyInv
<1>3. CASE Adapt
  BY <1>3, AdaptInv
<1>4. CASE Interpret
  BY <1>4, InterpretInv
<1>5. CASE \E error \in Refusals : ResolveFails(error)
  BY <1>5, ResolveFailsInv
<1>6. CASE \E context \in Contexts : ResolveTo(context)
  BY <1>6, ResolveToInv
<1>7. CASE Prove
  BY <1>7, ProveInv
<1>8. CASE DecideCall
  BY <1>8, DecideCallInv
<1>9. CASE \E written \in BOOLEAN : Record(written)
  BY <1>9, RecordInv
<1>10. CASE UNCHANGED pipelineVars
  BY <1>10, LogStands
  DEF pipelineVars, AssessInv, Passed, Extracts, Reads, Tool, Assessed, Blamed,
      Attributes
<1> QED
  BY <1>1, <1>2, <1>3, <1>4, <1>5, <1>6, <1>7, <1>8, <1>9, <1>10 DEF PipelineNext

LEMMA PipelineInvariant ==
    ASSUME ReadingAssumption, WorldAssumption
    PROVE  PipelineSpec => []AssessInv
<1>1. AssessInv /\ [PipelineNext]_pipelineVars => AssessInv'
  BY PipelineKeepsInv
<1> QED
  BY <1>1, PipelineInitInv, PTL DEF PipelineSpec

\* The fields records are compared by.
LEMMA ReferenceFields ==
    ASSUME NEW invocation, NEW session
    PROVE  /\ References(invocation, session).invocation = Digest[invocation]
           /\ References(invocation, session).correlation = Digest[invocation]
BY DEF References

LEMMA EventFields ==
    ASSUME NEW a, NEW place, NEW sink
    PROVE  /\ Event(a, place, sink).id = EventId(a.references.invocation)
           /\ Event(a, place, sink).correlation = a.references.correlation
           /\ Event(a, place, sink).session = a.references.session
           /\ Event(a, place, sink).tool =
                 IF a.tool = "None" THEN "unknown" ELSE a.tool
           /\ Event(a, place, sink).outcome = a.outcome
BY DEF Event

\* The answer to every call blames the first part that could not go on
\* (assess, pipeline.rs).
THEOREM CulpritIsBlamed ==
    ASSUME ReadingAssumption, WorldAssumption
    PROVE  PipelineSpec => []AnswersBlameTheCulprit
<1>1. AssessInv => AnswersBlameTheCulprit
  BY DEF AssessInv, Entered, Assessed, Blamed, AnswersBlameTheCulprit
<1> QED
  BY <1>1, PipelineInvariant, PTL

\* Two records have one identifier exactly when they are about the same bytes
\* (AuditReferences::derive, uuid_shaped).
THEOREM IdentifiersReconcile ==
    ASSUME ReadingAssumption, WorldAssumption, DigestAssumption
    PROVE  PipelineSpec => []RecordsReconcile
<1>1. AssessInv => RecordsReconcile
  <2> SUFFICES ASSUME AssessInv PROVE RecordsReconcile
    OBVIOUS
  <2>1. \A i \in Recorded :
          /\ log[i].call \in CallRecords
          /\ Attributes(log[i].call, log[i].assessment)
          /\ \E place, sink : log[i].event = Event(log[i].assessment, place, sink)
    BY DEF AssessInv, Entered, Assessed, Recorded
  <2>2. \A i \in Recorded :
          /\ log[i].event.id = EventId(log[i].assessment.references.invocation)
          /\ log[i].event.correlation = log[i].assessment.references.correlation
          /\ log[i].event.session = log[i].assessment.references.session
          /\ log[i].event.tool = IF log[i].assessment.tool = "None" THEN "unknown"
                                 ELSE log[i].assessment.tool
          /\ log[i].event.outcome = log[i].assessment.outcome
    <3>1. TAKE i \in Recorded
    <3>2. PICK place, sink : log[i].event = Event(log[i].assessment, place, sink)
      BY <2>1
    <3> QED
      BY <3>2, EventFields
  <2>3. \A i \in Recorded : log[i].call.envelope \in Envelopes
    BY <2>1 DEF CallRecords
  <2>4. \A i \in Attributed :
          /\ log[i].assessment.references.invocation = Digest[log[i].call.envelope]
          /\ log[i].assessment.references.correlation = Digest[log[i].call.envelope]
    <3>1. TAKE i \in Attributed
    <3>2. \E session : log[i].assessment.references =
                          References(log[i].call.envelope, session)
      BY <2>1 DEF Attributed, Attributes
    <3> QED
      BY <3>2, ReferenceFields
  <2>5. \A i, j \in Attributed : log[i].call.envelope = log[j].call.envelope =>
          /\ log[i].assessment.references = log[j].assessment.references
          /\ log[i].assessment.tool = log[j].assessment.tool
    BY <2>1 DEF Attributed, Attributes, Extracts
  <2>6. \A i \in Recorded \ Attributed :
          log[i].assessment.references.invocation = Digest[Nothing]
    <3>1. TAKE i \in Recorded \ Attributed
    <3>2. log[i].assessment.references = References(Nothing, Nothing)
      BY <2>1 DEF Attributed, Attributes, Unattributed
    <3> QED
      BY <3>2, ReferenceFields
  <2>7. \A i, j \in Attributed :
          log[i].event.id = log[j].event.id
             <=> log[i].call.envelope = log[j].call.envelope
    BY <2>2, <2>3, <2>4 DEF DigestAssumption, Attributed
  <2>8. \A i \in Recorded \ Attributed : \A j \in Attributed :
          log[i].event.id = log[j].event.id <=> log[j].call.envelope = Nothing
    BY <2>2, <2>3, <2>4, <2>6 DEF DigestAssumption, Attributed
  <2>9. \A i, j \in Attributed : log[i].event.id = log[j].event.id =>
          /\ log[i].event.correlation = log[j].event.correlation
          /\ log[i].event.session = log[j].event.session
          /\ log[i].event.tool = log[j].event.tool
    BY <2>2, <2>5, <2>7 DEF Attributed
  <2> QED
    BY <2>2, <2>7, <2>8, <2>9 DEF RecordsReconcile
<1> QED
  BY <1>1, PipelineInvariant, PTL
=============================================================================
