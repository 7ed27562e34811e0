------------------------- MODULE HookProcess_proofs -------------------------
(***************************************************************************)
(* What the hook promises for every policy location, every envelope and    *)
(* every interleaving of its two threads with the operator's edits; first, *)
(* what an activation promises however many files, bundles and edits there *)
(* are, of the process and on its own (PolicySpec); last, that the JSON    *)
(* every answer is written as reads as what was put into it.               *)
(***************************************************************************)
EXTENDS HookProcess, JsonWriter, Cuttings_proofs

\* Where an untouched file can be while the activation is under way: at its
\* place in the directory; seen, once the listing has ended; read or still to
\* be read, once reading has begun.
Untouched == DOMAIN since.unchanged

Progress ==
    /\ DOMAIN since = {"always", "ever", "unchanged", "said", "edits"}
    /\ reader = "before" => unread = {} /\ DOMAIN loaded = {}
    /\ reader \in {"listing", "reading"} =>
          /\ located
          /\ \A f \in Untouched :
                f \in Names /\ directory[f] = since.unchanged[f]
    /\ reader = "listing" =>
          unread = {} /\ DOMAIN loaded = {} /\ Untouched \subseteq since.always
    /\ reader = "reading" =>
          \A f \in Untouched \ Links :
             f \in unread \/ f \in DOMAIN loaded
    /\ \A f \in Untouched \cap DOMAIN loaded : loaded[f] = since.unchanged[f]
    /\ activation.healthy /\ located =>
          /\ Untouched \ Links \subseteq DOMAIN loaded
          /\ activation.policy = Compose(loaded)

PolicyInv == PolicyTypeOK /\ Progress

-----------------------------------------------------------------------------
\* Facts of set theory about the records an activation can be.
LEMMA ActivationShapes ==
    /\ Pending.healthy = FALSE /\ Pending.reason = "PENDING"
    /\ \A p : Healthy(p).healthy = TRUE /\ Healthy(p).policy = p
                /\ Healthy(p) # Pending
    /\ \A r : Unhealthy(r).healthy = FALSE
    /\ \A r : r # "PENDING" => Unhealthy(r) # Pending
BY DEF Pending, Healthy, Unhealthy

LEMMA PolicyInitInv == PolicyInit => PolicyInv
<1> SUFFICES ASSUME PolicyInit PROVE PolicyInv
  OBVIOUS
<1>1. PICK names \in SUBSET Files : directory \in [names -> Contents]
  BY DEF PolicyInit
<1>2. Names \subseteq Files /\ \A f \in Names : directory[f] \in Contents
  BY <1>1 DEF Names
<1>3. DOMAIN Empty = {}
  BY DEF Empty
<1>4. PolicyTypeOK
  <2>1. /\ since.always = {} /\ since.ever = {} /\ since.edits = 0
        /\ DOMAIN since.unchanged = {}
    BY <1>3 DEF PolicyInit
  <2>2. /\ activation = Pending /\ activation.healthy = FALSE
        /\ reader = "before" /\ unread = {} /\ DOMAIN loaded = {}
        /\ located \in BOOLEAN
    BY <1>3, ActivationShapes DEF PolicyInit
  <2>3. 0 \in 0..MaxEdits
    BY LimitsAssumption
  <2>4. QED
    BY <1>2, <2>1, <2>2, <2>3 DEF PolicyTypeOK
<1>5. Progress
  BY <1>3, ActivationShapes DEF PolicyInit, Progress, Untouched
<1>6. QED
  BY <1>4, <1>5 DEF PolicyInv

\* An edit keeps what nobody touched where it was.
LEMMA EditInv ==
    ASSUME PolicyInv, NEW d, Edit(d), DOMAIN d \subseteq Files,
           \A f \in DOMAIN d : d[f] \in Contents
    PROVE  PolicyInv'
<1>1. /\ reader \in {"listing", "reading"}
      /\ since.edits < MaxEdits
      /\ directory' = d
      /\ located' = located /\ reader' = reader /\ unread' = unread
      /\ loaded' = loaded /\ activation' = activation
  BY DEF Edit
<1>2. /\ DOMAIN since' = {"always", "ever", "unchanged", "said", "edits"}
      /\ since'.always = since.always \cap DOMAIN d
      /\ since'.ever = IF reader = "listing" THEN since.ever \cup DOMAIN d
                                             ELSE {}
      /\ since'.edits = since.edits + 1
  BY DEF Edit
<1>3. /\ Untouched' = {f \in Untouched \cap DOMAIN d :
                          d[f] = since.unchanged[f]}
      /\ \A f \in Untouched' : since'.unchanged[f] = d[f]
  BY DEF Edit, Untouched
<1>4. PolicyTypeOK'
  <2>1. since.edits \in 0..MaxEdits
    BY DEF PolicyInv, PolicyTypeOK
  <2>2. since'.edits \in 0..MaxEdits
    BY <1>1, <1>2, <2>1, LimitsAssumption
  <2>3. QED
    BY <1>1, <1>2, <1>3, <2>2
    DEF PolicyInv, PolicyTypeOK, Names, Untouched
<1>5. Progress'
  BY <1>1, <1>2, <1>3 DEF PolicyInv, PolicyTypeOK, Progress, Names
<1>6. QED
  BY <1>4, <1>5 DEF PolicyInv

LEMMA OperateInv == PolicyInv /\ Operate => PolicyInv'
<1> SUFFICES ASSUME PolicyInv, Operate PROVE PolicyInv'
  OBVIOUS
<1>1. /\ Names \subseteq Files
      /\ \A f \in Names : directory[f] \in Contents
  BY DEF PolicyInv, PolicyTypeOK
<1>2. ASSUME NEW f \in Files, NEW content \in Contents, Put(f, content)
      PROVE  PolicyInv'
  <2> DEFINE d == [g \in Names \cup {f} |->
                     IF g = f THEN content ELSE directory[g]]
  <2>1. DOMAIN d \subseteq Files /\ \A g \in DOMAIN d : d[g] \in Contents
    BY <1>1
  <2>2. Edit(d)
    BY <1>2 DEF Put
  <2> HIDE DEF d
  <2>3. QED
    BY <2>1, <2>2, EditInv
<1>3. ASSUME NEW f \in Files, RemoveFile(f) PROVE PolicyInv'
  <2> DEFINE d == [g \in Names \ {f} |-> directory[g]]
  <2>1. DOMAIN d \subseteq Files /\ \A g \in DOMAIN d : d[g] \in Contents
    BY <1>1
  <2>2. Edit(d)
    BY <1>3 DEF RemoveFile
  <2> HIDE DEF d
  <2>3. QED
    BY <2>1, <2>2, EditInv
<1>4. QED
  BY <1>2, <1>3 DEF Operate

\* Whatever makes the activation unhealthy promises nothing more.
LEMMA FailInv ==
    ASSUME PolicyInv, NEW reason, Fail(reason), reason # "PENDING"
    PROVE  PolicyInv'
<1>1. /\ reader' = "over" /\ activation' = Unhealthy(reason)
      /\ located' = located /\ directory' = directory /\ unread' = unread
      /\ loaded' = loaded /\ since' = since
  BY DEF Fail
<1>2. activation'.healthy = FALSE /\ activation' # Pending
  BY <1>1, ActivationShapes
<1>3. Pending' = Pending
  BY DEF Pending
<1>4. PolicyTypeOK'
  BY <1>1, <1>2, <1>3 DEF PolicyInv, PolicyTypeOK, Names
<1>5. Progress'
  BY <1>1, <1>2 DEF PolicyInv, Progress, Untouched, Names
<1>6. QED
  BY <1>4, <1>5 DEF PolicyInv

LEMMA ListInv ==
    ASSUME PolicyInv, NEW seen \in SUBSET Files, List(seen)
    PROVE  PolicyInv'
<1>1. CASE Fail("POLICY_TOO_MANY_BUNDLES")
  BY <1>1, FailInv
<1>2. CASE reader' = "reading"
  <2>1. /\ unread' = seen \ Links /\ reader = "listing"
        /\ since.always \subseteq seen
        /\ since' = [since EXCEPT !.always = {}, !.ever = {}]
        /\ located' = located /\ directory' = directory /\ loaded' = loaded
        /\ activation' = activation
    BY <1>2 DEF List, Regular, Fail
  <2>2. /\ DOMAIN since' = DOMAIN since
        /\ since'.always = {} /\ since'.ever = {}
        /\ since'.unchanged = since.unchanged /\ since'.edits = since.edits
    BY <2>1 DEF PolicyInv, Progress
  <2>3. PolicyTypeOK'
    BY <1>2, <2>1, <2>2 DEF PolicyInv, PolicyTypeOK, Names, Pending
  <2>4. Progress'
    BY <1>2, <2>1, <2>2 DEF PolicyInv, Progress, Untouched, Names
  <2>5. QED
    BY <2>3, <2>4 DEF PolicyInv
<1>3. QED
  BY <1>1, <1>2 DEF List

LEMMA ReadInv ==
    ASSUME PolicyInv, NEW f, ReadBundle(f)
    PROVE  PolicyInv'
<1>1. /\ reader = "reading" /\ f \in unread /\ f \in Names
      /\ directory[f] # Damaged
      /\ unread' = unread \ {f}
      /\ located' = located /\ directory' = directory /\ reader' = reader
      /\ activation' = activation /\ since' = since
  BY DEF ReadBundle, IsNext
<1>2. /\ DOMAIN loaded' = DOMAIN loaded \cup {f}
      /\ loaded'[f] = directory[f]
      /\ \A g \in DOMAIN loaded : g # f => loaded'[g] = loaded[g]
  BY DEF ReadBundle
<1>3. directory[f] \in Catalogue /\ f \in Files \ Links
  BY <1>1 DEF PolicyInv, PolicyTypeOK, Contents
<1>4. activation.healthy = FALSE
  BY <1>1, ActivationShapes DEF PolicyInv, PolicyTypeOK
<1>5. PolicyTypeOK'
  BY <1>1, <1>2, <1>3, <1>4 DEF PolicyInv, PolicyTypeOK, Names, Pending
<1>6. Progress'
  BY <1>1, <1>2, <1>4 DEF PolicyInv, Progress, Untouched, Names
<1>7. QED
  BY <1>5, <1>6 DEF PolicyInv

LEMMA ActivateInv == PolicyInv /\ Activate => PolicyInv'
<1> SUFFICES ASSUME PolicyInv, Activate PROVE PolicyInv'
  OBVIOUS
<1>1. CASE NoneConfigured
  <2>1. /\ ~located /\ reader = "before" /\ reader' = "over"
        /\ located' = located /\ directory' = directory /\ unread' = unread
        /\ loaded' = loaded /\ since' = since
        /\ activation'.healthy = TRUE /\ activation' # Pending
    BY <1>1, ActivationShapes DEF NoneConfigured
  <2>2. PolicyTypeOK'
    BY <2>1 DEF PolicyInv, PolicyTypeOK, Names, Pending
  <2>3. Progress'
    BY <2>1 DEF PolicyInv, Progress, Untouched, Names
  <2>4. QED
    BY <2>2, <2>3 DEF PolicyInv
<1>2. CASE BeginListing
  <2>1. /\ located /\ reader = "before" /\ reader' = "listing"
        /\ located' = located /\ directory' = directory /\ unread' = unread
        /\ loaded' = loaded /\ activation' = activation
        /\ DOMAIN since' = {"always", "ever", "unchanged", "said", "edits"}
        /\ since'.always = Names /\ since'.ever = Names
        /\ since'.unchanged = directory /\ since'.edits = 0
    BY <1>2 DEF BeginListing
  <2>2. activation = Pending /\ activation.healthy = FALSE
    BY <2>1, ActivationShapes DEF PolicyInv, PolicyTypeOK
  <2>3. PolicyTypeOK'
    BY <2>1, <2>2, LimitsAssumption
    DEF PolicyInv, PolicyTypeOK, Names, Pending
  <2>4. Progress'
    BY <2>1, <2>2 DEF PolicyInv, Progress, Untouched, Names
  <2>5. QED
    BY <2>3, <2>4 DEF PolicyInv
<1>3. CASE ListFails
  BY <1>3, FailInv DEF ListFails
<1>4. ASSUME NEW seen \in SUBSET Files, List(seen) PROVE PolicyInv'
  BY <1>4, ListInv
<1>5. ASSUME NEW f \in unread, ReadBundle(f) \/ ReadInvalid(f) \/ ReadFails(f)
      PROVE  PolicyInv'
  BY <1>5, ReadInv, FailInv DEF ReadInvalid, ReadFails, RejectBundle
<1>6. CASE ComposeLoaded
  <2>1. CASE Fail("POLICY_ACTIVATION_UNHEALTHY")
    BY <2>1, FailInv
  <2>2. CASE Composes(loaded) /\ activation' = Healthy(Compose(loaded))
    <3>1. /\ reader = "reading" /\ reader' = "over" /\ unread = {}
          /\ located' = located /\ directory' = directory /\ unread' = unread
          /\ loaded' = loaded /\ since' = since
          /\ activation'.healthy = TRUE
          /\ activation'.policy = Compose(loaded)
          /\ activation' # Pending
      BY <1>6, <2>2, ActivationShapes DEF ComposeLoaded
    <3>2. PolicyTypeOK'
      BY <2>2, <3>1 DEF PolicyInv, PolicyTypeOK, Names, Pending
    <3>3. Progress'
      BY <3>1 DEF PolicyInv, Progress, Untouched, Names
    <3>4. QED
      BY <3>2, <3>3 DEF PolicyInv
  <2>3. QED
    BY <1>6, <2>1, <2>2 DEF ComposeLoaded
<1>7. QED
  BY <1>1, <1>2, <1>3, <1>4, <1>5, <1>6 DEF Activate

LEMMA PolicyStutter == PolicyInv /\ UNCHANGED policyVars => PolicyInv'
BY DEF PolicyInv, PolicyTypeOK, Progress, Untouched, Names, Pending, policyVars

LEMMA PolicyInvSuffices == PolicyInv => PolicyTypeOK /\ UntouchedBundlesLoaded
<1> SUFFICES ASSUME PolicyInv, activation.healthy, located,
                    NEW f \in DOMAIN since.unchanged \ Links
             PROVE  /\ f \in DOMAIN loaded /\ loaded[f] = since.unchanged[f]
                    /\ EffectiveRulesOf(since.unchanged[f])
                          \subseteq activation.policy
  BY DEF PolicyInv, UntouchedBundlesLoaded
<1>1. f \in DOMAIN loaded /\ loaded[f] = since.unchanged[f]
  BY DEF PolicyInv, Progress, Untouched
<1>2. activation.policy = Compose(loaded)
  BY DEF PolicyInv, Progress
<1>3. QED
  BY <1>1, <1>2 DEF Compose

-----------------------------------------------------------------------------
\* An activation only ever reads regular files of the location, and a healthy
\* one composes within the bounds.
THEOREM ActivationTypeCorrect == PolicySpec => []PolicyTypeOK
<1>1. PolicyInv /\ [Activate \/ Operate]_policyVars => PolicyInv'
  BY ActivateInv, OperateInv, PolicyStutter
<1>2. QED
  BY PolicyInitInv, <1>1, PolicyInvSuffices, PTL DEF PolicySpec

\* A healthy activation dropped no bundle that nobody touched meanwhile.
THEOREM NoUntouchedBundleDropped == PolicySpec => []UntouchedBundlesLoaded
<1>1. PolicyInv /\ [Activate \/ Operate]_policyVars => PolicyInv'
  BY ActivateInv, OperateInv, PolicyStutter
<1>2. QED
  BY PolicyInitInv, <1>1, PolicyInvSuffices, PTL DEF PolicySpec
-----------------------------------------------------------------------------
\* One edit is seen whole or not at all.

\* What an operator may leave at the location, and two such that differ in f.
Locations == UNION {[names -> Contents] : names \in SUBSET Files}
DifferIn(old, new, f) ==
    /\ DOMAIN old \ {f} = DOMAIN new \ {f}
    /\ \A g \in DOMAIN old \ {f} : old[g] = new[g]

\* What was read, and what can still be read, are the bundles of d.
ReadsAs(d) ==
    /\ unread \cup DOMAIN loaded = DOMAIN d \ Links
    /\ \A f \in DOMAIN loaded : loaded[f] = d[f]
    /\ \A f \in unread \cap Names : directory[f] = d[f]
    /\ Says(d) \in since.said

\* The one edit came while the location was listed.
Listed(old, f) ==
    /\ DifferIn(old, directory, f)
    /\ since.always = DOMAIN old \cap Names
    /\ since.ever = DOMAIN old \cup Names
    /\ Says(old) \in since.said

\* Up to an edit the reading is of the location as it is; after it, of the
\* location before the edit or behind it.
Atomic ==
    /\ directory \in Locations
    /\ unread \cap DOMAIN loaded = {}
    /\ reader \in {"listing", "reading"} => Says(directory) \in since.said
    /\ reader = "listing" /\ since.edits = 0 =>
          since.always = Names /\ since.ever = Names
    /\ reader = "listing" /\ since.edits = 1 =>
          \E old \in Locations, f \in Files : Listed(old, f)
    /\ reader = "reading" /\ since.edits = 0 => ReadsAs(directory)
    /\ reader = "reading" /\ since.edits = 1 =>
          \E d \in Locations : ReadsAs(d)
    /\ SingleEditIsAtomic

\* What a location says, and what it can be, does not depend on the state.
LEMMA SaysFixed == Locations' = Locations /\ \A d : Says(d)' = Says(d)
BY DEF Locations, Contents, Says, Whole, Compose, EffectiveRulesOf

LEMMA AtomicInit == PolicyInit => Atomic
<1> SUFFICES ASSUME PolicyInit PROVE Atomic
  OBVIOUS
<1>1. directory \in Locations /\ unread = {} /\ reader = "before"
  BY DEF PolicyInit, Locations
<1>2. activation.healthy = FALSE
  BY ActivationShapes DEF PolicyInit
<1>3. SingleEditIsAtomic
  BY <1>2 DEF SingleEditIsAtomic
<1>4. QED
  BY <1>1, <1>3 DEF Atomic

LEMMA EditsAtomic ==
    ASSUME PolicyInv, Atomic, NEW d \in Locations, NEW f \in Files,
           DifferIn(directory, d, f), Edit(d)
    PROVE  Atomic'
<1>1. /\ reader \in {"listing", "reading"}
      /\ directory' = d
      /\ located' = located /\ reader' = reader /\ unread' = unread
      /\ loaded' = loaded /\ activation' = activation
  BY DEF Edit
<1>2. /\ since'.always = since.always \cap DOMAIN d
      /\ reader = "listing" => since'.ever = since.ever \cup DOMAIN d
      /\ since'.said = since.said \cup {Says(d)}
      /\ since'.edits = since.edits + 1
  BY DEF Edit
<1>3. since.edits \in Nat
  BY LimitsAssumption DEF PolicyInv, PolicyTypeOK
<1>4. PICK old \in Locations : old = directory
  BY DEF Atomic
<1>5. Says(old) \in since'.said /\ Says(d) \in since'.said
  BY <1>1, <1>2, <1>4 DEF Atomic
<1>6. activation'.healthy = FALSE
  BY <1>1, ActivationShapes DEF PolicyInv, PolicyTypeOK
<1>7. SingleEditIsAtomic'
  BY <1>6 DEF SingleEditIsAtomic
<1>8. since'.edits # 0 /\ (since'.edits = 1 => since.edits = 0)
  BY <1>2, <1>3
<1>9. ASSUME reader = "listing", since.edits = 0
      PROVE  Listed(old, f)'
  <2>1. since.always = Names /\ since.ever = Names
    BY <1>9 DEF Atomic
  <2>2. /\ since'.always = DOMAIN old \cap DOMAIN d
        /\ since'.ever = DOMAIN old \cup DOMAIN d
    BY <1>2, <1>4, <1>9, <2>1 DEF Names
  <2>3. QED
    BY <1>1, <1>4, <1>5, <2>2, SaysFixed DEF Listed, Names, DifferIn
<1>10. ASSUME reader = "reading", since.edits = 0
       PROVE  \E e \in Locations : ReadsAs(e)'
  <2>1. ReadsAs(directory)
    BY <1>10 DEF Atomic
  <2>2. CASE f \in unread /\ f \in DOMAIN d
    <3>1. DOMAIN d = DOMAIN old /\ f \notin DOMAIN loaded
      BY <1>4, <2>1, <2>2 DEF DifferIn, ReadsAs, Atomic
    <3>2. ReadsAs(d)'
      BY <1>1, <1>4, <1>5, <2>1, <3>1, SaysFixed DEF ReadsAs, DifferIn, Names
    <3>3. QED
      BY <3>2
  <2>3. CASE f \notin unread \/ f \notin DOMAIN d
    <3>1. ReadsAs(old)'
      BY <1>1, <1>4, <1>5, <2>1, <2>3, SaysFixed DEF ReadsAs, DifferIn, Names
    <3>2. QED
      BY <3>1
  <2>4. QED
    BY <2>2, <2>3
<1>11. QED
  BY <1>1, <1>5, <1>7, <1>8, <1>9, <1>10, SaysFixed DEF Atomic

LEMMA OperateAtomic == PolicyInv /\ Atomic /\ Operate => Atomic'
<1> SUFFICES ASSUME PolicyInv, Atomic, Operate PROVE Atomic'
  OBVIOUS
<1>1. Names \subseteq Files /\ \A f \in Names : directory[f] \in Contents
  BY DEF PolicyInv, PolicyTypeOK
<1>2. ASSUME NEW f \in Files, NEW content \in Contents, Put(f, content)
      PROVE  Atomic'
  <2> DEFINE d == [g \in Names \cup {f} |->
                     IF g = f THEN content ELSE directory[g]]
  <2>1. d \in [Names \cup {f} -> Contents] /\ Names \cup {f} \in SUBSET Files
    BY <1>1
  <2>2. d \in Locations
    BY <2>1 DEF Locations
  <2>3. DifferIn(directory, d, f)
    BY DEF DifferIn, Names
  <2>4. Edit(d)
    BY <1>2 DEF Put
  <2> HIDE DEF d
  <2>5. QED
    BY <2>2, <2>3, <2>4, EditsAtomic
<1>3. ASSUME NEW f \in Files, RemoveFile(f) PROVE Atomic'
  <2> DEFINE d == [g \in Names \ {f} |-> directory[g]]
  <2>1. d \in [Names \ {f} -> Contents] /\ Names \ {f} \in SUBSET Files
    BY <1>1
  <2>2. d \in Locations
    BY <2>1 DEF Locations
  <2>3. DifferIn(directory, d, f)
    BY DEF DifferIn, Names
  <2>4. Edit(d)
    BY <1>3 DEF RemoveFile
  <2> HIDE DEF d
  <2>5. QED
    BY <2>2, <2>3, <2>4, EditsAtomic
<1>4. QED
  BY <1>2, <1>3 DEF Operate

\* A fault leaves no snapshot to compare.
LEMMA FailAtomic ==
    ASSUME PolicyInv, Atomic, NEW reason, Fail(reason)
    PROVE  Atomic'
<1>1. /\ reader' = "over" /\ activation'.healthy = FALSE
      /\ directory' = directory /\ unread' = unread /\ loaded' = loaded
  BY ActivationShapes DEF Fail
<1>2. SingleEditIsAtomic'
  BY <1>1 DEF SingleEditIsAtomic
<1>3. QED
  BY <1>1, <1>2, SaysFixed DEF Atomic

\* A listing sees the names of the location before the edit, or behind it.
LEMMA ListAtomic ==
    ASSUME PolicyInv, Atomic, NEW seen \in SUBSET Files, List(seen)
    PROVE  Atomic'
<1>1. CASE Fail("POLICY_TOO_MANY_BUNDLES")
  BY <1>1, FailAtomic
<1>2. CASE reader' = "reading"
  <2>1. /\ unread' = seen \ Links /\ reader = "listing"
        /\ since.always \subseteq seen /\ seen \subseteq since.ever
        /\ since' = [since EXCEPT !.always = {}, !.ever = {}]
        /\ located' = located /\ directory' = directory /\ loaded' = loaded
        /\ activation' = activation
    BY <1>2 DEF List, Regular, Fail
  <2>2. since'.said = since.said /\ since'.edits = since.edits
    BY <2>1 DEF PolicyInv, Progress
  <2>3. DOMAIN loaded = {} /\ Says(directory) \in since.said
    BY <2>1 DEF PolicyInv, Progress, Atomic
  <2>4. activation.healthy = FALSE
    BY <2>1, ActivationShapes DEF PolicyInv, PolicyTypeOK
  <2>5. SingleEditIsAtomic'
    BY <2>1, <2>4 DEF SingleEditIsAtomic
  <2>6. ASSUME since.edits = 0 PROVE ReadsAs(directory)'
    <3>1. seen = Names
      BY <2>1, <2>6 DEF Atomic
    <3>2. QED
      BY <2>1, <2>2, <2>3, <3>1, SaysFixed DEF ReadsAs, Names
  <2>7. ASSUME since.edits = 1 PROVE \E d \in Locations : ReadsAs(d)'
    <3>1. PICK old \in Locations, f \in Files : Listed(old, f)
      BY <2>1, <2>7 DEF Atomic
    <3>2. PICK now \in Locations : now = directory
      BY DEF Atomic
    <3>3. CASE f \in seen <=> f \in Names
      <4>1. seen = Names
        BY <2>1, <3>1, <3>3 DEF Listed, DifferIn, Names
      <4>2. ReadsAs(now)'
        BY <2>1, <2>2, <2>3, <3>2, <4>1, SaysFixed DEF ReadsAs, Names
      <4>3. QED
        BY <4>2
    <3>4. CASE ~(f \in seen <=> f \in Names)
      <4>1. seen = DOMAIN old /\ ~(f \in seen /\ f \in Names)
        BY <2>1, <3>1, <3>4 DEF Listed, DifferIn, Names
      <4>2. ReadsAs(old)'
        BY <2>1, <2>2, <2>3, <3>1, <4>1, SaysFixed
        DEF ReadsAs, Names, Listed, DifferIn
      <4>3. QED
        BY <4>2
    <3>5. QED
      BY <3>3, <3>4
  <2>8. QED
    BY <1>2, <2>1, <2>2, <2>3, <2>5, <2>6, <2>7, SaysFixed DEF Atomic
<1>3. QED
  BY <1>1, <1>2 DEF List

LEMMA ReadAtomic ==
    ASSUME PolicyInv, Atomic, NEW f, ReadBundle(f)
    PROVE  Atomic'
<1>1. /\ reader = "reading" /\ f \in unread /\ f \in Names
      /\ unread' = unread \ {f}
      /\ located' = located /\ directory' = directory /\ reader' = reader
      /\ activation' = activation /\ since' = since
  BY DEF ReadBundle, IsNext
<1>2. /\ DOMAIN loaded' = DOMAIN loaded \cup {f}
      /\ loaded'[f] = directory[f]
      /\ \A g \in DOMAIN loaded : g # f => loaded'[g] = loaded[g]
  BY DEF ReadBundle
<1>3. ASSUME NEW d, ReadsAs(d) PROVE ReadsAs(d)'
  BY <1>1, <1>2, <1>3, SaysFixed DEF ReadsAs, Names
<1>4. PICK now : now = directory
  OBVIOUS
<1>5. ReadsAs(directory) => ReadsAs(directory)'
  <2>1. ReadsAs(directory) => ReadsAs(now)'
    BY <1>3, <1>4
  <2>2. QED
    BY <1>1, <1>4, <2>1, SaysFixed DEF ReadsAs, Names
<1>6. SingleEditIsAtomic'
  BY <1>1 DEF Atomic, SingleEditIsAtomic
<1>7. QED
  BY <1>1, <1>2, <1>3, <1>5, <1>6, SaysFixed DEF Atomic

\* What is composed when nothing is left to read.
LEMMA ReadIsSaid ==
    ASSUME PolicyInv, NEW d, ReadsAs(d), unread = {}
    PROVE  Compose(loaded) = Says(d)
<1>1. DOMAIN loaded = DOMAIN d \ Links
  BY DEF ReadsAs
<1>2. \A f \in DOMAIN loaded : d[f] = loaded[f] /\ d[f] # Damaged
  BY DamagedAssumption DEF ReadsAs, PolicyInv, PolicyTypeOK
<1>3. Whole(d) = DOMAIN loaded
  BY <1>1, <1>2 DEF Whole
<1>4. QED
  BY <1>2, <1>3 DEF Says, Compose

LEMMA ActivateAtomic == PolicyInv /\ Atomic /\ Activate => Atomic'
<1> SUFFICES ASSUME PolicyInv, Atomic, Activate PROVE Atomic'
  OBVIOUS
<1>1. CASE NoneConfigured
  <2>1. /\ ~located /\ reader' = "over" /\ located' = located
        /\ directory' = directory /\ unread' = unread /\ loaded' = loaded
    BY <1>1 DEF NoneConfigured
  <2>2. SingleEditIsAtomic'
    BY <2>1 DEF SingleEditIsAtomic
  <2>3. QED
    BY <2>1, <2>2, SaysFixed DEF Atomic
<1>2. CASE BeginListing
  <2>1. /\ reader = "before" /\ reader' = "listing"
        /\ directory' = directory /\ unread' = unread
        /\ loaded' = loaded /\ activation' = activation
        /\ since'.always = Names /\ since'.ever = Names
        /\ since'.said = {Says(directory)} /\ since'.edits = 0
    BY <1>2 DEF BeginListing
  <2>2. activation.healthy = FALSE
    BY <2>1, ActivationShapes DEF PolicyInv, PolicyTypeOK
  <2>3. SingleEditIsAtomic'
    BY <2>1, <2>2 DEF SingleEditIsAtomic
  <2>4. Says(directory)' = Says(directory) /\ Names' = Names
    BY <2>1 DEF Says, Whole, Compose, Names
  <2>5. QED
    BY <2>1, <2>3, <2>4, SaysFixed DEF Atomic
<1>3. CASE ListFails
  BY <1>3, FailAtomic DEF ListFails
<1>4. ASSUME NEW seen \in SUBSET Files, List(seen) PROVE Atomic'
  BY <1>4, ListAtomic
<1>5. ASSUME NEW f \in unread, ReadBundle(f) \/ ReadInvalid(f) \/ ReadFails(f)
      PROVE  Atomic'
  BY <1>5, ReadAtomic, FailAtomic DEF ReadInvalid, ReadFails, RejectBundle
<1>6. CASE ComposeLoaded
  <2>1. CASE Fail("POLICY_ACTIVATION_UNHEALTHY")
    BY <2>1, FailAtomic
  <2>2. CASE activation' = Healthy(Compose(loaded))
    <3>1. /\ reader = "reading" /\ reader' = "over" /\ unread = {}
          /\ located' = located /\ directory' = directory /\ unread' = unread
          /\ loaded' = loaded /\ since' = since
          /\ activation'.policy = Compose(loaded)
      BY <1>6, <2>2, ActivationShapes DEF ComposeLoaded, Fail, Healthy, Unhealthy
    <3>2. since.edits \in Nat
      BY LimitsAssumption DEF PolicyInv, PolicyTypeOK
    <3>3. ASSUME since.edits <= 1 PROVE \E d : ReadsAs(d)
      <4>1. since.edits = 0 \/ since.edits = 1
        BY <3>2, <3>3
      <4>2. QED
        BY <3>1, <4>1 DEF Atomic
    <3>4. since.edits <= 1 => Compose(loaded) \in since.said
      BY <3>1, <3>3, ReadIsSaid DEF ReadsAs
    <3>5. SingleEditIsAtomic'
      BY <3>1, <3>4 DEF SingleEditIsAtomic
    <3>6. QED
      BY <3>1, <3>5, SaysFixed DEF Atomic
  <2>3. QED
    BY <1>6, <2>1, <2>2 DEF ComposeLoaded
<1>7. QED
  BY <1>1, <1>2, <1>3, <1>4, <1>5, <1>6 DEF Activate

LEMMA AtomicStutter == Atomic /\ UNCHANGED policyVars => Atomic'
<1> SUFFICES ASSUME Atomic, UNCHANGED policyVars PROVE Atomic'
  OBVIOUS
<1>1. /\ located' = located /\ directory' = directory /\ reader' = reader
      /\ unread' = unread /\ loaded' = loaded /\ activation' = activation
      /\ since' = since /\ Names' = Names
  BY DEF policyVars, Names
<1>2. Says(directory)' = Says(directory)
  BY <1>1 DEF Says, Whole, Compose
<1>3. \A d : ReadsAs(d)' = ReadsAs(d)
  BY <1>1, SaysFixed DEF ReadsAs
<1>4. ReadsAs(directory)' = ReadsAs(directory)
  BY <1>1, <1>2 DEF ReadsAs
<1>5. \A old, f : Listed(old, f)' = Listed(old, f)
  BY <1>1, SaysFixed DEF Listed, DifferIn
<1>6. SingleEditIsAtomic'
  BY <1>1 DEF Atomic, SingleEditIsAtomic
<1>7. QED
  BY <1>1, <1>2, <1>3, <1>4, <1>5, <1>6, SaysFixed DEF Atomic

\* One edit in the course of an activation is seen entirely or not at all,
\* whatever it is and wherever it falls.
THEOREM EditsAreAtomic == PolicySpec => []SingleEditIsAtomic
<1>1. PolicyInv /\ Atomic /\ [Activate \/ Operate]_policyVars
        => (PolicyInv /\ Atomic)'
  BY ActivateInv, OperateInv, PolicyStutter, ActivateAtomic, OperateAtomic,
     AtomicStutter
<1>2. Atomic => SingleEditIsAtomic
  BY DEF Atomic
<1>3. QED
  BY PolicyInitInv, AtomicInit, <1>1, <1>2, PTL DEF PolicySpec
-----------------------------------------------------------------------------
\* The process.

Outcomes == {"Allow", "Ask", "Deny", "Indeterminate"}

\* An allow names an operation that was proven under a policy that was loaded
\* and does not touch it.
AllowState ==
    assessment.outcome = "Allow" =>
        /\ activation.healthy
        /\ input \in Operations
        /\ PolicyOutcome(activation.policy, PipelineFacts(input))
              = "NoRestriction"
        /\ input.effect = "Read" \/ health = "Healthy"

Late == {"open", "read", "assess", "record", "answer", "allow", "exit_ok"}

\* The answer is an assessment, about to be given or given in part.
AtAnswer ==
    /\ main \in {"answer", "allow", "exit_ok"} \/ stdout # "empty"
    /\ mode = "hook" \/ assessment.reason \notin InputReasons

ProcessInv ==
    /\ mode \in {"hook", "assess"}
    /\ main \in Guarded \cup {"start", "answer", "allow", "deny", "exit_ok",
                              "exit_deny"}
    /\ watchdog \in {"unarmed", "armed", "answering"}
    /\ configured \in BOOLEAN
    /\ sink \in {"none", "open"} /\ health \in Healths
    /\ sink = "none" <=> health = "Unhealthy"
    /\ input \in Envelopes \cup {None}
    /\ assessment.outcome \in Outcomes \cup {"none"}
    /\ assessment.proven \in BOOLEAN
    /\ recorded \in {"none", "failed"} \cup Outcomes
    /\ stdout \in {"empty", "partial", "complete"}
    /\ exit \in ExitCodes \cup {"running"}
    \* The snapshot is final before anything depends on it.
    /\ main \in Late => reader = "over"
    /\ main = "assess" => input \in Operations \cup {Unusable}
    /\ main \in {"record", "answer", "allow"} => assessment.outcome # "none"
    /\ main \in (Guarded \ {"record"}) \cup {"start"} =>
          assessment.outcome = "none" /\ assessment.proven = FALSE
    /\ AllowState
    \* The trail is written between the assessment and the answer.
    /\ main \in Guarded \cup {"start"} => recorded = "none" /\ stdout = "empty"
    /\ recorded # "none" => assessment.outcome # "none"
    /\ assessment.outcome # "none" => recorded \in {"none", "failed", assessment.outcome}
    /\ sink = "open" /\ AtAnswer => recorded # "none"
    /\ sink = "open" /\ main \in {"deny", "exit_deny"} /\ denying \notin Overtaking
          => assessment.outcome # "none" /\ recorded # "none"
    /\ main \in {"deny", "exit_deny"} /\ recorded = "Allow" =>
          denying = "INTERNAL_FAILURE"
    \* What is written when.
    /\ stdout = "complete" => main = "exit_ok"
    /\ main \in {"answer", "allow"} => stdout = "empty"
    /\ mode = "hook" /\ main \in {"allow", "exit_ok"} =>
          assessment.outcome = "Allow"
    /\ mode = "hook" /\ main = "exit_ok" => stdout = "complete"
    /\ stdout # "empty" => assessment.outcome # "none"
    /\ main # "exit_deny" => Told \subseteq {"DEADLINE_EXCEEDED"}
    /\ Told \subseteq {denying, "DEADLINE_EXCEEDED"}
    /\ main = "exit_deny" => denying \in Told
    /\ watchdog = "answering" => "DEADLINE_EXCEEDED" \in Told
    \* An exit code is that of the thread that exited.
    /\ exit = "0" => main = "exit_ok"
    /\ exit = "2" => main = "exit_deny" \/ watchdog = "answering"

Inv == PolicyInv /\ ProcessInv

-----------------------------------------------------------------------------
LEMMA DecideType ==
    ASSUME NEW e, NEW outcome,
           outcome \in {"NoRestriction", "Ask", "Indeterminate", "Deny"}
    PROVE  /\ Decide(e, outcome) \in Outcomes
           /\ Decide(e, outcome) = "Allow" =>
                 Provable(e) /\ outcome = "NoRestriction"
<1>1. Baseline(e) \in {"Allow", "Ask", "Deny"}
  BY DEF Baseline
<1>2. QED
  BY <1>1 DEF Decide, Join, Strength, Outcomes

\* What pipeline::assess returns, whatever it is given.
Earned(a, policy, e, trail) ==
    /\ a.outcome \in Outcomes
    /\ a.proven \in BOOLEAN
    /\ a.outcome = "Allow" =>
          /\ policy.healthy
          /\ e # Unusable
          /\ PolicyOutcome(policy.policy, PipelineFacts(e)) = "NoRestriction"
          /\ e.effect = "Read" \/ trail = "Healthy"

LEMMA AssessType ==
    ASSUME NEW policy, NEW place \in BOOLEAN, NEW e, NEW trail
    PROVE  Earned(Assess(policy, place, e, trail), policy, e, trail)
<1> USE DEF Earned
<1> DEFINE outcome == PolicyOutcome(policy.policy, PipelineFacts(e))
<1>1. outcome \in {"NoRestriction", "Ask", "Indeterminate", "Deny"}
  BY DEF PolicyOutcome
<1>2. /\ Decide(e, outcome) \in Outcomes
      /\ Decide(e, outcome) = "Allow" =>
            Provable(e) /\ outcome = "NoRestriction"
  BY <1>1, DecideType
<1> HIDE DEF outcome
<1>3. /\ Gated(e, trail, Decide(e, outcome)) \in Outcomes
      /\ Gated(e, trail, Decide(e, outcome)) = "Allow" =>
            /\ outcome = "NoRestriction"
            /\ e.effect = "Read" \/ trail = "Healthy"
  BY <1>2 DEF Gated, Gate, Outcomes
<1>4. Provable(e) \in BOOLEAN
  BY DEF Provable
<1>5. CASE ~policy.healthy
  <2>1. Assess(policy, place, e, trail)
          = Assessed("Indeterminate", policy.reason, "unknown", FALSE)
    BY <1>5 DEF Assess
  <2>2. QED
    BY <2>1 DEF Assessed, Outcomes
<1>6. CASE policy.healthy /\ (~place \/ e = Unusable)
  <2>1. Assess(policy, place, e, trail)
          = Assessed("Indeterminate", "BLOCKED", "not_applicable", FALSE)
    BY <1>6 DEF Assess
  <2>2. QED
    BY <2>1 DEF Assessed, Outcomes
<1>7. CASE policy.healthy /\ place /\ e # Unusable
  <2>1. Assess(policy, place, e, trail)
          = Assessed(Gated(e, trail, Decide(e, outcome)),
                     Reason(e, trail, outcome), ReportedHealth(e, trail),
                     Provable(e))
    BY <1>7 DEF Assess, outcome
  <2>2. /\ Assess(policy, place, e, trail).outcome
             = Gated(e, trail, Decide(e, outcome))
        /\ Assess(policy, place, e, trail).proven = Provable(e)
    BY <2>1 DEF Assessed
  <2>3. QED
    BY <1>3, <1>4, <1>7, <2>2 DEF outcome
<1>8. QED
  BY <1>5, <1>6, <1>7

-----------------------------------------------------------------------------
\* Each step of the process keeps the invariant.
LEMMA Assessments ==
    /\ Unassessed.outcome = "none" /\ Unassessed.proven = FALSE
    /\ \A reason :
          LET a == Assessed("Indeterminate", reason, "not_applicable", FALSE)
          IN  a.outcome = "Indeterminate" /\ a.reason = reason /\ a.proven = FALSE
BY DEF Unassessed, Assessed

LEMMA ProcessInitInv == Init => ProcessInv
<1> SUFFICES ASSUME Init PROVE ProcessInv
  OBVIOUS
<1>1. /\ mode \in {"hook", "assess"} /\ main = "start"
      /\ watchdog = "unarmed" /\ configured = FALSE
      /\ sink = "none" /\ health = "Unhealthy" /\ input = None
      /\ assessment.outcome = "none" /\ assessment.proven = FALSE
      /\ recorded = "none" /\ denying = "none" /\ stdout = "empty"
      /\ Told = {} /\ exit = "running"
  BY Assessments DEF Init, Told
<1>2. QED
  BY <1>1
  DEF ProcessInv, AllowState, AtAnswer, Told, Guarded, Late, Outcomes,
      ExitCodes, Healths

\* How an error of the input leaves the assessment.
LEMMA InputErrorInv ==
    ASSUME ProcessInv, main = "read", Running,
           NEW reason \in InputReasons, InputError(reason),
           input' \in Envelopes \cup {None},
           UNCHANGED <<watchdog, configured, sink, health, recorded, stdout,
                       stderr, unheard, exit, policyVars, mode>>
    PROVE  ProcessInv'
<1>1. /\ assessment.outcome = "none" /\ assessment.proven = FALSE
      /\ recorded = "none" /\ stdout = "empty" /\ reader = "over"
      /\ Told \subseteq {"DEADLINE_EXCEEDED"} /\ Told' = Told
  BY DEF ProcessInv, Guarded, Late, Told
<1>2. CASE mode = "hook"
  <2>1. main' = "deny" /\ denying' = reason /\ assessment' = assessment
    BY <1>2 DEF InputError, Deny
  <2>2. QED
    BY <1>1, <1>2, <2>1
    DEF ProcessInv, AllowState, AtAnswer, Guarded, Late, Outcomes, ExitCodes,
        Envelopes, Running, policyVars, Overtaking, InputReasons
<1>3. CASE mode = "assess"
  <2>1. /\ main' = "answer" /\ denying' = denying
        /\ assessment'.outcome = "Indeterminate"
        /\ assessment'.reason = reason
        /\ assessment'.proven = FALSE
    BY <1>3, Assessments DEF InputError
  <2>2. QED
    BY <1>1, <1>3, <2>1
    DEF ProcessInv, AllowState, AtAnswer, Guarded, Late, Outcomes, ExitCodes,
        Envelopes, Running, policyVars, Overtaking, InputReasons
<1>4. QED
  BY <1>2, <1>3 DEF ProcessInv

LEMMA AssessInputInv ==
    ASSUME ProcessInv, AssessInput, Running, UNCHANGED <<policyVars, mode>>
    PROVE  ProcessInv'
<1> DEFINE a == Assess(activation, configured, input, health)
<1>0. input # Unusable => input \in Operations
  BY DEF AssessInput, ProcessInv
<1>1. Earned(a, activation, input, health)
  <2>1. configured \in BOOLEAN
    BY DEF ProcessInv
  <2> HIDE DEF a
  <2>2. QED
    BY <2>1, AssessType, Zenon DEF a
<1>2. /\ assessment' = a /\ main = "assess" /\ main' = "record"
      /\ UNCHANGED <<watchdog, configured, sink, health, input, recorded,
                     denying, stdout, stderr, unheard, exit, policyVars, mode>>
  BY DEF AssessInput
<1> HIDE DEF a
<1>3. AllowState'
  BY <1>0, <1>1, <1>2 DEF AllowState, Earned, policyVars
<1>4. /\ recorded = "none" /\ stdout = "empty" /\ Told' = Told
      /\ reader = "over" /\ reader' = reader
      /\ assessment'.outcome \in Outcomes /\ assessment'.proven \in BOOLEAN
  BY <1>1, <1>2 DEF ProcessInv, Guarded, Late, Told, Earned, policyVars
<1>5. QED
  BY <1>2, <1>3, <1>4
  DEF ProcessInv, AtAnswer, Guarded, Late, Outcomes, ExitCodes, Envelopes,
      Running

LEMMA ReadInputInv ==
    ASSUME ProcessInv, NEW envelope \in Envelopes, ReadInput(envelope), Running,
           UNCHANGED <<policyVars, mode>>
    PROVE  ProcessInv'
<1>1. CASE envelope = TooLarge
  BY <1>1, InputErrorInv DEF ReadInput, InputReasons
<1>2. CASE envelope # TooLarge
  BY <1>2
  DEF ReadInput, Running, ProcessInv, AllowState, AtAnswer, Told, Guarded, Late,
      Outcomes, ExitCodes, Envelopes, policyVars
<1>3. QED
  BY <1>1, <1>2

LEMMA ProcessStepInv == ProcessInv /\ ProcessStep => ProcessInv'
<1> SUFFICES ASSUME ProcessInv, ProcessStep PROVE ProcessInv'
  OBVIOUS
<1> USE DEF Overtaking, InputReasons, Running, ProcessInv, AllowState, AtAnswer,
            Told, Guarded, Late, Outcomes, ExitCodes, Envelopes, policyVars
<1>0. Running /\ UNCHANGED <<policyVars, mode>>
  BY DEF ProcessStep
<1>1. CASE RejectArguments
  BY <1>0, <1>1 DEF RejectArguments, Deny
<1>2. CASE Arm
  BY <1>0, <1>2 DEF Arm, Armed
<1>3. CASE SpawnPanics
  BY <1>0, <1>3 DEF SpawnPanics
<1>4. CASE Configure
  BY <1>0, <1>4 DEF Configure
<1>5. CASE TakeActivation
  BY <1>0, <1>5 DEF TakeActivation
<1>6. CASE OpenSink
  BY <1>0, <1>6 DEF OpenSink, NoSink, Healths
<1>7. CASE Record
  BY <1>0, <1>7 DEF Record, AppendEvent
<1>8. CASE Answer
  BY <1>0, <1>8 DEF Answer, MayProceed, Deny
<1>9. CASE WriteAllow
  BY <1>0, <1>9 DEF WriteAllow, Deny
<1>10. CASE WriteDeny
  BY <1>0, <1>10 DEF WriteDeny, PutReason
<1>11. CASE Exit
  BY <1>0, <1>11 DEF Exit
<1>12. CASE PrintAssessment
  BY <1>0, <1>12 DEF PrintAssessment
<1>13. CASE Panic
  BY <1>0, <1>13 DEF Panic, Deny
<1>14. CASE InputFails
  <2>1. input' \in Envelopes \cup {None}
    BY <1>14 DEF InputFails
  <2>2. QED
    BY <1>0, <1>14, <2>1, InputErrorInv DEF InputFails
<1>15. CASE WatchdogDenies
  BY <1>0, <1>15 DEF WatchdogDenies, PutReason
<1>16. CASE WatchdogExits
  BY <1>0, <1>16 DEF WatchdogExits
<1>17. CASE AssessInput
  BY <1>0, <1>17, AssessInputInv
<1>18. ASSUME NEW envelope \in Envelopes, ReadInput(envelope)
      PROVE  ProcessInv'
  BY <1>0, <1>18, ReadInputInv
<1>19. QED
  BY <1>1, <1>2, <1>3, <1>4, <1>5, <1>6, <1>7, <1>8, <1>9,
     <1>10, <1>11, <1>12, <1>13, <1>14, <1>15, <1>16, <1>17, <1>18
  DEF ProcessStep, Works, Waits, Watchdog

\* The activation moves before anything depends on the snapshot, and an edit
\* of the operator never moves it.
LEMMA LocationStepInv ==
    ProcessInv /\ (ActivationStep \/ OperatorStep) => ProcessInv'
<1>1. ASSUME ProcessInv, ActivationStep PROVE ProcessInv'
  <2>1. /\ main = "activate" /\ assessment.outcome = "none"
        /\ UNCHANGED processVars
    BY <1>1 DEF ActivationStep, ProcessInv, Guarded
  <2>2. QED
    BY <1>1, <2>1
    DEF ProcessInv, AllowState, AtAnswer, Told, processVars, Guarded, Late, Envelopes
<1>2. ASSUME ProcessInv, OperatorStep PROVE ProcessInv'
  <2>1. /\ reader' = reader /\ activation' = activation
        /\ UNCHANGED processVars
    BY <1>2 DEF OperatorStep, Operate, Put, RemoveFile, Edit
  <2>2. QED
    BY <1>2, <2>1
    DEF ProcessInv, AllowState, AtAnswer, Told, processVars, Guarded, Late, Envelopes
<1>3. QED
  BY <1>1, <1>2

LEMMA InitInv == Init => Inv
BY ProcessInitInv, PolicyInitInv DEF Init, Inv

LEMMA StepInv == Inv /\ [Next]_vars => Inv'
<1> SUFFICES ASSUME Inv, [Next]_vars PROVE Inv'
  OBVIOUS
<1>1. PolicyInv /\ ProcessInv
  BY DEF Inv
<1>2. CASE ProcessStep
  <2>1. UNCHANGED policyVars
    BY <1>2 DEF ProcessStep
  <2>2. QED
    BY <1>1, <1>2, <2>1, PolicyStutter, ProcessStepInv DEF Inv
<1>3. CASE ActivationStep
  BY <1>1, <1>3, ActivateInv, LocationStepInv DEF Inv, ActivationStep
<1>4. CASE OperatorStep
  BY <1>1, <1>4, OperateInv, LocationStepInv DEF Inv, OperatorStep
<1>5. CASE UNCHANGED vars
  <2>1. UNCHANGED policyVars /\ UNCHANGED processVars
    BY <1>5 DEF vars
  <2>2. ProcessInv'
    BY <1>1, <2>1
    DEF ProcessInv, AllowState, AtAnswer, Told, processVars, policyVars, Guarded, Late,
        Envelopes
  <2>3. QED
    BY <1>1, <2>1, <2>2, PolicyStutter DEF Inv
<1>6. QED
  BY <1>2, <1>3, <1>4, <1>5 DEF Next

\* A policy that imposes nothing on an operation holds no rule that could
\* apply to it.
LEMMA NothingApplies ==
    ASSUME NEW policy, NEW facts, NEW e \in policy,
           e.rule.restriction \in Restrictions,
           PolicyOutcome(policy, facts) = "NoRestriction"
    PROVE  NoMatch(e.rule, facts)
<1>1. /\ Matching(policy, facts, "Deny") = {}
      /\ Matching(policy, facts, "Ask") = {}
      /\ IndeterminateRules(policy, facts) = {}
  BY DEF PolicyOutcome
<1>2. ~Match(e.rule, facts)
  BY <1>1 DEF Matching, Restrictions
<1>3. ~Undecided(e.rule, facts)
  BY <1>1 DEF IndeterminateRules
<1>4. QED
  BY <1>2, <1>3 DEF Match, Undecided

LEMMA InvHonoursPolicy == Inv => AllowHonoursPolicy
<1> SUFFICES ASSUME Inv, mode = "hook", exit = "0" PROVE AllowHonoursPolicy
  BY DEF AllowHonoursPolicy
<1>1. /\ activation.healthy
      /\ PolicyOutcome(activation.policy, PipelineFacts(input))
            = "NoRestriction"
  BY DEF Inv, ProcessInv, AllowState
<1>2. SUFFICES ASSUME located, NEW f \in DOMAIN since.unchanged \ Links
               PROVE  /\ since.unchanged[f] # Damaged
                      /\ \A r \in since.unchanged[f].rules :
                            NoMatch(r, PipelineFacts(input))
  BY <1>1 DEF AllowHonoursPolicy
<1> DEFINE b == since.unchanged[f]
<1>3. /\ f \in DOMAIN loaded /\ loaded[f] = b
      /\ EffectiveRulesOf(b) \subseteq activation.policy
  BY <1>1, <1>2, PolicyInvSuffices DEF Inv, UntouchedBundlesLoaded
<1>4. b \in Catalogue
  BY <1>3 DEF Inv, PolicyInv, PolicyTypeOK
<1> HIDE DEF b
<1>5. ASSUME NEW r \in b.rules PROVE NoMatch(r, PipelineFacts(input))
  <2> DEFINE e == [identity |-> <<b.layer, b.id, r.id>>, rule |-> r]
  <2>1. e \in activation.policy
    BY <1>3, <1>5 DEF EffectiveRulesOf
  <2>2. e.rule = r /\ r.restriction \in Restrictions
    BY <1>4, <1>5, CatalogueAssumption DEF Bundles, Rules
  <2> HIDE DEF e
  <2>3. QED
    BY <1>1, <2>1, <2>2, NothingApplies
<1>6. b # Damaged
  BY <1>4, DamagedAssumption
<1>7. QED
  BY <1>5, <1>6 DEF b

LEMMA InvSuffices ==
    Inv => TypeOK /\ AnswersAreWhole /\ AnswersAreOnRecord
<1> SUFFICES ASSUME Inv PROVE TypeOK /\ AnswersAreWhole /\ AnswersAreOnRecord
  OBVIOUS
<1>1. PolicyTypeOK /\ ProcessInv
  BY PolicyInvSuffices DEF Inv
<1>2. TypeOK
  BY <1>1 DEF TypeOK, ProcessInv, Outcomes, Told
<1>3. AnswersAreWhole
  BY <1>1 DEF AnswersAreWhole, ProcessInv, Told
<1>4. AnswersAreOnRecord
  BY <1>1 DEF AnswersAreOnRecord, Answered, Overtaking, InputReasons, ProcessInv,
      AllowState, AtAnswer, Told
<1>5. QED
  BY <1>2, <1>3, <1>4

-----------------------------------------------------------------------------
\* Every step of either thread and every edit keeps the process, its trail and
\* its snapshot in the states the code means them to be in.
THEOREM HookTypeCorrect == Spec => []TypeOK
BY InitInv, StepInv, InvSuffices, PTL DEF Spec

\* No exit 0 without an allow written whole, no exit 2 before its reason was
\* offered to stderr, and none behind a whole allow but for the deadline,
\* however the two threads interleave.
THEOREM AnswersWhole == Spec => []AnswersAreWhole
BY InitInv, StepInv, InvSuffices, PTL DEF Spec

\* No call goes ahead past a bundle that stood untouched while the policy was
\* loaded, whatever bundles there are and whatever the operator edits.
THEOREM AllowsHonourPolicy == Spec => []AllowHonoursPolicy
BY InitInv, StepInv, InvHonoursPolicy, PTL DEF Spec

\* Whatever assessment is given as an answer, a denial or an allow, was offered
\* to the trail first with the same outcome, and a trail that says Allow to a
\* host that was denied is the work of a failed write or of the deadline.
THEOREM AnswersOnRecord == Spec => []AnswersAreOnRecord
BY InitInv, StepInv, InvSuffices, PTL DEF Spec

(***************************************************************************)
(* The JSON that is written, for texts, lists and nestings of any size.    *)
(* A reader that goes through a text in two parts ends where it does in    *)
(* one (AfterConcat), so what a text reads as is found part by part: the   *)
(* spelling of a character takes a reader that is inside a string to that  *)
(* string with the character behind it, a quoted text takes one that       *)
(* expects a value past that value, and the buffer of an object takes it   *)
(* into an object with the members added so far.                           *)
(***************************************************************************)
\* Where a reader is after n characters.
ReadFrom(r, text, upTo, n) == IF n = 0 THEN r ELSE Advanced(upTo[n - 1], text[n])

LEMMA ReadRecursion ==
    ASSUME NEW r, NEW text, Len(text) \in Nat, NEW n \in 0..Len(text)
    PROVE  ReadTo(r, text)[n] = ReadFrom(r, text, ReadTo(r, text), n)
<1> DEFINE I == 0..Len(text)
           R == {st \in I \X I : st[1] < st[2]}
           Def(upTo, x) == ReadFrom(r, text, upTo, x)
           f[x \in I] == Def(f, x)
<1>1. \A x, y \in I : <<x, y>> \in R <=> x < y
  OBVIOUS
<1>2. IsWellFoundedOn(R, I)
  <2> HIDE DEF R
  <2>1. ASSUME NEW T \in SUBSET I, T # {}
        PROVE  \E x \in T : \A y \in T : ~ (<<y, x>> \in R)
    <3>1. T \in SUBSET Nat
      OBVIOUS
    <3>2. PICK m \in T : \A k \in T : m <= k
      BY <2>1, <3>1, LeastNumber
    <3>3. QED
      BY <1>1, <3>1, <3>2
  <2> HIDE DEF I
  <2>2. QED
    BY <2>1, MinWF
<1>3. WFDefOn(R, I, Def)
  <2> SUFFICES ASSUME NEW g, NEW h, NEW x \in I,
                      \A y \in SetLessThan(x, R, I) : g[y] = h[y]
               PROVE  Def(g, x) = Def(h, x)
    BY DEF WFDefOn
  <2>1. x # 0 => x - 1 \in SetLessThan(x, R, I)
    BY DEF SetLessThan
  <2>2. QED
    BY <2>1 DEF ReadFrom
<1>4. ReadTo(r, text) = f
  BY DEF ReadTo, ReadFrom
<1>5. OpDefinesFcn(f, I, Def)
  BY DEF OpDefinesFcn
<1> HIDE DEF f, R, Def
<1>6. WFInductiveDefines(f, I, Def)
  BY <1>2, <1>3, <1>5, WFInductiveDef
<1>7. f = [x \in I |-> Def(f, x)]
  BY <1>6 DEF WFInductiveDefines
<1>8. f[n] = Def(f, n)
  BY <1>7
<1>9. QED
  BY <1>4, <1>8 DEF Def

LEMMA AfterNothing ==
    ASSUME NEW r
    PROVE  After(r, <<>>) = r
<1> DEFINE none == <<>>
<1>1. Len(none) = 0
  OBVIOUS
<1> HIDE DEF none
<1>2. ReadTo(r, none)[0] = ReadFrom(r, none, ReadTo(r, none), 0)
  BY <1>1, ReadRecursion
<1>3. After(r, none) = r
  BY <1>1, <1>2 DEF After, ReadFrom
<1>4. QED
  BY <1>3 DEF none

\* The last character moves the reader last.
LEMMA AfterAppend ==
    ASSUME NEW S, NEW r, NEW text \in Seq(S), NEW c \in S
    PROVE  After(r, Append(text, c)) = Advanced(After(r, text), c)
<1> DEFINE more == Append(text, c)
           T == {j \in 0..Len(text) : ReadTo(r, more)[j] # ReadTo(r, text)[j]}
<1>1. /\ Len(text) \in Nat /\ Len(more) = Len(text) + 1
      /\ \A j \in 1..Len(text) : more[j] = text[j]
      /\ more[Len(text) + 1] = c
  BY LenProperties, AppendProperties
<1> HIDE DEF more
<1>2. ASSUME T # {} PROVE FALSE
  <2>1. T \in SUBSET Nat
    BY <1>1
  <2> HIDE DEF T
  <2>2. PICK n \in T : \A m \in T : n <= m
    BY <1>2, <2>1, LeastNumber
  <2>3. n \in 0..Len(text) /\ ReadTo(r, more)[n] # ReadTo(r, text)[n]
    BY <2>2 DEF T
  <2>4. n \in 0..Len(more) /\ Len(more) \in Nat
    BY <1>1, <2>3
  <2>5. /\ ReadTo(r, text)[n] = ReadFrom(r, text, ReadTo(r, text), n)
        /\ ReadTo(r, more)[n] = ReadFrom(r, more, ReadTo(r, more), n)
    BY <1>1, <2>3, <2>4, ReadRecursion
  <2>6. n # 0
    BY <2>3, <2>5 DEF ReadFrom
  <2>7. n - 1 \in 0..Len(text) /\ n - 1 \notin T
    BY <1>1, <2>1, <2>2, <2>3, <2>6
  <2>8. ReadTo(r, more)[n - 1] = ReadTo(r, text)[n - 1]
    BY <2>7 DEF T
  <2>9. QED
    BY <1>1, <2>3, <2>5, <2>6, <2>8 DEF ReadFrom
<1>3. ReadTo(r, more)[Len(text)] = ReadTo(r, text)[Len(text)]
  BY <1>1, <1>2
<1>4. ReadTo(r, more)[Len(more)] = ReadFrom(r, more, ReadTo(r, more), Len(more))
  BY <1>1, ReadRecursion
<1>5. Len(more) # 0 /\ Len(more) - 1 = Len(text) /\ more[Len(more)] = c
  BY <1>1
<1>6. After(r, more) = Advanced(After(r, text), c)
  BY <1>3, <1>4, <1>5 DEF After, ReadFrom
<1>7. QED
  BY <1>6 DEF more

\* A text in two parts is read one part after the other.
Continues(r, a, b) == After(r, a \o b) = After(After(r, a), b)

LEMMA AfterConcat ==
    ASSUME NEW S, NEW r, NEW a \in Seq(S), NEW b \in Seq(S)
    PROVE  Continues(r, a, b)
<1> DEFINE T == {n \in Nat : \E c \in Seq(S) : Len(c) = n /\ ~Continues(r, a, c)}
<1>1. ASSUME T # {} PROVE FALSE
  <2>1. T \in SUBSET Nat
    OBVIOUS
  <2> HIDE DEF T
  <2>2. PICK n \in T : \A m \in T : n <= m
    BY <1>1, <2>1, LeastNumber
  <2>3. PICK c \in Seq(S) : Len(c) = n /\ ~Continues(r, a, c)
    BY <2>2 DEF T
  <2>4. c # <<>>
    <3>1. Continues(r, a, <<>>)
      BY AfterNothing, ConcatEmptySeq DEF Continues
    <3>2. QED
      BY <2>3, <3>1
  <2>5. PICK d \in Seq(S), x \in S : c = Append(d, x)
    BY <2>4, SequenceEmptyOrAppend
  <2>6. Len(d) \in Nat /\ Len(c) = Len(d) + 1
    BY <2>5, LenProperties, AppendProperties
  <2>7. Continues(r, a, d)
    <3>1. Len(d) \notin T
      BY <2>1, <2>2, <2>3, <2>6
    <3>2. QED
      BY <2>6, <3>1 DEF T
  <2>8. a \o c = Append(a \o d, x) /\ a \o d \in Seq(S)
    BY <2>5, AppendBehind, ConcatProperties
  <2>9. /\ After(r, a \o c) = Advanced(After(r, a \o d), x)
        /\ After(After(r, a), c) = Advanced(After(After(r, a), d), x)
    <3> DEFINE r1 == After(r, a)
               e == a \o d
    <3>1. a \o c = Append(e, x) /\ e \in Seq(S)
      BY <2>8
    <3> HIDE DEF r1, e
    <3>2. After(r, Append(e, x)) = Advanced(After(r, e), x)
      BY <2>5, <3>1, AfterAppend
    <3>3. After(r1, Append(d, x)) = Advanced(After(r1, d), x)
      BY <2>5, AfterAppend
    <3>4. QED
      BY <2>5, <3>1, <3>2, <3>3 DEF r1, e
  <2>10. QED
    BY <2>3, <2>7, <2>9 DEF Continues
<1>2. Len(b) \in Nat
  BY LenProperties
<1>3. QED
  BY <1>1, <1>2

LEMMA AfterOne ==
    ASSUME NEW r, NEW c
    PROVE  After(r, <<c>>) = Advanced(r, c)
<1> DEFINE S == {c}
           none == <<>>
<1>1. none \in Seq(S) /\ c \in S
  OBVIOUS
<1>2. After(r, none) = r
  BY AfterNothing
<1>3. Append(none, c) = <<c>>
  OBVIOUS
<1> HIDE DEF S, none
<1>4. After(r, Append(none, c)) = Advanced(After(r, none), c)
  BY <1>1, AfterAppend
<1>5. QED
  BY <1>2, <1>3, <1>4

LEMMA AfterTwo ==
    ASSUME NEW r, NEW c, NEW d
    PROVE  After(r, <<c, d>>) = Advanced(Advanced(r, c), d)
<1> DEFINE S == {c, d}
           one == <<c>>
<1>1. c \in S /\ d \in S
  OBVIOUS
<1>2. After(r, one) = Advanced(r, c)
  BY AfterOne
<1> HIDE DEF S
<1>3. one \in Seq(S)
  BY <1>1
<1>4. Append(one, d) = <<c, d>>
  <2> DEFINE two == <<c, d>>
             more == Append(one, d)
  <2>1. two \in Seq(S) /\ Len(two) = 2 /\ two[1] = c /\ two[2] = d
    BY <1>1
  <2>2. Len(one) = 1 /\ one[1] = c
    OBVIOUS
  <2> HIDE DEF one
  <2>3. more \in Seq(S) /\ Len(more) = 2 /\ more[1] = c /\ more[2] = d
    <3>1. /\ more \in Seq(S) /\ Len(more) = Len(one) + 1
          /\ \A i \in 1..Len(one) : more[i] = one[i]
          /\ more[Len(one) + 1] = d
      BY <1>1, <1>3, AppendProperties
    <3> HIDE DEF more
    <3>2. QED
      BY <2>2, <3>1
  <2> HIDE DEF two, more
  <2>4. \A i \in 1..2 : i = 1 \/ i = 2
    OBVIOUS
  <2>5. two = more
    BY <2>1, <2>3, <2>4, SeqEqual
  <2>6. QED
    BY <2>5 DEF two, more
<1> HIDE DEF one
<1>5. After(r, Append(one, d)) = Advanced(After(r, one), d)
  BY <1>1, <1>3, AfterAppend
<1>6. QED
  BY <1>2, <1>4, <1>5

-----------------------------------------------------------------------------
\* Inside a string.
InEscape(f, t) == [InString(f, t) EXCEPT !.next = "escape"]
InDigits(f, t, n, x) == [InString(f, t) EXCEPT !.next = "digit", !.digits = n, !.code = x]

LEMMA CharacterSteps ==
    ASSUME NEW f, NEW t
    PROVE  /\ Advanced(InString(f, t), Mark.quote)
                = Delivered(f, [is |-> "string", of |-> t])
           /\ Advanced(InString(f, t), Mark.backslash) = InEscape(f, t)
           /\ \A c \in CodePoints : c >= 32 /\ c # Mark.quote /\ c # Mark.backslash
                => Advanced(InString(f, t), c) = InString(f, Append(t, c))
<1> DEFINE r == InString(f, t)
<1>1. r.next = "character" /\ r.inside = f /\ r.text = t
  BY DEF InString, Reader
<1> HIDE DEF r
<1>2. \A c : Advanced(r, c) = ReadCharacterOf(r, c)
  BY <1>1 DEF Advanced
<1>3. \A c \in CodePoints : c >= 32 => ~ (c < 32)
  BY SMT DEF CodePoints
<1>4. Mark.quote = 34 /\ Mark.backslash = 92
  BY DEF Mark
<1>5. /\ ReadCharacterOf(r, Mark.quote) = Delivered(f, [is |-> "string", of |-> t])
      /\ ReadCharacterOf(r, Mark.backslash) = [r EXCEPT !.next = "escape"]
      /\ \A c \in CodePoints : c >= 32 /\ c # Mark.quote /\ c # Mark.backslash
                => ReadCharacterOf(r, c) = InString(f, Append(t, c))
  BY <1>1, <1>3, <1>4 DEF ReadCharacterOf
<1>6. QED
  BY <1>2, <1>5 DEF r, InEscape

LEMMA EscapeSteps ==
    ASSUME NEW f, NEW t
    PROVE  /\ \A c \in DOMAIN Unescape :
                 Advanced(InEscape(f, t), c) = InString(f, Append(t, Unescape[c]))
           /\ Advanced(InEscape(f, t), Mark.u) = InDigits(f, t, 0, 0)
<1> DEFINE r == InEscape(f, t)
<1>1. /\ r.next = "escape" /\ r.inside = f /\ r.text = t
      /\ [r EXCEPT !.next = "digit", !.digits = 0, !.code = 0] = InDigits(f, t, 0, 0)
  BY DEF InEscape, InDigits, InString, Reader
<1> HIDE DEF r
<1>2. \A c : Advanced(r, c) = ReadEscapeOf(r, c)
  BY <1>1 DEF Advanced
<1>3. Mark.u \notin DOMAIN Unescape
  BY DEF Mark, Unescape
<1>4. QED
  BY <1>1, <1>2, <1>3 DEF ReadEscapeOf, r

\* A digit is worth what it was written for.
LEMMA DigitValue ==
    ASSUME NEW d \in 0..15
    PROVE  HexDigit(d) \in DOMAIN HexValue /\ HexValue[HexDigit(d)] = d
           /\ HexDigit(d) \in CodePoints
BY SMT DEF HexDigit, HexValue, CodePoints

LEMMA DigitSteps ==
    ASSUME NEW f, NEW t, NEW x \in Nat, NEW d \in 0..15
    PROVE  /\ \A n \in 0..2 :
                 Advanced(InDigits(f, t, n, x), HexDigit(d)) = InDigits(f, t, n + 1, 16 * x + d)
           /\ Advanced(InDigits(f, t, 3, x), HexDigit(d)) = InString(f, Append(t, 16 * x + d))
<1>1. ASSUME NEW n \in 0..3
      PROVE  Advanced(InDigits(f, t, n, x), HexDigit(d))
               = IF n = 3 THEN InString(f, Append(t, 16 * x + d))
                          ELSE InDigits(f, t, n + 1, 16 * x + d)
  <2> DEFINE r == InDigits(f, t, n, x)
  <2>1. /\ r.next = "digit" /\ r.inside = f /\ r.text = t /\ r.digits = n /\ r.code = x
        /\ \A y : [r EXCEPT !.digits = r.digits + 1, !.code = y] = InDigits(f, t, n + 1, y)
    BY DEF InDigits, InString, Reader
  <2> HIDE DEF r
  <2>2. Advanced(r, HexDigit(d)) = ReadDigitOf(r, HexDigit(d))
    BY <2>1 DEF Advanced
  <2>3. HexDigit(d) \in DOMAIN HexValue /\ HexValue[HexDigit(d)] = d
    BY DigitValue
  <2>4. ReadDigitOf(r, HexDigit(d))
          = IF n = 3 THEN InString(f, Append(t, 16 * x + d))
                     ELSE InDigits(f, t, n + 1, 16 * x + d)
    BY <2>1, <2>3 DEF ReadDigitOf
  <2>5. QED
    BY Zenon, <2>2, <2>4 DEF r
<1>2. QED
  BY <1>1

LEMMA ShortForms ==
    ASSUME NEW c \in DOMAIN ShortForm
    PROVE  /\ c \in CodePoints /\ c < 32 /\ c \notin {Mark.quote, Mark.backslash}
           /\ ShortForm[c] \in DOMAIN Unescape /\ Unescape[ShortForm[c]] = c
           /\ ShortForm[c] \in CodePoints
<1>1. /\ ShortForm[8] = 98 /\ ShortForm[9] = 116 /\ ShortForm[10] = 110 /\ ShortForm[12] = 102
      /\ ShortForm[13] = 114 /\ DOMAIN ShortForm = {8, 9, 10, 12, 13}
  BY DEF ShortForm
<1>2. c \in {8, 9, 10, 12, 13}
  BY <1>1
<1>3. /\ ShortForm[c] \in {98, 102, 110, 114, 116}
      /\ \A d \in DOMAIN ShortForm : ShortForm[d] = ShortForm[c] => d = c
  BY <1>1, <1>2
<1>4. Mark.quote = 34 /\ Mark.backslash = 92
  BY DEF Mark
<1>5. /\ ShortForm[c] \in DOMAIN Unescape
      /\ Unescape[ShortForm[c]] = CHOOSE code \in DOMAIN ShortForm : ShortForm[code] = ShortForm[c]
  BY <1>3, <1>4 DEF Unescape
<1>6. (CHOOSE code \in DOMAIN ShortForm : ShortForm[code] = ShortForm[c]) = c
  BY <1>3
<1>7. c \in CodePoints /\ c < 32 /\ c \notin {34, 92} /\ ShortForm[c] \in CodePoints
  BY <1>2, <1>3 DEF CodePoints
<1>8. QED
  BY <1>4, <1>5, <1>6, <1>7

LEMMA EscapeReads ==
    ASSUME NEW f, NEW t, NEW c \in DOMAIN Unescape
    PROVE  After(InString(f, t), <<Mark.backslash, c>>) = InString(f, Append(t, Unescape[c]))
<1>1. After(InString(f, t), <<Mark.backslash, c>>)
        = Advanced(Advanced(InString(f, t), Mark.backslash), c)
  BY AfterTwo
<1>2. Advanced(InString(f, t), Mark.backslash) = InEscape(f, t)
  BY CharacterSteps
<1>3. Advanced(InEscape(f, t), c) = InString(f, Append(t, Unescape[c]))
  BY EscapeSteps
<1>4. QED
  BY <1>1, <1>2, <1>3

\* Reading the four digits of a code below 32.
LEMMA FourDigits ==
    ASSUME NEW f, NEW t, NEW c \in CodePoints, c < 32
    PROVE  After(InString(f, t), Unicode4(c)) = InString(f, Append(t, c))
           /\ Unicode4(c) \in Seq(CodePoints)
<1> DEFINE d1 == (c \div 4096) % 16
           d2 == (c \div 256) % 16
           d3 == (c \div 16) % 16
           d4 == c % 16
<1>1. /\ d1 \in 0..15 /\ d2 \in 0..15 /\ d3 \in 0..15 /\ d4 \in 0..15
      /\ d1 = 0 /\ d2 = 0 /\ 16 * d3 + d4 = c
  BY SMT DEF CodePoints
<1> HIDE DEF d1, d2, d3, d4
<1> DEFINE h1 == HexDigit(d1)
           h2 == HexDigit(d2)
           h3 == HexDigit(d3)
           h4 == HexDigit(d4)
           m1 == Mark.backslash
           m2 == Mark.u
           t2 == <<m1, m2>>
           t3 == Append(t2, h1)
           t4 == Append(t3, h2)
           t5 == Append(t4, h3)
           t6 == Append(t5, h4)
<1>2. h1 \in CodePoints /\ h2 \in CodePoints /\ h3 \in CodePoints /\ h4 \in CodePoints
  BY <1>1, DigitValue
<1>3. m1 \in CodePoints /\ m2 \in CodePoints
  BY DEF Mark, CodePoints
<1>4. Unicode4(c) = <<m1, m2, h1, h2, h3, h4>>
  BY DEF Unicode4, d1, d2, d3, d4
<1>5. After(InString(f, t), t2) = InDigits(f, t, 0, 0)
  <2>1. After(InString(f, t), t2) = Advanced(Advanced(InString(f, t), m1), m2)
    BY AfterTwo
  <2>2. Advanced(InString(f, t), m1) = InEscape(f, t)
    BY CharacterSteps
  <2>3. Advanced(InEscape(f, t), m2) = InDigits(f, t, 0, 0)
    BY EscapeSteps
  <2>4. QED
    BY <2>1, <2>2, <2>3
<1> HIDE DEF h1, h2, h3, h4, m1, m2
<1>6. Unicode4(c) = t6 /\ t2 \in Seq(CodePoints)
  BY <1>2, <1>3, <1>4
<1> HIDE DEF t2
<1>7. t3 \in Seq(CodePoints)
  BY <1>2, <1>6
<1>8. After(InString(f, t), t3) = InDigits(f, t, 1, d1)
  <2>1. After(InString(f, t), t3) = Advanced(InDigits(f, t, 0, 0), h1)
    BY <1>2, <1>5, <1>6, AfterAppend
  <2>2. Advanced(InDigits(f, t, 0, 0), h1) = InDigits(f, t, 0 + 1, 16 * 0 + d1)
    BY <1>1, DigitSteps DEF h1
  <2>3. 16 * 0 + d1 = d1 /\ 0 + 1 = 1
    BY <1>1
  <2>4. QED
    BY <2>1, <2>2, <2>3
<1> HIDE DEF t3
<1>9. t4 \in Seq(CodePoints)
  BY <1>2, <1>7
<1>10. After(InString(f, t), t4) = InDigits(f, t, 2, 0)
  <2>1. After(InString(f, t), t4) = Advanced(InDigits(f, t, 1, d1), h2)
    BY <1>2, <1>7, <1>8, AfterAppend
  <2>2. Advanced(InDigits(f, t, 1, d1), h2) = InDigits(f, t, 1 + 1, 16 * d1 + d2)
    BY <1>1, DigitSteps DEF h2
  <2>3. 16 * d1 + d2 = 0 /\ 1 + 1 = 2
    BY <1>1
  <2>4. QED
    BY <2>1, <2>2, <2>3
<1> HIDE DEF t4
<1>11. t5 \in Seq(CodePoints)
  BY <1>2, <1>9
<1>12. After(InString(f, t), t5) = InDigits(f, t, 3, d3)
  <2>1. After(InString(f, t), t5) = Advanced(InDigits(f, t, 2, 0), h3)
    BY <1>2, <1>9, <1>10, AfterAppend
  <2>2. Advanced(InDigits(f, t, 2, 0), h3) = InDigits(f, t, 2 + 1, 16 * 0 + d3)
    <3>1. 0 \in Nat /\ 2 \in 0..2 /\ d3 \in 0..15
      BY <1>1
    <3>2. QED
      BY Zenon, <3>1, DigitSteps DEF h3
  <2>3. 16 * 0 + d3 = d3 /\ 2 + 1 = 3
    BY <1>1
  <2>4. QED
    BY <2>1, <2>2, <2>3
<1> HIDE DEF t5
<1>13. After(InString(f, t), t6) = InString(f, Append(t, c))
  <2>1. After(InString(f, t), t6) = Advanced(InDigits(f, t, 3, d3), h4)
    BY <1>2, <1>11, <1>12, AfterAppend
  <2>2. d3 \in Nat /\ d4 \in 0..15
    BY <1>1
  <2>3. Advanced(InDigits(f, t, 3, d3), h4) = InString(f, Append(t, 16 * d3 + d4))
    BY Zenon, <2>2, DigitSteps DEF h4
  <2>4. QED
    BY <1>1, <2>1, <2>3
<1>14. t6 \in Seq(CodePoints)
  BY <1>2, <1>11
<1>15. QED
  BY <1>6, <1>13, <1>14

\* A character that was escaped is read as itself.
LEMMA EscapedReads ==
    ASSUME NEW f, NEW t, NEW c \in CodePoints
    PROVE  /\ After(InString(f, t), Escaped(c)) = InString(f, Append(t, c))
           /\ Escaped(c) \in Seq(CodePoints)
<1>1. Mark.quote = 34 /\ Mark.backslash = 92 /\ 92 \in CodePoints
  BY DEF Mark, CodePoints
<1>2. CASE c \in {Mark.quote, Mark.backslash}
  <2>1. c \notin DOMAIN ShortForm
    BY <1>2, ShortForms
  <2>2. Escaped(c) = <<Mark.backslash, c>>
    BY <1>1, <1>2, <2>1 DEF Escaped
  <2>3. c \in DOMAIN Unescape /\ Unescape[c] = c
    BY <1>2 DEF Unescape
  <2>4. After(InString(f, t), <<Mark.backslash, c>>) = InString(f, Append(t, c))
    BY <2>3, EscapeReads
  <2>5. QED
    BY <1>1, <2>2, <2>4
<1>3. CASE c \in DOMAIN ShortForm
  <2>1. c \notin {Mark.quote, Mark.backslash} /\ c < 32
    BY <1>3, ShortForms
  <2>2. Escaped(c) = <<Mark.backslash, ShortForm[c]>>
    BY <1>3, <2>1 DEF Escaped
  <2>3. /\ ShortForm[c] \in DOMAIN Unescape /\ Unescape[ShortForm[c]] = c
        /\ ShortForm[c] \in CodePoints
    BY <1>3, ShortForms
  <2>4. After(InString(f, t), <<Mark.backslash, ShortForm[c]>>) = InString(f, Append(t, c))
    BY <2>3, EscapeReads
  <2>5. QED
    BY <1>1, <2>2, <2>3, <2>4
<1>4. CASE c < 32 /\ c \notin DOMAIN ShortForm
  <2>1. c \notin {Mark.quote, Mark.backslash}
    BY <1>1, <1>4
  <2>2. Escaped(c) = Unicode4(c)
    BY <1>4, <2>1 DEF Escaped
  <2>3. QED
    BY <1>4, <2>2, FourDigits
<1>5. CASE ~ (c < 32) /\ c \notin {Mark.quote, Mark.backslash}
  <2>1. c \notin DOMAIN ShortForm
    BY <1>5, ShortForms
  <2>2. Escaped(c) = <<c>>
    BY <1>5, <2>1 DEF Escaped
  <2>3. c >= 32
    BY <1>5 DEF CodePoints
  <2>4. After(InString(f, t), <<c>>) = Advanced(InString(f, t), c)
    BY AfterOne
  <2>6. c # Mark.quote /\ c # Mark.backslash
    BY <1>5
  <2>7. Advanced(InString(f, t), c) = InString(f, Append(t, c))
    BY <2>3, <2>6, CharacterSteps
  <2>8. <<c>> \in Seq(CodePoints)
    OBVIOUS
  <2>5. QED
    BY <2>2, <2>4, <2>7, <2>8
<1>6. QED
  BY <1>1, <1>2, <1>3, <1>4, <1>5

-----------------------------------------------------------------------------
\* Strings.
EscapedBy == [c \in CodePoints |-> Escaped(c)]
Body(text) == FlattenSeq([i \in DOMAIN text |-> Escaped(text[i])])
BodyReads(f, text) ==
    /\ Body(text) \in Seq(CodePoints)
    /\ After(InString(f, <<>>), Body(text)) = InString(f, text)

LEMMA EscapesAreValues == Valued(EscapedBy, CodePoints, CodePoints)
BY EscapedReads DEF Valued, EscapedBy

LEMMA BodyIsMapped ==
    ASSUME NEW text \in Seq(CodePoints)
    PROVE  Body(text) = FlattenSeq(Mapped(EscapedBy, text))
<1>1. \A i \in DOMAIN text : text[i] \in CodePoints
  BY LenProperties, ElementOfSeq
<1>2. \A i \in DOMAIN text : EscapedBy[text[i]] = Escaped(text[i])
  BY <1>1 DEF EscapedBy
<1>3. [i \in DOMAIN text |-> Escaped(text[i])] = Mapped(EscapedBy, text)
  BY <1>2 DEF Mapped
<1>4. QED
  BY <1>3 DEF Body

LEMMA EveryBodyReads ==
    ASSUME NEW f, NEW text \in Seq(CodePoints)
    PROVE  BodyReads(f, text)
<1> DEFINE T == {n \in Nat : \E c \in Seq(CodePoints) : Len(c) = n /\ ~BodyReads(f, c)}
<1>1. ASSUME T # {} PROVE FALSE
  <2>1. T \in SUBSET Nat
    OBVIOUS
  <2> HIDE DEF T
  <2>2. PICK n \in T : \A m \in T : n <= m
    BY <1>1, <2>1, LeastNumber
  <2>3. PICK c \in Seq(CodePoints) : Len(c) = n /\ ~BodyReads(f, c)
    BY <2>2 DEF T
  <2>4. c # <<>>
    <3>1. Body(<<>>) = <<>>
      BY DEF Body, FlattenSeq
    <3>4. After(InString(f, <<>>), <<>>) = InString(f, <<>>) /\ <<>> \in Seq(CodePoints)
      BY AfterNothing
    <3>2. BodyReads(f, <<>>)
      BY Zenon, <3>1, <3>4 DEF BodyReads
    <3>3. QED
      BY <2>3, <3>2
  <2>5. PICK d \in Seq(CodePoints), x \in CodePoints : c = Append(d, x)
    BY <2>4, SequenceEmptyOrAppend
  <2>6. Len(d) \in Nat /\ Len(c) = Len(d) + 1
    BY <2>5, LenProperties, AppendProperties
  <2>7. BodyReads(f, d)
    <3>1. Len(d) \notin T
      BY <2>1, <2>2, <2>3, <2>6
    <3>2. QED
      BY <2>6, <3>1 DEF T
  <2>8. Body(c) = Body(d) \o Escaped(x)
    <3>1. FlattenSeq(Mapped(EscapedBy, Append(d, x)))
            = FlattenSeq(Mapped(EscapedBy, d)) \o EscapedBy[x]
      BY <2>5, EscapesAreValues, MappedFlattens
    <3>2. EscapedBy[x] = Escaped(x)
      BY <2>5 DEF EscapedBy
    <3>3. QED
      BY <2>5, <3>1, <3>2, BodyIsMapped
  <2>9. Escaped(x) \in Seq(CodePoints) /\ Body(d) \in Seq(CodePoints)
    BY <2>5, <2>7, EscapedReads DEF BodyReads
  <2>10. Continues(InString(f, <<>>), Body(d), Escaped(x))
    BY <2>9, AfterConcat
  <2>11. After(InString(f, d), Escaped(x)) = InString(f, Append(d, x))
    BY <2>5, EscapedReads
  <2>12. Body(c) \in Seq(CodePoints)
    BY <2>8, <2>9, ConcatProperties
  <2>13. QED
    BY <2>3, <2>5, <2>7, <2>8, <2>10, <2>11, <2>12 DEF BodyReads, Continues
<1>2. Len(text) \in Nat
  BY LenProperties
<1>3. QED
  BY <1>1, <1>2

StringOf(text) == [is |-> "string", of |-> text]
Opens(r) == Advanced(r, Mark.quote) = InString(r.inside, <<>>)

LEMMA MarksAreCodes ==
    /\ \A c \in {Mark.quote, Mark.comma, Mark.colon, Brace.open, Brace.close,
                 Bracket.open, Bracket.close} : <<c>> \in Seq(CodePoints)
<1>1. \A c \in {34, 44, 58, 123, 125, 91, 93} : c \in CodePoints
  BY DEF CodePoints
<1>2. \A c \in CodePoints : <<c>> \in Seq(CodePoints)
  OBVIOUS
<1>3. QED
  BY <1>1, <1>2 DEF Mark, Brace, Bracket

\* Where a string may begin, a quoted text is read as that text.
LEMMA QuotedReads ==
    ASSUME NEW r, Opens(r), NEW text \in Seq(CodePoints)
    PROVE  /\ Quoted(text) \in Seq(CodePoints)
           /\ After(r, Quoted(text)) = Delivered(r.inside, StringOf(text))
<1> DEFINE q == <<Mark.quote>>
           b == Body(text)
           f == r.inside
<1>1. q \in Seq(CodePoints)
  BY MarksAreCodes
<1>2. b \in Seq(CodePoints) /\ After(InString(f, <<>>), b) = InString(f, text)
  BY EveryBodyReads DEF BodyReads
<1>3. Quoted(text) = (q \o b) \o q
  BY DEF Quoted, Body
<1>4. After(r, q) = InString(f, <<>>)
  BY AfterOne DEF Opens
<1>5. After(InString(f, text), q) = Delivered(f, StringOf(text))
  BY AfterOne, CharacterSteps DEF StringOf
<1> HIDE DEF q, b, f
<1>6. q \o b \in Seq(CodePoints) /\ Quoted(text) \in Seq(CodePoints)
  BY <1>1, <1>2, <1>3, ConcatProperties
<1>7. Continues(r, q, b) /\ Continues(r, q \o b, q)
  BY <1>1, <1>2, <1>6, AfterConcat
<1>8. QED
  BY <1>2, <1>3, <1>4, <1>5, <1>6, <1>7 DEF Continues, f

LEMMA WhereStringsBegin ==
    ASSUME NEW f
    PROVE  /\ Opens(Reader(f, "value")) /\ Opens(Reader(f, "item"))
           /\ Opens(Reader(f, "first"))
<1>1. Mark.quote = 34 /\ Bracket.close = 93 /\ Brace.close = 125
  BY DEF Mark, Bracket, Brace
<1>2. ~Closes(f, Mark.quote)
  BY <1>1 DEF Closes
<1>3. \A next : Reader(f, next).inside = f /\ Reader(f, next).next = next
  BY DEF Reader
<1>4. Opens(Reader(f, "value"))
  BY <1>3 DEF Opens, Advanced, ReadValueOf, Mark, Bracket, Brace
<1>5. Opens(Reader(f, "item"))
  BY <1>3 DEF Opens, Advanced, ReadItemOf
<1>6. Opens(Reader(f, "first"))
  BY <1>2, <1>3 DEF Opens, Advanced, ReadItemOf
<1>7. QED
  BY <1>4, <1>5, <1>6

-----------------------------------------------------------------------------
\* Values.  A text reads as a value when it does wherever a value is due.
IsReadAs(text, value) ==
    /\ text \in Seq(CodePoints)
    /\ \A f : After(Reader(f, "value"), text) = Delivered(f, value)

\* What a reader is inside of, as a record.
Around(is, list, due, key, f) ==
    [is |-> is, of |-> list, due |-> due, key |-> key, outer |-> f]

ListOf(f, texts) == [Inside("strings", f) EXCEPT !.of = texts]
InList(f, texts) ==
    Reader(ListOf(f, texts), IF texts = <<>> THEN "first" ELSE "separator")

\* What is written of each item of a list, its comma included.
Items(texts) == [i \in DOMAIN texts |-> Comma(i = 1) \o Quoted(texts[i])]

LEMMA QuotedType ==
    ASSUME NEW text \in Seq(CodePoints)
    PROVE  Quoted(text) \in Seq(CodePoints)
<1>1. Opens(Reader(0, "value"))
  BY WhereStringsBegin
<1>2. QED
  BY <1>1, QuotedReads

LEMMA ItemType ==
    ASSUME NEW text \in Seq(CodePoints), NEW first \in BOOLEAN
    PROVE  Comma(first) \in Seq(CodePoints) /\ Comma(first) \o Quoted(text) \in Seq(CodePoints)
<1>1. Comma(first) \in Seq(CodePoints)
  BY MarksAreCodes DEF Comma
<1>2. QED
  BY <1>1, QuotedType, ConcatProperties

LEMMA ItemsAppend ==
    ASSUME NEW texts \in Seq(Seq(CodePoints)), NEW text \in Seq(CodePoints)
    PROVE  /\ Items(texts) \in Seq(Seq(CodePoints))
           /\ Items(Append(texts, text))
                = Append(Items(texts), Comma(texts = <<>>) \o Quoted(text))
<1> DEFINE more == Append(texts, text)
           last == Comma(texts = <<>>) \o Quoted(text)
           S == Seq(CodePoints)
<1>1. /\ Len(texts) \in Nat /\ DOMAIN texts = 1..Len(texts)
      /\ \A i \in 1..Len(texts) : texts[i] \in S
  BY LenProperties, ElementOfSeq
<1>2. /\ Len(more) = Len(texts) + 1 /\ DOMAIN more = 1..(Len(texts) + 1)
      /\ \A i \in 1..Len(texts) : more[i] = texts[i]
      /\ more[Len(texts) + 1] = text
  BY <1>1, AppendProperties, LenProperties
<1>3. \A i \in 1..Len(texts) : Comma(i = 1) \o Quoted(texts[i]) \in S
  BY <1>1, ItemType
<1>4. Items(texts) \in Seq(S) /\ Len(Items(texts)) = Len(texts)
  <2>1. Items(texts) \in [1..Len(texts) -> S]
    BY <1>1, <1>3 DEF Items
  <2>2. QED
    BY <1>1, <2>1 DEF Items
<1>5. last \in S
  BY ItemType
<1>6. (Len(texts) + 1 = 1) = (texts = <<>>)
  BY <1>1, EmptySeq
<1> HIDE DEF more, last, S
<1>7. Items(more) = [i \in 1..(Len(texts) + 1) |-> Comma(i = 1) \o Quoted(more[i])]
  BY <1>2 DEF Items
<1>8. Items(more)[Len(texts) + 1] = last
  <2>1. Items(more)[Len(texts) + 1]
          = Comma(Len(texts) + 1 = 1) \o Quoted(more[Len(texts) + 1])
    BY <1>1, <1>7
  <2>2. QED
    BY Zenon, <1>2, <1>6, <2>1 DEF last
<1>9. ASSUME NEW i \in 1..Len(texts)
      PROVE  Items(more)[i] = Items(texts)[i]
  <2>1. i \in 1..(Len(texts) + 1)
    BY <1>1
  <2>2. Items(more)[i] = Comma(i = 1) \o Quoted(more[i])
    BY <1>7, <2>1
  <2>3. Items(texts)[i] = Comma(i = 1) \o Quoted(texts[i])
    BY <1>1 DEF Items
  <2>4. QED
    BY <1>2, <2>2, <2>3
<1>10. Items(more) \in Seq(S) /\ Len(Items(more)) = Len(texts) + 1
  <2>1. \A i \in 1..(Len(texts) + 1) : Comma(i = 1) \o Quoted(more[i]) \in S
    <3>1. \A i \in 1..(Len(texts) + 1) : more[i] \in Seq(CodePoints)
      BY <1>1, <1>2 DEF S
    <3>2. QED
      BY <3>1, ItemType DEF S
  <2>2. Items(more) \in [1..(Len(texts) + 1) -> S]
    BY <1>7, <2>1
  <2>3. QED
    <3> DEFINE n == Len(texts) + 1
               it == Items(more)
    <3>1. n \in Nat /\ it \in [1..n -> S]
      BY <1>1, <2>2
    <3> HIDE DEF n, it
    <3>2. it \in Seq(S) /\ Len(it) = n
      BY <3>1
    <3>3. QED
      BY <3>2 DEF n, it
<1>11. /\ Append(Items(texts), last) \in Seq(S)
       /\ Len(Append(Items(texts), last)) = Len(texts) + 1
       /\ \A i \in 1..Len(texts) : Append(Items(texts), last)[i] = Items(texts)[i]
       /\ Append(Items(texts), last)[Len(texts) + 1] = last
  BY <1>4, <1>5, AppendProperties
<1>12. \A i \in 1..(Len(texts) + 1) : Items(more)[i] = Append(Items(texts), last)[i]
  <2>1. \A i \in 1..(Len(texts) + 1) : i \in 1..Len(texts) \/ i = Len(texts) + 1
    BY <1>1
  <2>2. QED
    BY <1>8, <1>9, <1>11, <2>1
<1>13. Items(more) = Append(Items(texts), last)
  BY <1>10, <1>11, <1>12, SeqEqual
<1>14. QED
  BY <1>4, <1>13 DEF more, last, S

\* A comma between two, and nothing before the first.
LEMMA CommaSteps ==
    ASSUME NEW f, f.is \in {"strings", "object"}
    PROVE  /\ Advanced(Reader(f, "separator"), Mark.comma) = Reader(f, "item")
           /\ \A c : Closes(f, c) =>
                /\ Advanced(Reader(f, "separator"), c) = Closed(f)
                /\ Advanced(Reader(f, "first"), c) = Closed(f)
<1>1. \A next : Reader(f, next).inside = f /\ Reader(f, next).next = next
  BY DEF Reader
<1>2. ~Closes(f, Mark.comma)
  BY DEF Closes, Mark, Bracket, Brace
<1>3. Advanced(Reader(f, "separator"), Mark.comma) = Reader(f, "item")
  BY <1>1, <1>2 DEF Advanced
<1>4. ASSUME NEW c, Closes(f, c)
      PROVE  /\ Advanced(Reader(f, "separator"), c) = Closed(f)
             /\ Advanced(Reader(f, "first"), c) = Closed(f)
  BY <1>1, <1>4 DEF Advanced
<1>5. QED
  BY <1>3, <1>4

LEMMA BehindComma ==
    ASSUME NEW f, f.is \in {"strings", "object"}, NEW first \in BOOLEAN
    PROVE  After(Reader(f, IF first THEN "first" ELSE "separator"), Comma(first))
             = Reader(f, IF first THEN "first" ELSE "item")
<1>1. CASE first
  BY <1>1, AfterNothing DEF Comma
<1>2. CASE ~first
  BY <1>2, AfterOne, CommaSteps DEF Comma
<1>3. QED
  BY <1>1, <1>2

ListReads(f, texts) ==
    /\ FlattenSeq(Items(texts)) \in Seq(CodePoints)
    /\ After(InList(f, <<>>), FlattenSeq(Items(texts))) = InList(f, texts)

\* A quoted string is one more item of a list.
LEMMA ItemReads ==
    ASSUME NEW f, NEW texts \in Seq(Seq(CodePoints)), NEW text \in Seq(CodePoints)
    PROVE  /\ Comma(texts = <<>>) \o Quoted(text) \in Seq(CodePoints)
           /\ After(InList(f, texts), Comma(texts = <<>>) \o Quoted(text))
                = InList(f, Append(texts, text))
<1> DEFINE list == ListOf(f, texts)
           first == texts = <<>>
           between == Reader(list, IF first THEN "first" ELSE "item")
<1>1. list.is = "strings" /\ list.due = "value" /\ list.of = texts
  BY DEF ListOf, Inside, Due
<1>2. Delivered(list, StringOf(text)) = Reader(ListOf(f, Append(texts, text)), "separator")
  <2>1. Grown(list, StringOf(text)) = Append(texts, text)
    BY <1>1 DEF Grown, StringOf
  <2>2. [list EXCEPT !.due = Due(list.is), !.key = <<>>, !.of = Append(texts, text)]
          = ListOf(f, Append(texts, text))
    <3> DEFINE none == <<>>
               more == Append(texts, text)
    <3>1. \A t : ListOf(f, t) = Around("strings", t, "value", none, f)
      BY DEF ListOf, Inside, Due, Around
    <3>2. Due(list.is) = "value"
      BY <1>1 DEF Due
    <3> HIDE DEF none, more
    <3>3. [Around("strings", texts, "value", none, f)
              EXCEPT !.due = "value", !.key = none, !.of = more]
            = Around("strings", more, "value", none, f)
      <4>1. [Around("strings", texts, "value", none, f) EXCEPT !.due = "value"]
              = Around("strings", texts, "value", none, f)
        BY DEF Around
      <4>2. [Around("strings", texts, "value", none, f) EXCEPT !.key = none]
              = Around("strings", texts, "value", none, f)
        BY DEF Around
      <4>3. [Around("strings", texts, "value", none, f) EXCEPT !.of = more]
              = Around("strings", more, "value", none, f)
        BY DEF Around
      <4>4. QED
        BY <4>1, <4>2, <4>3
    <3>4. QED
      BY Zenon, <3>1, <3>2, <3>3 DEF none, more
  <2>3. QED
    BY <1>1, <2>1, <2>2 DEF Delivered
<1>3. Append(texts, text) # <<>>
  <2> DEFINE more == Append(texts, text)
             none == <<>>
  <2>1. Len(texts) \in Nat /\ Len(more) = Len(texts) + 1 /\ Len(none) = 0
    BY LenProperties, AppendProperties
  <2> HIDE DEF more, none
  <2>2. more # none
    BY <2>1
  <2>3. QED
    BY <2>2 DEF more, none
<1>4. After(InList(f, texts), Comma(first)) = between
  <2>1. InList(f, texts) = Reader(list, IF first THEN "first" ELSE "separator")
    BY DEF InList
  <2>2. first \in BOOLEAN
    OBVIOUS
  <2> HIDE DEF list, first
  <2>3. QED
    BY <1>1, <2>1, <2>2, BehindComma
<1>5. Opens(between) /\ between.inside = list
  BY WhereStringsBegin DEF Reader
<1> HIDE DEF between, list
<1>6. After(between, Quoted(text)) = Delivered(list, StringOf(text))
  BY <1>5, QuotedReads
<1>7. InList(f, Append(texts, text)) = Reader(ListOf(f, Append(texts, text)), "separator")
  BY <1>3 DEF InList
<1>8. Comma(first) \in Seq(CodePoints) /\ Quoted(text) \in Seq(CodePoints)
  BY ItemType, QuotedType
<1>9. Continues(InList(f, texts), Comma(first), Quoted(text))
  BY <1>8, AfterConcat
<1>10. Comma(first) \o Quoted(text) \in Seq(CodePoints)
  BY ItemType
<1>11. QED
  BY <1>2, <1>4, <1>6, <1>7, <1>9, <1>10 DEF Continues

LEMMA EveryListReads ==
    ASSUME NEW f, NEW texts \in Seq(Seq(CodePoints))
    PROVE  ListReads(f, texts)
<1> DEFINE S == Seq(CodePoints)
           T == {n \in Nat : \E c \in Seq(S) : Len(c) = n /\ ~ListReads(f, c)}
<1>1. ASSUME T # {} PROVE FALSE
  <2>1. T \in SUBSET Nat
    OBVIOUS
  <2> HIDE DEF T
  <2>2. PICK n \in T : \A m \in T : n <= m
    BY <1>1, <2>1, LeastNumber
  <2>3. PICK c \in Seq(S) : Len(c) = n /\ ~ListReads(f, c)
    BY <2>2 DEF T
  <2>4. c # <<>>
    <3>1. FlattenSeq(Items(<<>>)) = <<>>
      BY DEF Items, FlattenSeq
    <3>2. After(InList(f, <<>>), <<>>) = InList(f, <<>>) /\ <<>> \in Seq(CodePoints)
      BY AfterNothing
    <3>3. ListReads(f, <<>>)
      BY Zenon, <3>1, <3>2 DEF ListReads
    <3>4. QED
      BY <2>3, <3>3
  <2> HIDE DEF S
  <2>5. PICK d \in Seq(S), x \in S : c = Append(d, x)
    BY <2>4, SequenceEmptyOrAppend
  <2>6. Len(d) \in Nat /\ Len(c) = Len(d) + 1
    BY <2>5, LenProperties, AppendProperties
  <2>7. ListReads(f, d)
    <3>1. Len(d) \notin T
      BY <2>1, <2>2, <2>3, <2>6
    <3>2. QED
      BY <2>6, <3>1 DEF T
  <2> DEFINE last == Comma(d = <<>>) \o Quoted(x)
             before == FlattenSeq(Items(d))
  <2>8. /\ Items(d) \in Seq(Seq(CodePoints)) /\ Items(c) = Append(Items(d), last)
    BY <2>5, ItemsAppend DEF S
  <2>9. last \in Seq(CodePoints) /\ After(InList(f, d), last) = InList(f, c)
    BY <2>5, ItemReads DEF S
  <2>10. before \in Seq(CodePoints) /\ After(InList(f, <<>>), before) = InList(f, d)
    BY <2>7 DEF ListReads
  <2> HIDE DEF last
  <2>11. FlattenSeq(Items(c)) = before \o last
    BY <2>8, <2>9, FlattenAppend
  <2> HIDE DEF before
  <2>12. before \o last \in Seq(CodePoints)
    BY <2>9, <2>10, ConcatProperties
  <2>13. Continues(InList(f, <<>>), before, last)
    BY <2>9, <2>10, AfterConcat
  <2>14. QED
    BY <2>3, <2>9, <2>10, <2>11, <2>12, <2>13 DEF ListReads, Continues
<1>2. Len(texts) \in Nat
  BY LenProperties
<1>3. QED
  BY <1>1, <1>2

LEMMA ListingReads ==
    ASSUME NEW texts \in Seq(Seq(CodePoints))
    PROVE  IsReadAs(Listing(texts), [is |-> "strings", of |-> texts])
<1> DEFINE open == <<Bracket.open>>
           close == <<Bracket.close>>
           items == FlattenSeq(Items(texts))
<1>1. Listing(texts) = (open \o items) \o close
  BY DEF Listing, Items
<1>2. open \in Seq(CodePoints) /\ close \in Seq(CodePoints)
  BY MarksAreCodes
<1>3. items \in Seq(CodePoints)
  BY EveryListReads DEF ListReads
<1>4. ASSUME NEW f
      PROVE  /\ After(Reader(f, "value"), open) = InList(f, <<>>)
             /\ After(InList(f, <<>>), items) = InList(f, texts)
             /\ After(InList(f, texts), close)
                  = Delivered(f, [is |-> "strings", of |-> texts])
  <2>1. After(Reader(f, "value"), open) = InList(f, <<>>)
    <3>1. Advanced(Reader(f, "value"), Bracket.open) = Reader(Inside("strings", f), "first")
      BY DEF Reader, Advanced, ReadValueOf, Mark, Bracket, Brace
    <3>2. ListOf(f, <<>>) = Inside("strings", f)
      BY DEF ListOf, Inside
    <3>3. QED
      BY <3>1, <3>2, AfterOne DEF InList
  <2>2. After(InList(f, <<>>), items) = InList(f, texts)
    BY EveryListReads DEF ListReads
  <2>3. /\ ListOf(f, texts).is = "strings" /\ ListOf(f, texts).of = texts
        /\ ListOf(f, texts).outer = f
    BY DEF ListOf, Inside
  <2>4. Closes(ListOf(f, texts), Bracket.close)
    BY <2>3 DEF Closes
  <2>5. Advanced(InList(f, texts), Bracket.close) = Closed(ListOf(f, texts))
    BY <2>3, <2>4, CommaSteps DEF InList
  <2>6. Closed(ListOf(f, texts)) = Delivered(f, [is |-> "strings", of |-> texts])
    BY <2>3 DEF Closed
  <2>7. QED
    BY <2>1, <2>2, <2>5, <2>6, AfterOne
<1> HIDE DEF open, close, items
<1>5. open \o items \in Seq(CodePoints) /\ Listing(texts) \in Seq(CodePoints)
  BY <1>1, <1>2, <1>3, ConcatProperties
<1>6. ASSUME NEW f
      PROVE  After(Reader(f, "value"), Listing(texts))
               = Delivered(f, [is |-> "strings", of |-> texts])
  <2>1. /\ Continues(Reader(f, "value"), open, items)
        /\ Continues(Reader(f, "value"), open \o items, close)
    BY <1>2, <1>3, <1>5, AfterConcat
  <2>2. QED
    BY <1>1, <1>4, <2>1 DEF Continues
<1>7. QED
  BY <1>5, <1>6 DEF IsReadAs

-----------------------------------------------------------------------------
\* What AddMember writes of a value.
LEMMA ScalarReads ==
    ASSUME TextAssumption, NEW value \in WriterValues
    PROVE  IsReadAs(WrittenAs(value), value)
<1>1. CASE value \in [is : {"string"}, of : WriterTexts]
  <2>1. value.is = "string" /\ value.of \in Seq(CodePoints) /\ value = StringOf(value.of)
    BY <1>1 DEF TextAssumption, StringOf
  <2>2. WrittenAs(value) = Quoted(value.of)
    BY <2>1 DEF WrittenAs
  <2>3. \A f : Opens(Reader(f, "value")) /\ Reader(f, "value").inside = f
    BY WhereStringsBegin DEF Reader
  <2>4. \A f : After(Reader(f, "value"), Quoted(value.of)) = Delivered(f, StringOf(value.of))
    BY <2>1, <2>3, QuotedReads
  <2>5. QED
    BY <2>1, <2>2, <2>4, QuotedType DEF IsReadAs
<1>2. CASE value \in [is : {"boolean"}, of : BOOLEAN]
  <2> DEFINE c == IF value.of THEN 116 ELSE 102
  <2>1. /\ value.is = "boolean" /\ value.of \in BOOLEAN
        /\ value = [is |-> "boolean", of |-> value.of]
    BY <1>2
  <2>2. WrittenAs(value) = <<c>>
    BY <2>1 DEF WrittenAs
  <2>3. c \in {116, 102} /\ (c = 116) = value.of /\ c \in CodePoints
    BY <2>1 DEF CodePoints
  <2> HIDE DEF c
  <2>4. \A f : Advanced(Reader(f, "value"), c)
                 = Delivered(f, [is |-> "boolean", of |-> c = 116])
    BY <2>3 DEF Reader, Advanced, ReadValueOf, Mark, Bracket, Brace
  <2>5. \A f : After(Reader(f, "value"), <<c>>) = Delivered(f, value)
    BY <2>1, <2>3, <2>4, AfterOne
  <2>6. <<c>> \in Seq(CodePoints)
    BY <2>3
  <2>7. QED
    BY <2>2, <2>5, <2>6 DEF IsReadAs
<1>3. CASE value \in [is : {"integer"}, of : {7}]
  <2>1. value.is = "integer" /\ value = [is |-> "integer", of |-> 7] /\ value.of = 7
    BY <1>3
  <2>2. WrittenAs(value) = <<55>>
    BY <2>1 DEF WrittenAs
  <2>3. \A f : Advanced(Reader(f, "value"), 55) = Delivered(f, [is |-> "integer", of |-> 7])
    BY DEF Reader, Advanced, ReadValueOf, Mark, Bracket, Brace
  <2>4. \A f : After(Reader(f, "value"), <<55>>) = Delivered(f, value)
    BY <2>1, <2>3, AfterOne
  <2>5. <<55>> \in Seq(CodePoints)
    BY DEF CodePoints
  <2>6. QED
    BY <2>2, <2>4, <2>5 DEF IsReadAs
<1>4. CASE value \in [is : {"strings"}, of : WriterLists]
  <2>1. /\ value.is = "strings" /\ value.of \in Seq(Seq(CodePoints))
        /\ value = [is |-> "strings", of |-> value.of]
    BY <1>4 DEF TextAssumption
  <2>2. WrittenAs(value) = Listing(value.of)
    BY <2>1 DEF WrittenAs
  <2>3. QED
    BY <2>1, <2>2, ListingReads
<1>5. QED
  BY <1>1, <1>2, <1>3, <1>4 DEF WriterValues

-----------------------------------------------------------------------------
\* Objects under construction: wherever a value is due, the text of one takes
\* the reader into an object with the members added so far.
ObjectOf(f, list) == [Inside("object", f) EXCEPT !.of = list]
ObjectReads(o, list) ==
    /\ o = [buffer |-> o.buffer, empty |-> o.empty]
    /\ o.empty \in BOOLEAN /\ o.buffer \in Seq(CodePoints)
    /\ \A f : After(Reader(f, "value"), o.buffer)
                = Reader(ObjectOf(f, list), IF o.empty THEN "first" ELSE "separator")

LEMMA NewReads == ObjectReads(NewObject, <<>>)
<1> DEFINE open == <<Brace.open>>
<1>1. NewObject = [buffer |-> open, empty |-> TRUE] /\ open \in Seq(CodePoints)
  BY MarksAreCodes DEF NewObject
<1>2. ASSUME NEW f
      PROVE  After(Reader(f, "value"), open) = Reader(ObjectOf(f, <<>>), "first")
  <2>1. Advanced(Reader(f, "value"), Brace.open) = Reader(Inside("object", f), "first")
    BY DEF Reader, Advanced, ReadValueOf, Mark, Bracket, Brace
  <2>2. ObjectOf(f, <<>>) = Inside("object", f)
    BY DEF ObjectOf, Inside
  <2>3. QED
    BY <2>1, <2>2, AfterOne
<1> HIDE DEF open
<1>3. QED
  BY <1>1, <1>2 DEF ObjectReads

\* A key, a colon and the text of a value are one more member.
ObjectDue(f, list, key) == [ObjectOf(f, list) EXCEPT !.due = "value", !.key = key]

LEMMA MemberSteps ==
    ASSUME NEW f, NEW list, NEW key, NEW value
    PROVE  /\ ObjectOf(f, list).is = "object"
           /\ Delivered(ObjectOf(f, list), StringOf(key))
                = Reader(ObjectDue(f, list, key), "colon")
           /\ Advanced(Reader(ObjectDue(f, list, key), "colon"), Mark.colon)
                = Reader(ObjectDue(f, list, key), "value")
           /\ Delivered(ObjectDue(f, list, key), value)
                = Reader(ObjectOf(f, Append(list, [key |-> key, value |-> value])), "separator")
<1> DEFINE none == <<>>
           object == ObjectOf(f, list)
           due == ObjectDue(f, list, key)
           more == Append(list, [key |-> key, value |-> value])
<1>1. \A l : ObjectOf(f, l) = Around("object", l, "key", none, f)
  BY DEF ObjectOf, Inside, Due, Around
<1>2. due = Around("object", list, "value", key, f)
  <2> HIDE DEF none
  <2>1. [Around("object", list, "key", none, f) EXCEPT !.due = "value", !.key = key]
          = Around("object", list, "value", key, f)
    <3>1. [Around("object", list, "key", none, f) EXCEPT !.due = "value"]
            = Around("object", list, "value", none, f)
      BY DEF Around
    <3>2. [Around("object", list, "value", none, f) EXCEPT !.key = key]
            = Around("object", list, "value", key, f)
      BY DEF Around
    <3>3. QED
      BY <3>1, <3>2
  <2>2. QED
    BY Zenon, <1>1, <2>1 DEF ObjectDue
<1>3. object.is = "object" /\ object.due = "key"
  BY <1>1 DEF Around
<1>4. Delivered(object, StringOf(key)) = Reader(due, "colon")
  BY <1>3 DEF Delivered, ObjectDue, StringOf
<1>5. Advanced(Reader(due, "colon"), Mark.colon) = Reader(due, "value")
  BY DEF Reader, Advanced
<1> HIDE DEF none, object, due
<1>6. Grown(due, value) = more
  BY <1>2 DEF Grown, Around
<1>7. Due("object") = "key"
  BY DEF Due
<1> HIDE DEF more
<1>8. [due EXCEPT !.due = "key", !.key = none, !.of = more]
        = Around("object", more, "key", none, f)
  <2>1. [Around("object", list, "value", key, f)
            EXCEPT !.due = "key", !.key = none, !.of = more]
          = Around("object", more, "key", none, f)
    <3>1. [Around("object", list, "value", key, f) EXCEPT !.due = "key"]
            = Around("object", list, "key", key, f)
      BY DEF Around
    <3>2. [Around("object", list, "key", key, f) EXCEPT !.key = none]
            = Around("object", list, "key", none, f)
      BY DEF Around
    <3>3. [Around("object", list, "key", none, f) EXCEPT !.of = more]
            = Around("object", more, "key", none, f)
      BY DEF Around
    <3>4. QED
      BY <3>1, <3>2, <3>3
  <2>2. QED
    BY Zenon, <1>2, <2>1
<1>9. due.is = "object" /\ due.due = "value"
  BY <1>2 DEF Around
<1>10. Delivered(due, value) = Reader(ObjectOf(f, more), "separator")
  <2>1. Delivered(due, value)
          = Reader([due EXCEPT !.due = "key", !.key = none, !.of = more], "separator")
    BY <1>6, <1>7, <1>9 DEF Delivered, none
  <2>2. QED
    BY <1>1, <1>8, <2>1
<1>11. QED
  BY <1>3, <1>4, <1>5, <1>10 DEF object, due, more

LEMMA WithReads ==
    ASSUME NEW o, NEW list, ObjectReads(o, list), NEW key \in Seq(CodePoints),
           NEW text, NEW value, IsReadAs(text, value)
    PROVE  ObjectReads(WithMember(o, key, text),
                       Append(list, [key |-> key, value |-> value]))
<1> DEFINE more == Append(list, [key |-> key, value |-> value])
           b0 == o.buffer
           b1 == b0 \o Comma(o.empty)
           b2 == b1 \o Quoted(key)
           colon == <<Mark.colon>>
           b3 == b2 \o colon
           b4 == b3 \o text
<1>1. WithMember(o, key, text) = [buffer |-> b4, empty |-> FALSE]
  BY DEF WithMember
<1>2. /\ b0 \in Seq(CodePoints) /\ Comma(o.empty) \in Seq(CodePoints)
      /\ Quoted(key) \in Seq(CodePoints) /\ colon \in Seq(CodePoints)
      /\ text \in Seq(CodePoints)
  BY ItemType, QuotedType, MarksAreCodes DEF ObjectReads, IsReadAs
<1> HIDE DEF colon, b0
<1>3. b1 \in Seq(CodePoints)
  BY <1>2, ConcatProperties
<1> HIDE DEF b1
<1>4. b2 \in Seq(CodePoints)
  BY <1>2, <1>3, ConcatProperties
<1> HIDE DEF b2
<1>5. b3 \in Seq(CodePoints)
  BY <1>2, <1>4, ConcatProperties
<1> HIDE DEF b3
<1>6. b4 \in Seq(CodePoints)
  BY <1>2, <1>5, ConcatProperties
<1>7. ASSUME NEW f
      PROVE  After(Reader(f, "value"), b4) = Reader(ObjectOf(f, more), "separator")
  <2> DEFINE r == Reader(f, "value")
             object == ObjectOf(f, list)
             due == ObjectDue(f, list, key)
             begun == Reader(object, IF o.empty THEN "first" ELSE "item")
  <2>1. After(r, b0) = Reader(object, IF o.empty THEN "first" ELSE "separator")
    BY DEF ObjectReads, b0
  <2>2. /\ Continues(r, b0, Comma(o.empty)) /\ Continues(r, b1, Quoted(key))
        /\ Continues(r, b2, colon) /\ Continues(r, b3, text)
    BY <1>2, <1>3, <1>4, <1>5, AfterConcat
  <2>3. object.is = "object" /\ o.empty \in BOOLEAN
    BY MemberSteps DEF ObjectReads
  <2>4. Opens(begun) /\ begun.inside = object
    BY WhereStringsBegin DEF Reader
  <2>5. /\ Delivered(object, StringOf(key)) = Reader(due, "colon")
        /\ Advanced(Reader(due, "colon"), Mark.colon) = Reader(due, "value")
        /\ Delivered(due, value) = Reader(ObjectOf(f, more), "separator")
    BY MemberSteps
  <2> HIDE DEF r, object, due, more
  <2>6. After(Reader(object, IF o.empty THEN "first" ELSE "separator"), Comma(o.empty)) = begun
    BY <2>3, BehindComma
  <2> HIDE DEF begun
  <2>7. After(r, b1) = begun
    BY <2>1, <2>2, <2>6 DEF Continues, b1
  <2>8. After(begun, Quoted(key)) = Reader(due, "colon")
    BY <2>4, <2>5, QuotedReads
  <2>9. After(r, b2) = Reader(due, "colon")
    BY <2>2, <2>7, <2>8 DEF Continues, b2
  <2>10. After(Reader(due, "colon"), colon) = Reader(due, "value")
    BY <2>5, AfterOne DEF colon
  <2>11. After(r, b3) = Reader(due, "value")
    BY <2>2, <2>9, <2>10 DEF Continues, b3
  <2>12. After(Reader(due, "value"), text) = Delivered(due, value)
    BY DEF IsReadAs
  <2>13. After(r, b4) = Reader(ObjectOf(f, more), "separator")
    BY <2>2, <2>5, <2>11, <2>12 DEF Continues
  <2>14. QED
    BY <2>13 DEF r
<1> HIDE DEF b4, more
<1>8. ObjectReads(WithMember(o, key, text), more)
  BY <1>1, <1>6, <1>7 DEF ObjectReads
<1>9. QED
  BY <1>8 DEF more

LEMMA FinishedReads ==
    ASSUME NEW o, NEW list, ObjectReads(o, list)
    PROVE  IsReadAs(Finished(o), [is |-> "object", of |-> list])
<1> DEFINE close == <<Brace.close>>
           b == o.buffer
<1>1. Finished(o) = b \o close
  BY DEF Finished
<1>2. b \in Seq(CodePoints) /\ close \in Seq(CodePoints)
  BY MarksAreCodes DEF ObjectReads
<1>3. ASSUME NEW f
      PROVE  After(Reader(f, "value"), b \o close)
               = Delivered(f, [is |-> "object", of |-> list])
  <2> DEFINE object == ObjectOf(f, list)
             end == Reader(object, IF o.empty THEN "first" ELSE "separator")
  <2>1. After(Reader(f, "value"), b) = end /\ o.empty \in BOOLEAN
    BY DEF ObjectReads
  <2>2. object.is = "object" /\ object.of = list /\ object.outer = f
    BY DEF ObjectOf, Inside
  <2>3. Closes(object, Brace.close)
    BY <2>2 DEF Closes
  <2>4. Closed(object) = Delivered(f, [is |-> "object", of |-> list])
    BY <2>2 DEF Closed
  <2> HIDE DEF object
  <2>5. Advanced(end, Brace.close) = Closed(object)
    BY <2>1, <2>2, <2>3, CommaSteps
  <2>6. After(end, close) = Closed(object)
    BY <2>5, AfterOne
  <2> HIDE DEF close, b, end
  <2>7. Continues(Reader(f, "value"), b, close)
    BY <1>2, AfterConcat
  <2>8. QED
    BY <2>1, <2>4, <2>6, <2>7 DEF Continues
<1> HIDE DEF close, b
<1>4. b \o close \in Seq(CodePoints)
  BY <1>2, ConcatProperties
<1>5. QED
  BY <1>1, <1>3, <1>4 DEF IsReadAs

-----------------------------------------------------------------------------
\* What was added to each object is what its text reads as.
Objects == [buffer : Seq(CodePoints), empty : BOOLEAN]
Histories == \E S : members \in Seq(S)
WriterInv ==
    /\ objects \in Seq(Objects) /\ objects # <<>> /\ Histories
    /\ Len(members) = Len(objects)
    /\ \A i \in 1..Len(objects) : ObjectReads(objects[i], members[i])
    /\ written # <<>> => Len(objects) = 1 /\ written = Finished(objects[1])

LEMMA ObjectType ==
    ASSUME NEW o, NEW list, ObjectReads(o, list)
    PROVE  o \in Objects
BY DEF ObjectReads, Objects

LEMMA WriterStarts ==
    WriterInit => WriterInv
<1> SUFFICES ASSUME WriterInit PROVE WriterInv
  OBVIOUS
<1> DEFINE none == <<>>
<1>1. objects = <<NewObject>> /\ members = <<none>> /\ written = <<>>
  BY DEF WriterInit
<1>2. ObjectReads(NewObject, none)
  BY NewReads
<1>3. NewObject \in Objects
  BY <1>2, ObjectType
<1> HIDE DEF none
<1>4. members \in Seq({none}) /\ Len(members) = 1 /\ members[1] = none
  BY <1>1
<1>5. objects \in Seq(Objects) /\ Len(objects) = 1 /\ objects[1] = NewObject
  BY <1>1, <1>3
<1>6. objects # <<>>
  BY <1>5
<1>7. Histories
  BY <1>4 DEF Histories
<1>8. QED
  BY <1>1, <1>2, <1>4, <1>5, <1>6, <1>7 DEF WriterInv

\* The object at the end of some gets a member.
LEMMA LastGrows ==
    ASSUME NEW os \in Seq(Objects), NEW n \in Nat \ {0}, Len(os) = n,
           NEW S, NEW ms \in Seq(S), Len(ms) = n,
           \A i \in 1..n : ObjectReads(os[i], ms[i]),
           NEW key \in Seq(CodePoints), NEW text, NEW value, IsReadAs(text, value),
           objects' = [os EXCEPT ![n] = WithMember(@, key, text)],
           members' = [ms EXCEPT ![n] = Append(@, [key |-> key, value |-> value])],
           written' = <<>>
    PROVE  WriterInv'
<1> DEFINE o == WithMember(os[n], key, text)
           l == Append(ms[n], [key |-> key, value |-> value])
<1>1. ObjectReads(o, l)
  BY WithReads
<1>2. o \in Objects
  BY <1>1, ObjectType
<1>3. objects' = [os EXCEPT ![n] = o] /\ members' = [ms EXCEPT ![n] = l]
  OBVIOUS
<1> HIDE DEF o, l
<1>4. /\ objects' \in Seq(Objects) /\ Len(objects') = n
      /\ objects'[n] = o /\ \A i \in 1..n : i # n => objects'[i] = os[i]
  BY <1>2, <1>3
<1>5. /\ members' \in Seq(S \cup {l}) /\ Len(members') = n
      /\ members'[n] = l /\ \A i \in 1..n : i # n => members'[i] = ms[i]
  <2> DEFINE U == S \cup {l}
  <2>1. S \subseteq U /\ l \in U
    OBVIOUS
  <2>2. ms \in [1..n -> U]
    <3>1. \A i \in 1..n : ms[i] \in S
      BY ElementOfSeq
    <3>2. ms = [i \in 1..n |-> ms[i]]
      OBVIOUS
    <3>3. QED
      BY <2>1, <3>1, <3>2
  <2> HIDE DEF U
  <2>3. members' \in [1..n -> U]
    BY <1>3, <2>1, <2>2
  <2>4. members'[n] = l /\ \A i \in 1..n : i # n => members'[i] = ms[i]
    BY <1>3, <2>2
  <2>5. members' \in Seq(U) /\ Len(members') = n
    <3> DEFINE m == members'
    <3>1. m \in [1..n -> U]
      BY <2>3
    <3> HIDE DEF m
    <3>2. m \in Seq(U) /\ Len(m) = n
      BY <3>1
    <3>3. QED
      BY <3>2 DEF m
  <2>6. QED
    BY <2>4, <2>5 DEF U
<1>6. \A i \in 1..n : ObjectReads(objects'[i], members'[i])
  BY <1>1, <1>4, <1>5
<1>7. objects' # <<>>
  BY <1>4
<1>8. \E U : members' \in Seq(U)
  BY <1>5
<1>9. QED
  BY <1>4, <1>5, <1>6, <1>7, <1>8 DEF WriterInv, Histories

\* Adding a member, beginning an object, making it a member and finishing keep
\* what every object reads as.
LEMMA WriterContinues ==
    TextAssumption /\ WriterInv /\ [WriterNext]_writerVars => WriterInv'
<1> SUFFICES ASSUME TextAssumption, WriterInv, [WriterNext]_writerVars PROVE WriterInv'
  OBVIOUS
<1> DEFINE n == Len(objects)
<1>1. PICK S : members \in Seq(S)
  BY DEF WriterInv, Histories
<1>2. /\ objects \in Seq(Objects) /\ n \in Nat \ {0} /\ Len(members) = n
      /\ \A i \in 1..n : ObjectReads(objects[i], members[i])
      /\ written # <<>> => n = 1 /\ written = Finished(objects[1])
  BY LenProperties, EmptySeq DEF WriterInv
<1>3. ASSUME NEW key \in WriterKeys, NEW value \in WriterValues, AddMember(key, value)
      PROVE  WriterInv'
  <2>1. key \in Seq(CodePoints) /\ IsReadAs(WrittenAs(value), value)
    BY ScalarReads DEF TextAssumption
  <2>2. /\ objects' = [objects EXCEPT ![n] = WithMember(@, key, WrittenAs(value))]
        /\ members' = [members EXCEPT ![n] = Append(@, [key |-> key, value |-> value])]
        /\ written' = <<>>
    BY <1>3 DEF AddMember, Innermost
  <2> HIDE DEF n
  <2>3. Len(objects) = n
    BY DEF n
  <2>4. QED
    BY <1>1, <1>2, <2>1, <2>2, <2>3, LastGrows
<1>4. ASSUME BeginObject
      PROVE  WriterInv'
  <2> DEFINE none == <<>>
  <2>1. /\ objects' = Append(objects, NewObject) /\ members' = Append(members, none)
        /\ written' = <<>>
    BY <1>4 DEF BeginObject
  <2>2. ObjectReads(NewObject, none)
    BY NewReads
  <2>3. NewObject \in Objects
    BY <2>2, ObjectType
  <2> HIDE DEF none
  <2>4. /\ objects' \in Seq(Objects) /\ Len(objects') = n + 1
        /\ \A i \in 1..n : objects'[i] = objects[i]
        /\ objects'[n + 1] = NewObject
    BY <1>2, <2>1, <2>3, AppendProperties
  <2>5. /\ members' \in Seq(S \cup {none}) /\ Len(members') = n + 1
        /\ \A i \in 1..n : members'[i] = members[i]
        /\ members'[n + 1] = none
    <3> DEFINE U == S \cup {none}
    <3>1. members \in Seq(U)
      BY <1>1
    <3>2. none \in U
      OBVIOUS
    <3> HIDE DEF U
    <3>3. /\ members' \in Seq(U) /\ Len(members') = n + 1
          /\ \A i \in 1..n : members'[i] = members[i]
          /\ members'[n + 1] = none
      BY <1>2, <2>1, <3>1, <3>2, AppendProperties
    <3>4. QED
      BY <3>3 DEF U
  <2>6. \A i \in 1..(n + 1) : ObjectReads(objects'[i], members'[i])
    <3>1. \A i \in 1..(n + 1) : i \in 1..n \/ i = n + 1
      BY <1>2
    <3>2. QED
      BY <1>2, <2>2, <2>4, <2>5, <3>1
  <2>7. objects' # <<>>
    BY <1>2, <2>4
  <2>8. \E U : members' \in Seq(U)
    BY <2>5
  <2>9. QED
    BY <2>1, <2>4, <2>5, <2>6, <2>7, <2>8 DEF WriterInv, Histories
<1>5. ASSUME NEW key \in WriterKeys, AddObject(key)
      PROVE  WriterInv'
  <2> DEFINE os == Front(objects)
             ms == Front(members)
             text == Finished(Last(objects))
             value == [is |-> "object", of |-> Last(members)]
  <2>1. /\ n > 1 /\ written' = <<>>
        /\ objects' = [os EXCEPT ![n - 1] = WithMember(@, key, text)]
        /\ members' = [ms EXCEPT ![n - 1] = Append(@, [key |-> key, value |-> value])]
    BY <1>5 DEF AddObject, Innermost
  <2>2. /\ os \in Seq(Objects) /\ Len(os) = n - 1
        /\ \A i \in 1..(n - 1) : os[i] = objects[i]
    BY <1>2, <2>1, SubSeqProperties DEF Front
  <2>3. /\ ms \in Seq(S) /\ Len(ms) = n - 1
        /\ \A i \in 1..(n - 1) : ms[i] = members[i]
    BY <1>1, <1>2, <2>1, SubSeqProperties DEF Front
  <2>4. Last(objects) = objects[n] /\ Last(members) = members[n]
    BY <1>2 DEF Last
  <2>5. IsReadAs(text, value)
    BY <1>2, <2>4, FinishedReads
  <2>6. \A i \in 1..(n - 1) : ObjectReads(os[i], ms[i])
    <3>1. \A i \in 1..(n - 1) : i \in 1..n
      BY <1>2
    <3> HIDE DEF os, ms, n
    <3>2. QED
      BY <1>2, <2>2, <2>3, <3>1
  <2>7. key \in Seq(CodePoints) /\ n - 1 \in Nat \ {0}
    <3>1. key \in Seq(CodePoints)
      BY DEF TextAssumption
    <3>2. n - 1 \in Nat \ {0}
      BY <1>2, <2>1
    <3>3. QED
      BY <3>1, <3>2
  <2> HIDE DEF os, ms, text, value, n
  <2>8. QED
    BY <2>1, <2>2, <2>3, <2>5, <2>6, <2>7, LastGrows
<1>6. ASSUME FinishObject
      PROVE  WriterInv'
  <2>1. /\ n = 1 /\ written' = Finished(objects[1])
        /\ objects' = objects /\ members' = members
    BY <1>6 DEF FinishObject, Innermost
  <2>2. QED
    BY <1>1, <1>2, <2>1 DEF WriterInv, Histories
<1>7. ASSUME UNCHANGED writerVars
      PROVE  WriterInv'
  BY <1>7 DEF writerVars, WriterInv, Histories
<1>8. QED
  BY <1>3, <1>4, <1>5, <1>6, <1>7 DEF WriterNext

\* A finished text takes the reader behind one value: the outermost object.
LEMMA FinishedIsRead ==
    WriterInv => ReadsBack
<1> SUFFICES ASSUME WriterInv, written # <<>>
             PROVE  /\ After(Reader(Inside("text", 0), "value"), written).next = "separator"
                    /\ After(Reader(Inside("text", 0), "value"), written).inside.is = "text"
                    /\ After(Reader(Inside("text", 0), "value"), written).inside.of
                         = <<[is |-> "object", of |-> members[1]]>>
  BY DEF ReadsBack
<1> DEFINE value == [is |-> "object", of |-> members[1]]
           outside == Inside("text", 0)
<1>1. written = Finished(objects[1]) /\ ObjectReads(objects[1], members[1])
  BY DEF WriterInv
<1>2. After(Reader(outside, "value"), written) = Delivered(outside, value)
  BY <1>1, FinishedReads DEF IsReadAs
<1>3. /\ outside.is = "text" /\ outside.due = "value" /\ outside.of = <<>>
      /\ DOMAIN outside = {"is", "of", "due", "key", "outer"}
  BY DEF Inside, Due
<1> HIDE DEF outside
<1>4. Grown(outside, value) = Append(<<>>, value)
  BY <1>3 DEF Grown
<1> HIDE DEF value
<1>5. Append(<<>>, value) = <<value>>
  OBVIOUS
<1>6. /\ Delivered(outside, value).next = "separator"
      /\ Delivered(outside, value).inside.is = "text"
      /\ Delivered(outside, value).inside.of = <<value>>
  <2> DEFINE grown == <<value>>
             behind == [outside EXCEPT !.due = Due(outside.is), !.key = <<>>, !.of = grown]
  <2>1. Delivered(outside, value) = Reader(behind, "separator")
    BY <1>3, <1>4, <1>5 DEF Delivered
  <2> HIDE DEF grown
  <2>2. behind.is = "text" /\ behind.of = grown
    BY <1>3
  <2> HIDE DEF behind
  <2>3. Reader(behind, "separator").inside = behind
        /\ Reader(behind, "separator").next = "separator"
    BY DEF Reader
  <2>4. QED
    BY <2>1, <2>2, <2>3 DEF grown
<1>7. QED
  BY <1>2, <1>6 DEF value, outside

\* Whatever is added, in whatever order and nested however deep, and whatever
\* the strings are, the JSON that is written is one object and reads as what
\* was added and as nothing else (crates/ofw-cli/src/json.rs).
THEOREM WrittenReadsBack == TextAssumption => (WriterSpec => []ReadsBack)
<1> SUFFICES ASSUME TextAssumption PROVE WriterSpec => []ReadsBack
  OBVIOUS
<1>1. WriterInit => WriterInv
  BY WriterStarts
<1>2. WriterInv /\ [WriterNext]_writerVars => WriterInv'
  BY WriterContinues
<1>3. WriterInv => ReadsBack
  BY FinishedIsRead
<1>4. QED
  BY <1>1, <1>2, <1>3, PTL DEF WriterSpec
=============================================================================
