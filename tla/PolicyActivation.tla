-------------------------- MODULE PolicyActivation --------------------------
(***************************************************************************)
(* Loading supplied policy (crates/ofw-cli/src/policy.rs) while an         *)
(* operator edits the location: the directory is listed, its files are     *)
(* read one after another in path order, and what was read is composed     *)
(* into one snapshot or none.                                              *)
(*                                                                         *)
(* A file name is a number, so that path order is number order.  A file    *)
(* that parse_bundle rejects, the half-written content of an edit in       *)
(* place among them, is Damaged.  An edit before the listing begins is     *)
(* another initial state, and one after the last read changes nothing the  *)
(* process looks at again, so edits happen in between.                     *)
(***************************************************************************)
EXTENDS PolicyEngine

CONSTANTS
    Files,              \* names ending in .json a location may hold
    Links,              \* those that are not regular files when present
    Catalogue,          \* the bundles a file may hold
    Damaged,            \* content that does not parse as a bundle
    MaxBundleFiles,     \* MAX_BUNDLE_FILES
    MaxEdits            \* bound: edits of the operator during one activation

ASSUME FilesAssumption == Files \subseteq Nat /\ Links \subseteq Files
ASSUME CatalogueAssumption == Catalogue \subseteq Bundles
ASSUME DamagedAssumption == Damaged \notin Catalogue
ASSUME LimitsAssumption == MaxBundleFiles \in Nat /\ MaxEdits \in Nat

VARIABLES
    located,            \* whether OFW_POLICY_DIRECTORY is set
    directory,          \* content by name, for the names there are
    reader,             \* how far the activation has got
    unread,             \* the names listed and not yet read
    loaded,             \* the bundles read, by name
    activation,         \* PolicyActivation
    since               \* what happened to the location since the listing began

policyVars == <<located, directory, reader, unread, loaded, activation, since>>

Contents == Catalogue \cup {Damaged}
Names == DOMAIN directory

Pending == [healthy |-> FALSE, reason |-> "PENDING", policy |-> {}]
Healthy(policy) == [healthy |-> TRUE, reason |-> "NONE", policy |-> policy]
Unhealthy(reason) == [healthy |-> FALSE, reason |-> reason, policy |-> {}]

Empty == [f \in {} |-> {}]

\* What a location in state d says: the rules of its regular, whole files.
Whole(d) == {f \in DOMAIN d \ Links : d[f] # Damaged}
Says(d) == Compose([f \in Whole(d) |-> d[f]])

PolicyInit ==
    /\ located \in BOOLEAN
    /\ directory \in UNION {[names -> Contents] : names \in SUBSET Files}
    /\ reader = "before"
    /\ unread = {}
    /\ loaded = Empty
    /\ activation = Pending
    /\ since = [always |-> {}, ever |-> {}, unchanged |-> Empty,
                said |-> {}, edits |-> 0]
-----------------------------------------------------------------------------
\* The operator puts a file in place, leaves it half written, or removes it.
Edit(d) ==
    /\ reader \in {"listing", "reading"}
    /\ since.edits < MaxEdits
    /\ directory' = d
    /\ since' =
         [always |-> since.always \cap DOMAIN d,
          ever |-> IF reader = "listing" THEN since.ever \cup DOMAIN d ELSE {},
          unchanged |->
             [f \in {f \in DOMAIN since.unchanged \cap DOMAIN d :
                        d[f] = since.unchanged[f]} |-> d[f]],
          said |-> since.said \cup {Says(d)},
          edits |-> since.edits + 1]
    /\ UNCHANGED <<located, reader, unread, loaded, activation>>

Put(f, content) ==
    Edit([g \in Names \cup {f} |-> IF g = f THEN content ELSE directory[g]])

RemoveFile(f) ==
    /\ f \in Names
    /\ Edit([g \in Names \ {f} |-> directory[g]])

\* policy_activation without a location: a healthy policy of no bundles.
NoneConfigured ==
    /\ reader = "before" /\ ~located
    /\ reader' = "over"
    /\ activation' = Healthy(Compose(Empty))
    /\ UNCHANGED <<located, directory, unread, loaded, since>>

\* The location is opened for listing.
BeginListing ==
    /\ reader = "before" /\ located
    /\ reader' = "listing"
    /\ since' = [always |-> Names, ever |-> Names, unchanged |-> directory,
                 said |-> {Says(directory)}, edits |-> 0]
    /\ UNCHANGED <<located, directory, unread, loaded, activation>>

\* Every early return with a fault.
Fail(reason) ==
    /\ reader' = "over"
    /\ activation' = Unhealthy(reason)
    /\ UNCHANGED <<located, directory, unread, loaded, since>>

\* read_dir, an entry or its type cannot be read.
ListFails ==
    /\ reader \in {"before", "listing"} /\ located
    /\ Fail("POLICY_LOCATION_UNREADABLE")

\* bundle_paths.  A name that was there all along is seen; one that came or
\* went meanwhile may be.  What is not a regular file is passed over.
\* FollowLinks is the mutation that also takes links.
FollowLinks(seen) == seen
Regular(seen) == seen \ Links

List(seen) ==
    /\ reader = "listing"
    /\ since.always \subseteq seen /\ seen \subseteq since.ever
    /\ \/ /\ Cardinality(Regular(seen)) > MaxBundleFiles
          /\ Fail("POLICY_TOO_MANY_BUNDLES")
       \/ /\ Cardinality(Regular(seen)) <= MaxBundleFiles
          /\ reader' = "reading"
          /\ unread' = Regular(seen)
          /\ since' = [since EXCEPT !.always = {}, !.ever = {}]
          /\ UNCHANGED <<located, directory, loaded, activation>>

\* The next path in order.
IsNext(f) == f \in unread /\ \A g \in unread : f <= g

\* SkipDamaged is the mutation that goes on past a bundle that is invalid.
SkipDamaged(f) ==
    /\ unread' = unread \ {f}
    /\ UNCHANGED <<located, directory, reader, loaded, activation, since>>
RejectBundle(f) == Fail("POLICY_BUNDLE_INVALID")

\* std::fs::read and parse_bundle of one path.
ReadBundle(f) ==
    /\ reader = "reading" /\ IsNext(f)
    /\ f \in Names /\ directory[f] # Damaged
    /\ loaded' = [g \in DOMAIN loaded \cup {f} |->
                     IF g = f THEN directory[f] ELSE loaded[g]]
    /\ unread' = unread \ {f}
    /\ UNCHANGED <<located, directory, reader, activation, since>>

ReadInvalid(f) ==
    /\ reader = "reading" /\ IsNext(f)
    /\ f \in Names /\ directory[f] = Damaged
    /\ RejectBundle(f)

\* The file is gone, or cannot be read.
ReadFails(f) ==
    /\ reader = "reading" /\ IsNext(f)
    /\ Fail("POLICY_LOCATION_UNREADABLE")

\* EffectivePolicy::compose over everything that was read.
ComposeLoaded ==
    /\ reader = "reading" /\ unread = {}
    /\ \/ /\ Composes(loaded)
          /\ reader' = "over"
          /\ activation' = Healthy(Compose(loaded))
          /\ UNCHANGED <<located, directory, unread, loaded, since>>
       \/ /\ ~Composes(loaded)
          /\ Fail("POLICY_ACTIVATION_UNHEALTHY")

Activate ==
    \/ NoneConfigured
    \/ BeginListing
    \/ ListFails
    \/ \E seen \in SUBSET Files : List(seen)
    \/ \E f \in unread :
          ReadBundle(f) \/ ReadInvalid(f) \/ ReadFails(f)
    \/ ComposeLoaded

Operate ==
    \/ \E f \in Files, content \in Contents : Put(f, content)
    \/ \E f \in Files : RemoveFile(f)

PolicySpec == PolicyInit /\ [][Activate \/ Operate]_policyVars
-----------------------------------------------------------------------------
PolicyTypeOK ==
    /\ located \in BOOLEAN
    /\ Names \subseteq Files /\ \A f \in Names : directory[f] \in Contents
    /\ reader \in {"before", "listing", "reading", "over"}
    /\ unread \subseteq Files \ Links
    /\ DOMAIN loaded \subseteq Files \ Links
    /\ \A f \in DOMAIN loaded : loaded[f] \in Catalogue
    /\ activation.healthy \in BOOLEAN
    /\ activation.healthy /\ located => Composes(loaded)
    /\ reader # "over" <=> activation = Pending
    /\ DOMAIN since.unchanged \subseteq Files
    /\ since.always \subseteq Files /\ since.ever \subseteq Files
    /\ since.edits \in 0..MaxEdits

\* "A policy that failed to load is not an empty policy" (policy.rs): a
\* healthy snapshot of a location holds every regular file that nobody
\* touched during the activation, and holds it whole.
UntouchedBundlesLoaded ==
    activation.healthy /\ located =>
        \A f \in DOMAIN since.unchanged \ Links :
            /\ f \in DOMAIN loaded /\ loaded[f] = since.unchanged[f]
            /\ EffectiveRulesOf(since.unchanged[f]) \subseteq activation.policy

\* One edit in the course of an activation is seen entirely or not at all:
\* the snapshot is what the location said before it or after it.
SingleEditIsAtomic ==
    activation.healthy /\ located /\ since.edits <= 1
        => activation.policy \in since.said

=============================================================================
