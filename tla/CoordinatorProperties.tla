----------------------- MODULE CoordinatorProperties -----------------------
(***************************************************************************)
(* What the caches of the Coordinator promise to everyone who calls into   *)
(* it, stated for the call-stack machine of module Coordinator.            *)
(***************************************************************************)
EXTENDS Coordinator

\* activations of parseOptional whose AST exists, or is about to, but is not done
BuildPCs == {"types", "open", "import", "importing", "importTypes"}
OwnPCs == BuildPCs \cup {"enforcing"}
Depth == 1..Len(stack)
Building == {stack[i].file : i \in {d \in Depth : stack[d].pc \in BuildPCs}}
Owned == {stack[i].file : i \in {d \in Depth : stack[d].pc \in OwnPCs}}
Live == {f \in Files : cache[f] = "ast"}
Null == {f \in Files : cache[f] = "null"}
Accepted == Live \cup rejected      \* the files that were given an AST, freed or not

\* Every variable has its type.  (Coordinator.h, the members of Coordinator.)
TypeOK ==
    /\ tree \in DOMAIN Repos
    /\ queue \in Requests
    /\ turn \in 0..Len(queue)
    /\ status \in {"running", "done", "failed", "aborted"}
    /\ stack \in Seq(Frames)
    /\ ret \in Results
    /\ cache \in [Files -> {"absent", "null", "ast"}]
    /\ imported \in [Files -> SUBSET Files]
    /\ enforced \subseteq Packages
    /\ hashFiles \subseteq Roots
    /\ cleared \subseteq Files
    /\ readFiles \subseteq Files \cup Roots
    /\ rejected \subseteq Files

-----------------------------------------------------------------------------
(* The cache as a guard on the recursion.                                  *)

\* No file is parsed while it is being parsed: of the activations that got
\* past the lookup in mCache, no two are for the same file.
NoReentry ==
    \A i, j \in Depth :
        stack[i].pc \in OwnPCs /\ stack[j].pc \in OwnPCs
        /\ stack[i].file = stack[j].file => i = j

\* A null entry means "circular import OR that AST has errors in it".  Rules
\* must only ever meet the second kind: a parse that enforces never looks up a
\* file that is still being built, so it cannot take it for a broken one.
NoFalseCycle ==
    stack # <<>> /\ Top.pc = "find" /\ Top.enf # "NONE" => Top.file \notin Building

\* The null entry inserted before the imports are parsed stops a cycle, and
\* nothing but a cycle (Coordinator.cpp:226-241).
RecursionIsGuarded == NoReentry /\ NoFalseCycle

\* The lookups of postParse go through mImportedASTs: while a file is being
\* built, every AST it has imported is alive.
NoDanglingWhileBuilding ==
    \A f \in Building : imported[f] \subseteq Live

\* enforceMinorVersionUprevs keeps the Interface of the current file across
\* the parse of the last one, which may free ASTs.  It never frees that one.
CurrentStaysAlive ==
    \A i \in Depth : stack[i].pc = "last" =>
        File(stack[i].file.pkg, stack[i].k) \in Live

\* No activation that goes on finds that enforcement has freed an AST it holds.
AstsStayAlive == NoDanglingWhileBuilding /\ CurrentStaysAlive

-----------------------------------------------------------------------------
(* What a verdict in the cache says about the source tree.                 *)

\* does the import statement s work out if exactly the files of S are good?
ImportHolds(S, s) ==
    IF s.top = WholePackage
    THEN HasSources(s.pkg) /\ \A n \in Listing(s.pkg) : File(s.pkg, n) \in S
    ELSE LET f == File(s.pkg, s.top)
             t == TypesOf(s.pkg)
         IN  /\ Rooted(s.pkg)
             /\ \/ f \in S /\ (s.inner = NoInner \/ <<s.top, s.inner>> \in repo.defs[f])
                \/ ~Exists(f) /\ t \in S /\ <<s.top, s.inner>> \in repo.defs[t]

Justified(S, f) ==
    /\ Exists(f) /\ Rooted(f.pkg) /\ repo.text[f] = "good"
    /\ f.name # Types /\ Exists(TypesOf(f.pkg)) => TypesOf(f.pkg) \in S
    /\ \A k \in Statements(f) : ImportHolds(S, Statement(f, k))

\* Whenever a call returns, the files that were given an AST are justified from
\* the ground up: among any of them is one that is good by the others alone.  A
\* file on an import cycle, or one that imports a broken file however
\* indirectly, is not.  ("no circular dependency is already guaranteed by
\* parsing", getUnfrozenDependencies.)
LiveIsValid ==
    ret # "none" =>
        \A S \in (SUBSET Accepted) \ {{}} : \E f \in S : Justified(Accepted \ S, f)

\* Between two targets a null entry is an error and not a leftover of the
\* order of the lookups: the file could not be good given what is not null,
\* or its AST was freed because its package broke a rule.
NoSpuriousError ==
    stack = <<>> => \A f \in Null \ rejected : ~Justified(repo.files \ Null, f)

\* What the cache says of a file is right (Coordinator::parseOptional).
VerdictsAreRight == LiveIsValid /\ NoSpuriousError

\* A verdict sticks: a file found to be in error is never given an AST later.
StickyVerdict ==
    [][\A f \in Null \ Owned : cache'[f] = "null"]_vars

-----------------------------------------------------------------------------
(* What enforcement establishes.                                           *)

HashFileOf(p) == repo.current[Root(p)]

\* main parses every target with the same kind of enforcement
WithHashes == \A i \in DOMAIN queue : queue[i].enf = "FULL"

\* In a package that passed with hashes, no frozen file was changed and none
\* depends on something unfrozen.  It holds for a readable current.txt.
HashesHold ==
    WithHashes => \A p \in enforced : \A f \in {File(p, n) : n \in Listing(p)} :
        HashFileOf(p) = "valid" =>
            /\ repo.listed[f] # "mismatch"
            /\ repo.listed[f] = "match" =>
                  \A q \in ImportedPackages(f) : \A n \in Listing(q) :
                     LookedUp(File(q, n)) = "match"

\* The interface p::n extends the one of x.m, the latest version before p that
\* has one of this name: those between were asked for and could not be parsed.
ExtendsLatest(p, n, m) ==
    /\ SuperOf(File(p, n)) = LastOf(p, m, n)
    /\ {File(p, n), LastOf(p, m, n)} \subseteq Accepted
    /\ \A l \in (m + 1)..(p.minor - 1) : LastOf(p, l, n) \notin Live

\* In a package that passed, versions are not skipped, some interface extends the
\* one of the version just before, and every interface that has a predecessor
\* extends the latest.
UprevsHold ==
    \A p \in enforced : Earlier(p) # {} =>
        /\ PrevPackage(p) \in Earlier(p)
        /\ ~IsTypesOnly(PrevPackage(p)) =>
             /\ \E n \in Names : ExtendsLatest(p, n, p.minor - 1)
             /\ \A n \in Names \ {Types} :
                   /\ File(p, n) \in Live /\ SuperOf(File(p, n)) # NoFile
                   /\ \E m \in 0..(p.minor - 1) : LastOf(p, m, n) \in Live
                   => \E m \in 0..(p.minor - 1) : ExtendsLatest(p, n, m)

\* Every file of a package that passed with hashes was parsed without error.
EnforcedIsParsed ==
    WithHashes => \A p \in enforced : \A n \in Listing(p) : File(p, n) \in Accepted

\* A package that is recorded in mPackagesEnforced keeps all rules, although
\* its enforcement parsed files of others and enforced those in turn, and
\* passed over what it could not parse (enforceRestrictionsOnPackage).
RulesHold == HashesHold /\ UprevsHold /\ EnforcedIsParsed

\* The AST a target is answered with, and all it imports however indirectly
Intact(f) == \E S \in SUBSET Live : f \in S /\ \A g \in S : imported[g] \subseteq S

\* The generators follow references into imported ASTs.  What the first target
\* was parsed into is alive as a whole, although enforcement may have freed
\* other ASTs and the failure been swallowed ("WARNING: Skipping").
FirstTargetIsIntact == stack = <<>> /\ turn = 1 /\ ret = "ok" => Intact(queue[1].file)

\* Parsing and enforcing come to an end on every source tree, cyclic imports
\* and packages that depend on each other's hashes included.
Termination == <>(status # "running")

-----------------------------------------------------------------------------
(* What comments and assertions of the code say, and the code does not do. *)

\* "if (err != OK) CHECK(ret == nullptr);  // internal consistency" never aborts.
\* (Coordinator::parse)
InternalConsistency == status # "aborted"

\* parseOptional returns OK for an AST "successfully parsed" (Coordinator.h): any
\* target that is answered with one can be generated from it.
TargetsAreIntact == stack = <<>> /\ turn > 0 /\ ret = "ok" => Intact(queue[turn].file)

\* A package that is in mPackagesEnforced "won't need to be enforced again": none
\* of its files is freed.  (Coordinator::enforceRestrictionsOnPackage)
EnforcedIsLive ==
    WithHashes => \A p \in enforced : \A n \in Listing(p) : File(p, n) \in Live

\* "For each .hal file that hidl-gen parses, the whole package will be checked."
\* At the least, a run that succeeds has checked the packages of its targets.
\* (Coordinator::parseOptional)
WholePackageChecked ==
    status = "done" => \A i \in 1..Len(queue) : queue[i].file.pkg \in enforced
=============================================================================
