--------------------------- MODULE MCCoordinator ---------------------------
(***************************************************************************)
(* Small source trees of two families.  One differs in what imports what:  *)
(* every way to write an import, every way a file can be bad, and import   *)
(* cycles within and across packages.  The other differs in what the rules *)
(* on packages see: three minor versions of one package, which interfaces  *)
(* each has, what these extend, which files current.txt lists, one broken  *)
(* file, and a second package that each may need the other of.             *)
(***************************************************************************)
EXTENDS CoordinatorProperties

CONSTANTS RootA, RootBase

MCRoots == {RootA, RootBase}
A(m) == [base |-> "a", minor |-> m]
C == [base |-> "c", minor |-> 0]
Nowhere == [base |-> "nowhere", minor |-> 0]
MCBasePackage == [base |-> "hidl.base", minor |-> 0]
MCPackages == {MCBasePackage, A(0), A(1), A(2), C, Nowhere}

TA(m) == File(A(m), Types)
IA(m) == File(A(m), 1)
IB(m) == File(A(m), 2)
IX == File(C, 1)
IY == File(C, 2)

AnInner == CHOOSE t \in Inners : TRUE

\* import p;  import p::f;  import p::f.T
All(p) == [pkg |-> p, top |-> WholePackage, inner |-> NoInner]
One(f) == [pkg |-> f.pkg, top |-> f.name, inner |-> NoInner]
Inner(f) == [pkg |-> f.pkg, top |-> f.name, inner |-> AnInner]

\* good files that import nothing, of packages with nothing on record
Plain(dirs, there) ==
    [dirs |-> {MCBasePackage} \cup dirs,
     files |-> {IBase} \cup there,
     root |-> [b \in Bases |-> CASE b = "nowhere" -> NoRoot [] b = "hidl.base" -> RootBase
                                 [] OTHER -> RootA],
     imports |-> [f \in Files |-> <<>>],
     defs |-> [f \in Files |-> {}],
     text |-> [f \in Files |-> "good"],
     super |-> [f \in Files |-> IBase],
     listed |-> [f \in Files |-> IF f = IBase THEN "match" ELSE "absent"],
     current |-> [r \in Roots |-> IF r = RootA THEN "absent" ELSE "valid"]]

-----------------------------------------------------------------------------
\* a::Name2 is an interface where IB.hal exists, a type of types.hal elsewhere
ImportTree(ti, ai, bi, xi, text, there) ==
    [Plain({A(0), C}, there) EXCEPT
       !.imports = [f \in Files |-> CASE f = TA(0) -> ti [] f = IA(0) -> ai
                                      [] f = IB(0) -> bi [] f = IX -> xi [] OTHER -> <<>>],
       !.defs = [f \in Files |-> CASE f = TA(0) -> {<<2, NoInner>>, <<3, NoInner>>}
                                   [] f = IX -> {<<1, AnInner>>} [] OTHER -> {}],
       !.text = [f \in Files |-> IF f \in DOMAIN text THEN text[f] ELSE "good"]]

AllFiles == {TA(0), IA(0), IB(0), IX}
Lone(f) == {<<>>, <<One(f)>>}
Texts == {<<>>} \cup {[f \in {g} |-> t] : g \in {TA(0), IX}, t \in {"syntax", "semantic"}}
         \cup {[f \in {IB(0)} |-> "misplaced"], [f \in {IBase} |-> "semantic"]}

\* the imports of each file, one bad file, the files there are
WhoImportsWhom ==
    {"imports"} \X Lone(IX)
    \X {<<>>, <<One(IB(0))>>, <<Inner(IX), One(IB(0))>>, <<All(C)>>, <<One(File(A(0), 3))>>}
    \X {<<>>, <<One(IA(0))>>, <<All(Nowhere)>>}
    \X {<<>>, <<One(IA(0))>>, <<All(A(0))>>}
    \X {<<>>} \X {AllFiles, AllFiles \ {TA(0)}, AllFiles \ {IB(0)}}
WhatIsBad ==
    {"imports"} \X {<<>>} \X {<<>>, <<One(IB(0))>>} \X {<<Inner(IX)>>, <<Inner(IBase)>>}
    \X {<<>>, <<All(Nowhere)>>} \X Texts \X {AllFiles}

-----------------------------------------------------------------------------
\* every interface imports what it extends; "back" adds a second import
RuleTree(there, super, back, bad, listed, current) ==
    [Plain({f.pkg : f \in there}, there) EXCEPT
       !.imports = [f \in Files |-> (IF f \in DOMAIN super THEN <<One(super[f])>> ELSE <<>>)
                                    \o (IF f \in DOMAIN back THEN <<One(back[f])>> ELSE <<>>)],
       !.text = [f \in Files |-> IF f = bad THEN "semantic" ELSE "good"],
       !.super = [f \in Files |-> IF f \in DOMAIN super THEN super[f] ELSE IBase],
       !.listed = [f \in Files |-> IF f \in DOMAIN listed THEN listed[f] ELSE @[f]],
       !.current[RootA] = current]

Only(f, v) == [g \in {f} |-> v]
Extends(ia1, ib1) == [f \in {IA(1), IB(1)} |-> IF f = IA(1) THEN ia1 ELSE ib1]

\* two versions with the same interfaces: who extends whom, and a broken file;
\* IB@1.0 may import an interface of the version after it
TwoVersions ==
    {"rules"} \X {{IA(0), IB(0), IA(1), IB(1)}}
    \X {Extends(ia, ib) : ia \in {IBase, IA(0), IB(0)}, ib \in {IBase, IB(0)}}
    \X {<<>>, Only(IB(0), IA(1)), Only(IA(1), IB(1))}
    \X {NoFile, IB(0), IB(1)} \X {<<>>} \X {"absent"}

\* an interface that skips a version, a skipped version, a types-only version
ThreeVersions ==
    {"rules"} \X {{IA(0), IB(0), IA(1), IA(2), IB(2)}, {TA(0), IA(1), IA(2)}, {IA(0), IA(2)}}
    \X {[f \in {IA(1), IA(2), IB(2)} |->
           CASE f = IA(1) -> ia1 [] f = IA(2) -> ia2 [] OTHER -> ib2] :
          ia1 \in {IBase, IA(0)}, ia2 \in {IA(0), IA(1)}, ib2 \in {IBase, IB(0)}}
    \X {<<>>} \X {NoFile, IA(1)} \X {<<>>} \X {"absent"}

\* what is frozen, and whether current.txt can be read
Hashes ==
    {"rules"} \X {{IA(0), IB(0), IA(1), IB(1)}}
    \X {Extends(IA(0), ib) : ib \in {IBase, IB(0)}}
    \X {<<>>, Only(IB(0), IA(1))} \X {NoFile}
    \X ({<<>>} \cup {Only(f, v) : f \in {IA(0), IB(0), IA(1)}, v \in {"match", "mismatch"}}
         \cup {[f \in {IA(0), IB(0), IA(1)} |-> "match"]})
    \X {"valid", "malformed"}

\* two packages whose rules need each other's files
Across ==
    {"rules"} \X {{IA(0), IB(0), IA(1), IB(1), IX, IY}}
    \X {Extends(IA(0), ib) : ib \in {IBase, IB(0)}}
    \X {[f \in {IA(0), IX} |-> IF f = IX THEN ix ELSE IY] : ix \in {IB(0), IB(1), IY}}
    \X {NoFile, IX} \X {<<>>, Only(IA(0), "match"), [f \in {IA(0), IX, IY} |-> "match"]}
    \X {"valid"}

\* the enforcement of one package nested in that of another, which fails in the end
IZ == File(C, 3)
Entangled ==
    {"rules"} \X {{IA(0), IB(0), IA(1), IX, IY, IZ}} \X {<<>>}
    \X {[f \in {IA(0), IB(0), IX} |-> CASE f = IX -> IA(0) [] f = IA(0) -> IY [] f = IB(0) -> IA(1)]}
    \X {NoFile} \X {[f \in {IA(0), IB(0), IX, IY, IZ} |-> "match"]} \X {"valid"}

Choices == UNION {WhoImportsWhom, WhatIsBad, TwoVersions, ThreeVersions, Hashes, Across, Entangled}
MCRepos ==
    [c \in Choices |->
       IF c[1] = "imports" THEN ImportTree(c[2], c[3], c[4], c[5], c[6], c[7])
       ELSE RuleTree(c[2], c[3], c[4], c[5], c[6], c[7])]

Target(f, e) == [file |-> f, enf |-> e]
ImportRequests == {<<Target(f, "FULL"), Target(IB(0), "FULL")>> : f \in {IA(0), IX}}
RuleRequests == {<<Target(IA(1), "FULL"), Target(IB(0), "FULL")>>,
                 <<Target(IB(1), "FULL")>>, <<Target(IA(2), "FULL")>>,
                 <<Target(IX, "FULL"), Target(IA(1), "FULL")>>,
                 <<Target(IA(1), "NO_HASH"), Target(IB(1), "NO_HASH")>>,
                 <<Target(IB(1), "NO_HASH"), Target(IX, "NO_HASH")>>}
MCRequests == ImportRequests \cup RuleRequests
OtherPackageLast == {<<Target(IA(1), "FULL"), Target(IX, "FULL")>>}

MCInit ==
    /\ Init
    /\ queue \in IF tree[1] = "imports" THEN ImportRequests ELSE RuleRequests
MCSpec == MCInit /\ [][Next]_vars /\ WF_vars(Next)
=============================================================================
