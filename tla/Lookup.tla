------------------------------- MODULE Lookup -------------------------------
(***************************************************************************)
(* Imports and name lookup of class AST.  A file knows the ASTs it         *)
(* imported and, for an AST of which it imported single types only, those  *)
(* types; a name is looked up in the enclosing scopes, then as a name of   *)
(* the file's own package, then among the imports.                         *)
(*                                                                         *)
(* A file is a record: its name, its import statements, its definitions    *)
(* in the order of their full names (the order of mDefinedTypesByFullName) *)
(* and the references to types and to enum values that it holds.  A type   *)
(* is the pair of its file and its nested name.                            *)
(***************************************************************************)
EXTENDS FullNames, FiniteSets, FiniteSetsExt, Naturals, TLC

CONSTANTS Worlds,     \* the source trees: sequences of files
          IBaseName   \* gIBaseFqName

ASSUME NameAssumption == IsName(IBaseName)

VARIABLES world,      \* the source tree of this run, constant
          verdict,    \* of each file: unread, reading, ok, failed or crashed
          ast         \* of each file: the AST as far as it is built

Files == DOMAIN world
None == <<0, <<>>>>

EmptyAst ==
  [ imported |-> {},      \* mImportedASTs
    types    |-> <<>>,    \* mImportedTypes, a function on some of imported
    names    |-> {},      \* mImportedNames
    granular |-> {},      \* mImportedNamesGranular
    answers  |-> <<>>,    \* what each reference resolved to
    methods  |-> <<>>,    \* mUserMethods of its interface
    serials  |-> <<>>,    \* their serial numbers
    reserved |-> <<>> ]   \* mReservedMethods

FileNamed(n) == IF \E f \in Files : world[f].name = n
                THEN CHOOSE f \in Files : world[f].name = n
                ELSE 0
OwnPackage(f) == PackageAndVersion(world[f].name)
FilesOf(pkg) == {f \in Files : OwnPackage(f) = pkg}
IsTypes(f) == world[f].name.names = <<"types">>

Def(t) == CHOOSE d \in ToSet(world[t[1]].defs) : d.path = t[2]
Kind(t) == IF t = None THEN "none" ELSE Def(t).kind
TypeName(t) == [OwnPackage(t[1]) EXCEPT !.names = t[2]]
TypesIn(f) == {<<f, d.path>> : d \in ToSet(world[f].defs)}

\* The first match in the order of the full names; a later one is not seen.
findDefinedType(f, n) ==
  LET defs == world[f].defs
      hits == {k \in DOMAIN defs : EndsWith(TypeName(<<f, defs[k].path>>), n)}
  IN IF hits = {} THEN None ELSE <<f, defs[Min(hits)].path>>

-----------------------------------------------------------------------------
(* Import statements, on the AST a of file f.                              *)

Granular(f, a, ns) ==
  [a EXCEPT !.granular = @ \cup {n \in ns : PackageAndVersion(n) # OwnPackage(f)}]

WithoutTypes(a, fs) == [a EXCEPT !.types = [g \in DOMAIN @ \ fs |-> @[g]]]

\* The files a statement n needs, in the order in which they are parsed: all
\* files of the package, or the file of the top-level type if there is one, or
\* types.hal of the package.
Needed(n) ==
  IF n.names = <<>>
  THEN SetToSortSeq(FilesOf(n), LAMBDA f, g : f < g)
  ELSE LET ifc == FileNamed(TopLevelType(n))
           types == FileNamed(TypesForPackage(n))
       IN SelectSeq(<<IF ifc # 0 THEN ifc ELSE types>>, LAMBDA f : f # 0)

AllReadIn(v, fs) == fs # <<>> /\ \A f \in ToSet(fs) : v[f] = "ok"

ImportsWhole(n) == n.names = <<>> \/ FileNamed(n) # 0

addPackageImport(f, a, n) ==
  LET fs == FilesOf(n)
  IN WithoutTypes(Granular(f, [a EXCEPT !.imported = @ \cup fs],
                           {world[g].name : g \in fs}), fs)

addFileImport(f, a, n) ==
  LET g == FileNamed(n)
  IN WithoutTypes(Granular(f, [a EXCEPT !.imported = @ \cup {g}], {n}), {g})

\* The match of a fully qualified name in the file that should define it.
MatchOf(n) == findDefinedType(Needed(n)[1], n)

addTypeImport(f, a, n) ==
  LET t == MatchOf(n)
      g == t[1]
      b == Granular(f, [a EXCEPT !.imported = @ \cup {g}], {n})
  IN [b EXCEPT !.types = IF g \in DOMAIN @ THEN [@ EXCEPT ![g] = @ \cup {t}]
                                           ELSE @ @@ (g :> {t})]

addImport(f, a, n) ==
  IF n.names = <<>> THEN addPackageImport(f, a, n)
  ELSE IF ImportsWhole(n) THEN addFileImport(f, a, n)
  ELSE addTypeImport(f, a, n)

-----------------------------------------------------------------------------
(* Lookup of a name for the file f with AST a.                             *)

\* Rule 0: from the scope s outwards.
lookupTypeLocally(f, s, n) ==
  LET at(k) == SubSeq(s, 1, k) \o n.names
      ks == {k \in 0..Len(s) : <<f, at(k)>> \in TypesIn(f)}
  IN IF n.version # "" \/ ks = {} THEN None ELSE <<f, at(Max(ks))>>

\* (A fault: single types are not told from the rest of their file.)
MatchesAnywhere(a, n) == {findDefinedType(g, n) : g \in a.imported}

\* Rule 2: one match over all imported files.
Matches(a, n) ==
  {findDefinedType(g, n) : g \in a.imported \ DOMAIN a.types}
  \cup UNION {{findDefinedType(g, n)} \cap a.types[g] : g \in DOMAIN a.types}

lookupTypeFromImports(a, n) ==
  LET ms == Matches(a, n) \ {None}
  IN IF Cardinality(ms) = 1 THEN CHOOSE t \in ms : TRUE ELSE None

\* (A fault: the interface around the type is not searched.)
IncludeOfTypesOnly(a, t) ==
  IF Kind(t) = "interface" THEN TypeName(t) ELSE TypesForPackage(TypeName(t))

\* What mImportedNames gets for a type found among the imports: the interface
\* it is nested in, if that interface is imported too, or types.hal.
IncludeOf(a, t) ==
  LET top == TopLevelType(TypeName(t))
      ifcs == {findDefinedType(g, top) : g \in a.imported}
  IN IF Kind(t) = "interface" THEN TypeName(t)
     ELSE IF \E u \in ifcs : Kind(u) = "interface"
     THEN TypeName(CHOOSE u \in ifcs : Kind(u) = "interface")
     ELSE TypesForPackage(TypeName(t))

IncludesOf(a, t) == IF t = None THEN {} ELSE {IncludeOf(a, t)}

\* The rules in turn: the answer, the names to include, and whether the lookup
\* aborts, when a partial package name matches the own one, or fails although
\* there are matches, when a name is defined in the own file and in an import.
lookupType(f, a, s, n) ==
  LET r0 == lookupTypeLocally(f, s, n)
      filled == WithDefaults(n, OwnPackage(f))
      own == findDefinedType(f, filled)
      r1 == lookupTypeFromImports(a, filled)
      r2 == lookupTypeFromImports(a, n)
      Answer(t, ns, end) == [type |-> t, includes |-> ns, end |-> end]
  IN IF r0 # None THEN Answer(r0, {}, "found")
     ELSE IF own # None /\ TypeName(own) # filled THEN Answer(None, {}, "aborted")
     ELSE IF own # None /\ r1 # None THEN Answer(None, {}, "failed")
     ELSE IF own # None THEN Answer(own, {}, "found")
     ELSE IF r1 # None THEN Answer(r1, IncludesOf(a, r1), "found")
     ELSE IF r2 # None THEN Answer(r2, IncludesOf(a, r2), "found")
     ELSE Answer(None, {}, "failed")
=============================================================================
