------------------------ MODULE InterfaceProperties ------------------------
(***************************************************************************)
(* What holds of the files that were read.                                 *)
(***************************************************************************)
EXTENDS Interfaces

Read == {f \in Files : verdict[f] = "ok"}
ReadInterfaces == {f \in Read : ~ IsTypes(f)}

\* allMethodsFromRoot, as codes: the user methods from the root down, then the
\* reserved ones.
CodesFromRoot(f) ==
  FlattenSeq([k \in DOMAIN typeChain(f) |-> ast[Reverse(typeChain(f))[k]].serials])
  \o ast[f].reserved

NamesFromRoot(f) ==
  FlattenSeq([k \in DOMAIN typeChain(f) |-> Names(ast[Reverse(typeChain(f))[k]].methods)])

\* No two methods that a proxy can call, own, inherited or reserved, have one
\* transaction code: the stub tells them apart by nothing else.  User codes
\* count from FIRST_CALL_TRANSACTION without a gap and stay below the reserved
\* range (Interface.cpp:43-70, resolveInheritance).
CodesAreApart ==
  \A f \in ReadInterfaces :
    /\ IsInjective(CodesFromRoot(f))
    /\ LET users == CountMethods(typeChain(f))
       IN users <= LastCall /\ SubSeq(CodesFromRoot(f), 1, users) = [k \in 1..users |-> k]

\* No two methods that a proxy can call have one name, over the whole chain of
\* super types and the reserved methods: the generated class declares all of
\* them (Interface::validateUniqueNames).
NamesAreApart ==
  \A f \in ReadInterfaces :
    /\ IsInjective(NamesFromRoot(f))
    /\ ToSet(NamesFromRoot(f)) \cap NamesOf(ast[f].reserved) = {}

\* A method of an interface is told from all others by its code and by its name.
MethodsAreApart == CodesAreApart /\ NamesAreApart

\* Whichever file is read first, every interface has all the reserved methods
\* of IBase, although they come from a map that only reading IBase fills
\* (Interface.cpp:444, addAllReservedMethods).
ReservedAreKnown ==
  \A f \in ReadInterfaces : \A b \in Files :
    IsIBase(b) => NamesOf(ast[f].reserved) = ToSet(Names(Source(b).methods))

-----------------------------------------------------------------------------
(* Lookup, told from the import statements alone.                          *)

StatementsOf(f) ==
  [k \in DOMAIN Source(f).imports |-> WithDefaults(Source(f).imports[k], OwnPackage(f))]

\* The statements of f that import g or a type of it.
About(f, g) == {k \in DOMAIN StatementsOf(f) : g \in ToSet(Needed(StatementsOf(f)[k]))}

Wholly(f, ks) == {k \in ks : ImportsWhole(StatementsOf(f)[k])}

\* The types of g that f can name: those a single-type import names since the
\* last import of the whole file, or all of them when there is none since.
\* types.hal of the own package and IBase are imported without a statement, the
\* first before and the second after all of them.
VisibleIn(f, g) ==
  LET ks == About(f, g)
      last == Max({0} \cup Wholly(f, ks))
      since == {k \in ks : k > last}
  IN IF IsIBase(g) \/ g = f THEN TypesIn(g)
     ELSE IF since = {} THEN IF last > 0 \/ g = OwnTypes(f) THEN TypesIn(g) ELSE {}
     ELSE {findDefinedType(g, StatementsOf(f)[k]) : k \in since}

Visible(f) == UNION {VisibleIn(f, g) : g \in Files}

MatchingIn(f, g, n) == {t \in VisibleIn(f, g) : EndsWith(TypeName(t), n)}

\* The scopes around a reference in which its name is defined.
LocalMatches(f, r) ==
  IF r.name.version # "" THEN {}
  ELSE {t \in TypesIn(f) : \E k \in 0..Len(r.scope) : t[2] = SubSeq(r.scope, 1, k) \o r.name.names}

\* A reference means a type that is visible and whose full name ends with the
\* name: the innermost definition of the file, if there is one; or the own
\* package's type of exactly that name; or a type such that no other imported
\* file shows nothing but types of that name.  (A file that hides some matches
\* may hide its first one, and then shows none: AST.cpp:668, 743.)
LookupIsRight ==
  \A f \in Files : \A r \in DOMAIN ast[f].answers :
    LET t == ast[f].answers[r]
        exact == TypeName(t) = WithDefaults(r.name, OwnPackage(f))
        matching(g) == {u \in TypesIn(g) : EndsWith(TypeName(u), r.name)}
        shows(g) == matching(g) # {} /\ matching(g) \subseteq VisibleIn(f, g)
    IN /\ t \in Visible(f) /\ EndsWith(TypeName(t), r.name)
       /\ LocalMatches(f, r) # {} =>
            t \in LocalMatches(f, r) /\ \A u \in LocalMatches(f, r) : Len(u[2]) <= Len(t[2])
       /\ LocalMatches(f, r) = {} /\ ~ exact => ~ \E g \in Files \ {f, t[1]} : shows(g)

\* A file whose lookup fails shows no type of that name, or two files show one,
\* or the file that shows one hides an earlier match of its own.
FailureIsRight ==
  \A f \in Files :
    (verdict[f] = "failed" /\ phase[f] = "types") =>
      LET r == References(f)[step[f]]
          showing == {g \in Files \ {f} : MatchingIn(f, g, r.name) # {}}
      IN \/ showing = {}
         \/ Cardinality(showing) > 1
         \/ \E g \in showing : findDefinedType(g, r.name) \notin VisibleIn(f, g)

\* What a reference means, and whether it means anything, follows from the import
\* statements and their order (AST::lookupType).
NamesMeanWhatIsImported == LookupIsRight /\ FailureIsRight

\* What a reference means is defined in a file that is generated along or that
\* mImportedNames lists, from which the #include lines are written
\* (generateCpp.cpp:232).
DefinitionsAreIncluded ==
  \A f \in Read : \A r \in DOMAIN ast[f].answers :
    LET g == ast[f].answers[r][1] IN g = f \/ Source(g).name \in ast[f].names

\* types.hal of the own package is made available as a whole: "make it's defined
\* types available to the (about to be parsed) AST right away"
\* (Coordinator.cpp:267).
OwnTypesAreAvailable ==
  \A f \in Files :
    (verdict[f] = "failed" /\ phase[f] = "types" /\ OwnTypes(f) # 0) =>
      LET r == References(f)[step[f]]
      IN ~ \E t \in TypesIn(OwnTypes(f)) :
           TypeName(t) = WithDefaults(r.name, OwnPackage(f))
=============================================================================
