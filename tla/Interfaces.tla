----------------------------- MODULE Interfaces -----------------------------
(***************************************************************************)
(* From source to a finished AST: import statements, the interface and its *)
(* methods as the parser meets them, then the passes of AST::postParse     *)
(* that concern names and interfaces.  A file needed by an import is       *)
(* parsed on demand, before the statement completes; gAllReservedMethods   *)
(* is shared by all files and filled by the one that declares IBase.       *)
(* The run stops at the first failure.  (A failed import is counted as a   *)
(* syntax error: the parser goes on and the file fails at its end.)        *)
(***************************************************************************)
EXTENDS Lookup

CONSTANTS Reserved,       \* the names with a fillXxxMethod
          CodeOf,         \* their transaction codes
          LastCall,       \* LAST_CALL_TRANSACTION
          KnownNotes      \* annotations a method may carry

ASSUME CodesAssumption ==
  /\ LastCall \in Nat \ {0}
  /\ CodeOf \in [Reserved -> Nat]
  /\ \A m \in Reserved : CodeOf[m] > LastCall

VARIABLES stack,        \* the files being read, the innermost last
          phase,        \* of the innermost: what it does next, and
          step,         \*   at which of its statements, methods or references
          allReserved   \* gAllReservedMethods

vars == <<world, verdict, ast, stack, phase, step, allReserved>>

Current == stack[Len(stack)]
Active == stack # <<>> /\ \A f \in Files : verdict[f] \notin {"failed", "crashed"}
Source(f) == world[f]
IsIBasePackage(f) == Source(f).name.package = IBaseName.package
IsIBase(f) == Source(f).name = IBaseName

\* (A fault: IBase is imported once the interface is complete.)
PhaseAfterLate(p) ==
  CASE p = "imports" -> "methods" [] p = "methods" -> "close"
    [] p = "close" -> "ibase" [] p = "ibase" -> "types"
    [] p = "types" -> "unique" [] p = "unique" -> "inherit"
    [] p = "inherit" -> "values" [] p = "values" -> "validate"
    [] p = "validate" -> "gather" [] OTHER -> "done"

\* The phase after each: what the parser does, then the order of postParse.
PhaseAfter(p) ==
  CASE p = "imports" -> "ibase" [] p = "ibase" -> "methods"
    [] p = "methods" -> "close" [] p = "close" -> "types"
    [] p = "types" -> "unique" [] p = "unique" -> "inherit"
    [] p = "inherit" -> "values" [] p = "values" -> "validate"
    [] p = "validate" -> "gather" [] OTHER -> "done"

Enter(p) == phase' = [phase EXCEPT ![Current] = p] /\ step' = [step EXCEPT ![Current] = 1]
NextPhase == Enter(PhaseAfter(phase[Current]))
NextStep == step' = [step EXCEPT ![Current] = @ + 1] /\ UNCHANGED phase
In(p) == Active /\ phase[Current] = p
Steps(s) == step[Current] \in DOMAIN s

SetAst(a) == ast' = [ast EXCEPT ![Current] = a]
End(v) == verdict' = [verdict EXCEPT ![Current] = v]

-----------------------------------------------------------------------------
(* Reading a file                                                          *)

\* A target, or a file an import statement needs.  An interface file first has
\* its package's types.hal parsed.
OwnTypes(f) == IF IsTypes(f) THEN 0 ELSE FileNamed(TypesForPackage(Source(f).name))

Push(f) ==
  LET t == OwnTypes(f)
      circular == t # 0 /\ verdict[t] = "reading"
  IN /\ verdict' = [g \in Files |-> IF g = f /\ circular THEN "failed"
                                    ELSE IF g = f \/ (g = t /\ verdict[g] = "unread")
                                    THEN "reading" ELSE verdict[g]]
     /\ ast' = [ast EXCEPT ![f].imported = IF t = 0 THEN {} ELSE {t}]
     /\ stack' = stack \o <<f>> \o (IF t # 0 /\ verdict[t] = "unread" THEN <<t>> ELSE <<>>)

Begin ==
  /\ stack = <<>>
  /\ \A f \in Files : verdict[f] \in {"unread", "ok"}
  /\ \E f \in Files : Source(f).target /\ verdict[f] = "unread" /\ Push(f)
  /\ UNCHANGED <<world, phase, step, allReserved>>

Statement(f) ==
  IF phase[f] = "imports"
  THEN WithDefaults(Source(f).imports[step[f]], OwnPackage(f)) ELSE IBaseName

AtStatement ==
  \/ In("imports") /\ Steps(Source(Current).imports)
  \/ In("ibase") /\ ~ IsTypes(Current) /\ ~ IsIBasePackage(Current)

ParseNeeded ==
  /\ AtStatement
  /\ \E k \in DOMAIN Needed(Statement(Current)) :
       LET fs == Needed(Statement(Current))
       IN /\ verdict[fs[k]] = "unread" /\ \A j \in 1..(k-1) : verdict[fs[j]] = "ok"
          /\ Push(fs[k])
  /\ UNCHANGED <<world, phase, step, allReserved>>

Unneeded(fs) == \A f \in ToSet(fs) : verdict[f] # "unread"

\* The statement names something that can be imported: every file it needs was
\* parsed, and a single type is defined in its file.
CanImport(n) ==
  /\ AllReadIn(verdict, Needed(n))
  /\ ImportsWhole(n) \/ MatchOf(n) # None

Import ==
  /\ AtStatement
  /\ LET n == Statement(Current)
     IN CanImport(n) /\ SetAst(addImport(Current, ast[Current], n))
  /\ IF phase[Current] = "imports" THEN NextStep ELSE NextPhase
  /\ UNCHANGED <<world, verdict, stack, allReserved>>

\* Nothing of that name, or the file is one that is being read.
ImportFails ==
  /\ AtStatement
  /\ LET n == Statement(Current)
     IN Unneeded(Needed(n)) /\ ~ CanImport(n)
  /\ End("failed")
  /\ UNCHANGED <<world, ast, stack, phase, step, allReserved>>

addMethod ==
  /\ In("methods") /\ Steps(Source(Current).methods)
  /\ LET m == Source(Current).methods[step[Current]]
     IN IF IsIBase(Current)
        THEN /\ m.name \notin allReserved
             /\ allReserved' = allReserved \cup {m.name}
             /\ UNCHANGED ast
        ELSE /\ SetAst([ast[Current] EXCEPT !.methods = Append(@, m)])
             /\ UNCHANGED allReserved
  /\ NextStep
  /\ UNCHANGED <<world, verdict, stack>>

addMethodTwice ==
  /\ In("methods") /\ Steps(Source(Current).methods)
  /\ IsIBase(Current)
  /\ Source(Current).methods[step[Current]].name \in allReserved
  /\ End("failed")
  /\ UNCHANGED <<world, ast, stack, phase, step, allReserved>>

\* In the order of the codes; the parser CHECKs that all are known.
addAllReservedMethods ==
  /\ In("close")
  /\ IF allReserved \subseteq Reserved \/ IsTypes(Current)
     THEN /\ SetAst([ast[Current] EXCEPT !.reserved =
                       IF IsTypes(Current) THEN <<>>
                       ELSE SetToSortSeq({CodeOf[m] : m \in allReserved}, <)])
          /\ NextPhase
          /\ UNCHANGED verdict
     ELSE End("crashed") /\ UNCHANGED <<ast, phase, step>>
  /\ UNCHANGED <<world, stack, allReserved>>

-----------------------------------------------------------------------------
(* Passes                                                                  *)

HasSuper(f) == ~ IsTypes(f) /\ ~ IsIBase(f)

\* The super type is the first reference of an interface.
References(f) ==
  (IF HasSuper(f) THEN << [scope |-> Source(f).name.names, name |-> Source(f).extends] >>
                  ELSE <<>>) \o Source(f).refs

lookupTypes ==
  /\ In("types") /\ Steps(References(Current))
  /\ LET f == Current
         r == References(f)[step[f]]
         found == lookupType(f, ast[f], r.scope, r.name)
     IN IF found.end = "found"
        THEN /\ SetAst([ast[f] EXCEPT !.answers = (r :> found.type) @@ @,
                                      !.names = @ \cup found.includes])
             /\ NextStep
             /\ UNCHANGED verdict
        ELSE /\ End(IF found.end = "aborted" THEN "crashed" ELSE "failed")
             /\ UNCHANGED <<ast, phase, step>>
  /\ UNCHANGED <<world, stack, allReserved>>

validateDefinedTypesUniqueNames ==
  /\ In("unique")
  /\ IF IsInjective([k \in DOMAIN Source(Current).defs |-> Source(Current).defs[k].path])
     THEN NextPhase /\ UNCHANGED verdict
     ELSE End("failed") /\ UNCHANGED <<phase, step>>
  /\ UNCHANGED <<world, ast, stack, allReserved>>

\* What a type stands for: typedefs are unwrapped.  Cycles of typedefs do not
\* get here, see TypeOrder.
Resolve(t) ==
  LET target(u) == ast[u[1]].answers[[scope |-> Front(u[2]), name |-> Def(u).target]]
      go[k \in 0..Len(world)] ==
        IF k = 0 THEN t
        ELSE LET u == go[k-1] IN IF Kind(u) = "typedef" THEN target(u) ELSE u
  IN go[Len(world)]

\* The file of the interface that f extends, 0 if there is none.
superType(f) ==
  LET t == Resolve(ast[f].answers[References(f)[1]])
  IN IF HasSuper(f) /\ Kind(t) = "interface" THEN t[1] ELSE 0

\* Super types are in other files, and each is finished before its users are.
typeChain(f) ==
  LET up[k \in 0..Len(world)] ==
        IF k = 0 THEN <<f>>
        ELSE LET fs == up[k-1]
                 s == superType(Last(fs))
             IN IF s = 0 THEN fs ELSE Append(fs, s)
  IN up[Len(world)]

\* (A fault: only the direct super type is counted.)
superTypeChainShort(f) == IF superType(f) = 0 THEN <<>> ELSE <<superType(f)>>

superTypeChain(f) == IF superType(f) = 0 THEN <<>> ELSE typeChain(superType(f))

CountMethods(fs) == FoldSeq(LAMBDA f, n : n + Len(ast[f].methods), 0, fs)

\* Serial numbers continue those of the super types.
resolveInheritance ==
  /\ In("inherit")
  /\ LET f == Current
         before == IF IsTypes(f) THEN 0 ELSE CountMethods(superTypeChain(f))
         n == Len(ast[f].methods)
     IN IF n = 0 \/ before + n <= LastCall
        THEN /\ SetAst([ast[f] EXCEPT !.serials = [k \in 1..n |-> before + k]])
             /\ NextPhase
             /\ UNCHANGED verdict
        ELSE End("failed") /\ UNCHANGED <<ast, phase, step>>
  /\ UNCHANGED <<world, stack, allReserved>>

\* superTypeChain calls typeChain on a null super type.  A build that tests
\* "this" goes on with an empty chain, another one crashes.
NullSuperType ==
  /\ In("inherit")
  /\ HasSuper(Current) /\ superType(Current) = 0
  /\ End("crashed")
  /\ UNCHANGED <<world, ast, stack, phase, step, allReserved>>

\* A name of an enum value in a constant expression: its type, then the value.
lookupEnumValue ==
  /\ In("values") /\ Steps(Source(Current).values)
  /\ LET f == Current
         v == Source(f).values[step[f]]
         found == lookupType(f, ast[f], v.scope, v.name)
         t == Resolve(found.type)
     IN IF /\ found.end = "found" /\ Kind(t) = "enum" /\ v.value \in Def(t).values
        THEN /\ SetAst([ast[f] EXCEPT !.names = @ \cup found.includes])
             /\ NextStep
             /\ UNCHANGED verdict
        ELSE /\ End(IF found.end = "aborted" THEN "crashed" ELSE "failed")
             /\ UNCHANGED <<ast, phase, step>>
  /\ UNCHANGED <<world, stack, allReserved>>

Names(ms) == [k \in DOMAIN ms |-> ms[k].name]
NamesOf(codes) == {m \in Reserved : CodeOf[m] \in ToSet(codes)}

\* allSuperMethodsFromRoot: the methods of the chain, and the reserved ones of
\* the super type.
SuperNames(f) ==
  UNION {ToSet(Names(ast[g].methods)) : g \in ToSet(superTypeChain(f))}
  \cup NamesOf(ast[superType(f)].reserved)

ValidInterface(f) ==
  /\ superType(f) # 0
  /\ IsInjective(Names(ast[f].methods))
  /\ ToSet(Names(ast[f].methods)) \cap SuperNames(f) = {}
  /\ \A m \in ToSet(ast[f].methods) : m.note \in KnownNotes

validate ==
  /\ In("validate")
  /\ IF HasSuper(Current) => ValidInterface(Current)
     THEN NextPhase /\ UNCHANGED verdict
     ELSE End("failed") /\ UNCHANGED <<phase, step>>
  /\ UNCHANGED <<world, ast, stack, allReserved>>

Completed ==
  /\ In("gather")
  /\ End("ok")
  /\ NextPhase
  /\ stack' = Front(stack)
  /\ UNCHANGED <<world, ast, allReserved>>

\* The statements, methods, references or values of a phase are all done.
EndOfList ==
  /\ \/ In("imports") /\ ~ Steps(Source(Current).imports)
     \/ In("ibase") /\ (IsTypes(Current) \/ IsIBasePackage(Current))
     \/ In("methods") /\ ~ Steps(Source(Current).methods)
     \/ In("types") /\ ~ Steps(References(Current))
     \/ In("values") /\ ~ Steps(Source(Current).values)
  /\ NextPhase
  /\ UNCHANGED <<world, verdict, ast, stack, allReserved>>

-----------------------------------------------------------------------------
Init ==
  /\ world \in Worlds
  /\ verdict = [f \in Files |-> "unread"]
  /\ ast = [f \in Files |-> EmptyAst]
  /\ stack = <<>>
  /\ phase = [f \in Files |-> "imports"]
  /\ step = [f \in Files |-> 1]
  /\ allReserved = {}

Next ==
  \/ Begin \/ ParseNeeded \/ Import \/ ImportFails
  \/ addMethod \/ addMethodTwice \/ addAllReservedMethods
  \/ lookupTypes \/ validateDefinedTypesUniqueNames
  \/ resolveInheritance \/ NullSuperType \/ lookupEnumValue
  \/ validate \/ Completed \/ EndOfList

Spec == Init /\ [][Next]_vars /\ WF_vars(Next)
=============================================================================
