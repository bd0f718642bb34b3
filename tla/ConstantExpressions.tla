------------------------ MODULE ConstantExpressions ------------------------
(***************************************************************************)
(* The passes of AST::postParse over constant expressions, for a file and  *)
(* those it imports, whose passes are run first: enum values that are not  *)
(* written are filled in (EnumType::resolveInheritance), identifiers are   *)
(* looked up, cycles are refused, expressions are validated, evaluated,    *)
(* and marked so that no later file passes over them again.                *)
(*                                                                         *)
(* All passes but the check for cycles are ConstantExpression::            *)
(* recursivePass with a function that runs before or after what an         *)
(* expression depends on; the recursion is an explicit stack.              *)
(***************************************************************************)
EXTENDS IntegerKinds, Sequences, SequencesExt

CONSTANTS
    Programs,  \* what the parser may have built
    NoValue    \* a null or unresolved reference to an EnumValue

(* A program has types (enums, and arrays with their sizes for values) in  *)
(* the order in which Type::recursivePass visits them, the imported files  *)
(* first.  A type says in which file it is, its storage kind, the enum it  *)
(* extends or 0, and the names of its values.  values[t] are the indices   *)
(* of its expressions, 0 where an enum value has none.                     *)
(*                                                                         *)
(* An expression has a shape and an operator, the indices of its operands  *)
(* (args), the enum and name written in it (enum 0 for a plain name), the  *)
(* enum value that was found for it (ref), and the fields of               *)
(* ConstantExpression.  `owner' is the type in which it is written.        *)

TypeType(n) ==
    [file : Nat \ {0}, storage : Kinds, super : 0 .. n, names : Seq(STRING), isEnum : BOOLEAN]

ExpressionType(ts, n) ==
    [shape : STRING, op : STRING, args : Seq(1 .. n), enum : 0 .. Len(ts), name : STRING,
     ref : {NoValue}, evaluated : BOOLEAN, kind : Kinds, value : Int, completed : {FALSE},
     owner : DOMAIN ts]

(* Files are numbered from 1, those that a file imports before it, and a   *)
(* type names only what is in its own file or in one of those.             *)
(* "topologicalReorder is before resolveInheritance, as we need to have no *)
(* cycle while getting parent class."  An enum that extends another is     *)
(* stored as that one is (EnumType::resolveToScalarType).                  *)
AreTypes(ts) ==
    /\ ts \in Seq(TypeType(Len(ts))) /\ ts # <<>>
    /\ {ts[t].file : t \in DOMAIN ts} = 1 .. ts[Len(ts)].file
    /\ \A t \in DOMAIN ts : ts[t].super # 0 =>
         ts[ts[t].super].file <= ts[t].file /\ ts[ts[t].super].storage = ts[t].storage
    /\ \A chain \in SUBSET DOMAIN ts : chain # {} => \E t \in chain : ts[t].super \notin chain

\* LiteralConstantExpression::tryParse: the kind that suffix, base and value give
LiteralKind(n, isLong, isUnsigned, isHex) ==
    CASE isLong /\ isUnsigned -> "UINT64"
      [] isLong /\ ~isUnsigned -> "INT64"
      [] ~isLong /\ isUnsigned -> IF InRange("UINT32", n) THEN "UINT32" ELSE "UINT64"
      [] ~isLong /\ ~isUnsigned ->
            IF InRange("INT32", n) THEN "INT32"
            ELSE IF ~isHex THEN "INT64"
            ELSE IF InRange("UINT32", n) THEN "UINT32"
            ELSE IF InRange("INT64", n) THEN "INT64" ELSE "UINT64"

IsLiteral(kind, n) ==
    /\ InRange("UINT64", n)
    /\ \E isLong, isUnsigned, isHex \in BOOLEAN :
         kind = LiteralKind(n, isLong, isUnsigned, isHex)

(* What the grammar makes: each shape has its operators and operands, and  *)
(* only literals have a value.                                             *)
IsOfGrammar(x) ==
    \/ /\ x.shape = "literal" /\ x.op = "" /\ x.args = <<>>
       /\ x.evaluated /\ IsLiteral(x.kind, x.value)
    \/ /\ ~x.evaluated
       /\ \/ x.shape = "reference" /\ x.op = "" /\ x.args = <<>>
          \/ x.shape = "attribute" /\ x.args = <<>> /\ x.enum # 0
          \/ x.shape = "unary" /\ x.op \in UnaryOps /\ Len(x.args) = 1
          \/ x.shape = "binary" /\ x.op \in BinaryOps /\ Len(x.args) = 2
          \/ x.shape = "ternary" /\ x.op = "?" /\ Len(x.args) = 3

(* An expression is a tree in one type.                                    *)
AreExpressions(ts, es) ==
    /\ es \in Seq(ExpressionType(ts, Len(es)))
    /\ \A e \in DOMAIN es :
         /\ IsOfGrammar(es[e])
         /\ es[e].enum # 0 => ts[es[e].enum].file <= ts[es[e].owner].file
         /\ \A i \in DOMAIN es[e].args : es[es[e].args[i]].owner = es[e].owner

IsProgram(p) ==
    /\ AreTypes(p.types)
    /\ AreExpressions(p.types, p.exprs)
    /\ p.values \in Seq(Seq(0 .. Len(p.exprs))) /\ Len(p.values) = Len(p.types)
    /\ \A t \in DOMAIN p.values : \A i \in DOMAIN p.values[t] :
         p.values[t][i] # 0 => p.exprs[p.values[t][i]].owner = t

ASSUME NoValueAssumption == NoValue \notin Nat \X Nat
ASSUME ProgramsAssumption == \A p \in Programs : IsProgram(p)

VARIABLES
    types,      \* the types of the program, which no pass changes
    exprs,      \* every ConstantExpression object
    values,     \* EnumValue::mValue, ArrayType::mSizes
    autofilled, \* EnumValue::mIsAutoFill
    file,       \* which file postParse runs for
    phase,      \* which pass of it, or how the program ended
    todo,       \* the values and sizes whose expressions the pass has still to visit
    frames,     \* activations of recursivePass or checkAcyclic, outermost first
    visited,    \* visitedCE
    stack       \* the argument of checkAcyclic of this name

program == <<types, exprs, values, autofilled>>
pass == <<file, phase, todo>>
walk == <<frames, visited, stack>>
vars == <<program, pass, walk>>

Phases == <<"resolveInheritance", "lookup", "checkAcyclic", "validate", "evaluate", "complete">>
Failures == {"unknown identifier", "cyclic", "invalid"}  \* a pass answers an error
Aborts == {"cycle end", "trap"}                          \* a CHECK fails, or a signal

-----------------------------------------------------------------------------
(* The tree.                                                               *)

Literal(kind, n) ==
    [shape |-> "literal", op |-> "", args |-> <<>>, enum |-> 0, name |-> "", ref |-> NoValue,
     evaluated |-> TRUE, kind |-> kind, value |-> n, completed |-> FALSE, owner |-> 0]

Unevaluated(shape, op, args, enum, name, ref) ==
    [Literal("INT32", 0) EXCEPT
        !.shape = shape, !.op = op, !.args = args, !.enum = enum, !.name = name, !.ref = ref,
        !.evaluated = FALSE]

\* an enum and the enums it extends, nearest first
typeChain(t) ==
    LET up[n \in 0 .. Len(types)] ==
            IF n = 0 THEN <<t>>
            ELSE IF types[Last(up[n - 1])].super = 0 THEN up[n - 1]
            ELSE Append(up[n - 1], types[Last(up[n - 1])].super)
    IN up[Len(types)]

EnumValues(t) == [i \in DOMAIN values[t] |-> <<t, i>>]
ChainValues(t) == FlattenSeq([n \in DOMAIN typeChain(t) |-> EnumValues(typeChain(t)[n])])
Named(v, name) == types[v[1]].isEnum /\ types[v[1]].names[v[2]] = name

\* only an enum has identifiers of its own
lookupIdentifier(t, name) ==
    LET place == SelectInSeq(ChainValues(t), LAMBDA v : Named(v, name))
    IN IF place = 0 THEN NoValue ELSE ChainValues(t)[place]

constExpr(v) == values[v[1]][v[2]]

\* getConstantExpressions and then getReferences
Dependencies(e) ==
    exprs[e].args \o (IF exprs[e].ref = NoValue THEN <<>> ELSE <<constExpr(exprs[e].ref)>>)

FileValues(f) ==
    FlattenSeq([t \in DOMAIN types |-> IF types[t].file = f THEN EnumValues(t) ELSE <<>>])
LastFile == types[Len(types)].file

-----------------------------------------------------------------------------
Init ==
    /\ \E p \in Programs : types = p.types /\ exprs = p.exprs /\ values = p.values
    /\ autofilled = {}
    /\ file = 1
    /\ phase = "resolveInheritance"
    /\ todo = FileValues(1)
    /\ frames = <<>>
    /\ visited = {}
    /\ stack = {}

End(outcome) ==
    /\ phase' = outcome
    /\ UNCHANGED <<file, todo>>

\* the next pass, or the file that imports this one, or the end
Follows ==
    \E n \in DOMAIN Phases :
        /\ phase = Phases[n]
        /\ IF n < Len(Phases)
           THEN file' = file /\ phase' = Phases[n + 1] /\ todo' = FileValues(file)
           ELSE IF file < LastFile
           THEN file' = file + 1 /\ phase' = Phases[1] /\ todo' = FileValues(file + 1)
           ELSE End("accepted")

\* (A fault: what one pass visited is passed over by the next.)
NextPhaseVisited ==
    /\ todo = <<>>
    /\ frames = <<>>
    /\ Follows
    /\ UNCHANGED <<program, walk>>

\* each pass has a set of visited expressions of its own
NextPhase ==
    /\ todo = <<>>
    /\ frames = <<>>
    /\ Follows
    /\ visited' = {}
    /\ UNCHANGED <<program, frames, stack>>

-----------------------------------------------------------------------------
(* EnumType::resolveInheritance and EnumValue::autofill, value by value.   *)

superTypeChain(t) == Tail(typeChain(t))

\* the value before v: in its enum, or the last one of the nearest enum above
\* that has any
Previous(v) ==
    LET above == superTypeChain(v[1])
        place == SelectInSeq(above, LAMBDA t : values[t] # <<>>)
    IN IF v[2] > 1 THEN <<v[1], v[2] - 1>>
       ELSE IF place = 0 THEN NoValue
       ELSE <<above[place], Len(values[above[place]])>>

Zero(kind) == Literal(kind, 0)
One(kind) == Literal(kind, 1)

\* objects are added at the end, the expression of the value last
Filled(v) ==
    LET kind == types[v[1]].storage
        n == Len(exprs)
    IN IF Previous(v) = NoValue
       THEN <<Zero(kind)>>
       ELSE <<Unevaluated("reference", "", <<>>, 0, "", Previous(v)), One(kind),
              Unevaluated("binary", "+", <<n + 1, n + 2>>, 0, "", NoValue)>>

Autofill ==
    /\ phase = "resolveInheritance"
    /\ todo # <<>>
    /\ constExpr(Head(todo)) = 0
    /\ exprs' = exprs \o [i \in DOMAIN Filled(Head(todo)) |->
                            [Filled(Head(todo))[i] EXCEPT !.owner = Head(todo)[1]]]
    /\ values' = [values EXCEPT ![Head(todo)[1]][Head(todo)[2]] = Len(exprs')]
    /\ autofilled' = autofilled \cup {Head(todo)}
    /\ todo' = Tail(todo)
    /\ UNCHANGED <<types, file, phase, walk>>

\* a value that is defined explicitly, or the size of an array
KeepExplicit ==
    /\ phase = "resolveInheritance"
    /\ todo # <<>>
    /\ constExpr(Head(todo)) # 0
    /\ todo' = Tail(todo)
    /\ UNCHANGED <<program, file, phase, walk>>

-----------------------------------------------------------------------------
(* ConstantExpression::recursivePass and checkAcyclic, the parts they have *)
(* in common: the next call is for the expression of a type, or for a      *)
(* dependency of the innermost activation.                                 *)

Top == Last(frames)
AtDependency == frames # <<>> /\ Top.next <= Len(Dependencies(Top.expr))
AtRoot == frames = <<>> /\ todo # <<>>
Called == IF frames = <<>> THEN constExpr(Head(todo)) ELSE Dependencies(Top.expr)[Top.next]
Calls(p) == phase = p /\ (AtRoot \/ AtDependency)
Leaves(p) == phase = p /\ frames # <<>> /\ Top.next > Len(Dependencies(Top.expr))
scope == Head(todo)[1]

Enter ==
    /\ frames' = Append(frames, [expr |-> Called, next |-> 1])
    /\ visited' = visited \cup {Called}
    /\ todo' = todo

\* a call returned to the activations that are left
ReturnTo(callers) ==
    IF callers = <<>>
    THEN frames' = <<>> /\ todo' = Tail(todo)
    ELSE frames' = [callers EXCEPT ![Len(callers)].next = @ + 1] /\ todo' = todo

PassedOver(e) == exprs[e].completed \/ e \in visited
Passes == {"lookup", "validate", "evaluate", "complete"}

PassOver ==
    /\ \E p \in Passes : Calls(p)
    /\ PassedOver(Called)
    /\ ReturnTo(frames)
    /\ UNCHANGED <<program, file, phase, visited, stack>>

\* the function of these passes runs before the dependencies
Leave ==
    /\ \E p \in Passes \ {"evaluate"} : Leaves(p)
    /\ ReturnTo(Front(frames))
    /\ UNCHANGED <<program, file, phase, visited, stack>>

-----------------------------------------------------------------------------
(* AST::lookupConstantExpressions.  A plain name is looked up in the type  *)
(* whose expressions the pass is at, which is not always the one in which  *)
(* the name is written: the pass follows a reference as soon as it is      *)
(* resolved.                                                               *)

IsUnresolved(e) == exprs[e].shape = "reference" /\ exprs[e].ref = NoValue
\* (A fault: the scope is that of the file.)
FoundInFile(e) ==
    lookupIdentifier(IF exprs[e].enum = 0 THEN Min({t \in DOMAIN types : types[t].file = file}) ELSE exprs[e].enum, exprs[e].name)

Found(e) == lookupIdentifier(IF exprs[e].enum = 0 THEN scope ELSE exprs[e].enum, exprs[e].name)

LookUp ==
    /\ Calls("lookup")
    /\ ~PassedOver(Called)
    /\ IsUnresolved(Called) => Found(Called) # NoValue
    /\ exprs' = IF IsUnresolved(Called) THEN [exprs EXCEPT ![Called].ref = Found(Called)] ELSE exprs
    /\ Enter
    /\ UNCHANGED <<types, values, autofilled, file, phase, stack>>

FailLookup ==
    /\ Calls("lookup")
    /\ ~PassedOver(Called)
    /\ IsUnresolved(Called) /\ Found(Called) = NoValue
    /\ End("unknown identifier")
    /\ UNCHANGED <<program, walk>>

-----------------------------------------------------------------------------
(* ConstantExpression::checkAcyclic.                                       *)

CheckAcyclic ==
    /\ Calls("checkAcyclic")
    /\ Called \notin stack /\ Called \notin visited
    /\ stack' = stack \cup {Called}
    /\ Enter
    /\ UNCHANGED <<program, file, phase>>

CheckedBefore ==
    /\ Calls("checkAcyclic")
    /\ Called \notin stack /\ Called \in visited
    /\ ReturnTo(frames)
    /\ UNCHANGED <<program, file, phase, visited, stack>>

\* the error of a cycle, or the CHECK that only a reference can be its end
FindCycle ==
    /\ Calls("checkAcyclic")
    /\ Called \in stack
    /\ End(IF exprs[Called].shape = "reference" THEN "cyclic" ELSE "cycle end")
    /\ UNCHANGED <<program, walk>>

\* (A fault: an expression stays on the stack.)
LeaveAcyclicOnStack ==
    /\ Leaves("checkAcyclic")
    /\ ReturnTo(Front(frames))
    /\ UNCHANGED <<program, file, phase, visited, stack>>

LeaveAcyclic ==
    /\ Leaves("checkAcyclic")
    /\ stack' = stack \ {Top.expr}
    /\ ReturnTo(Front(frames))
    /\ UNCHANGED <<program, file, phase, visited>>

-----------------------------------------------------------------------------
(* AttributeConstantExpression::validate: only an enum has a length, and   *)
(* nothing has another attribute.                                          *)

IsInvalid(e) ==
    /\ exprs[e].shape = "attribute"
    /\ exprs[e].op # "len" \/ ~types[exprs[e].enum].isEnum

Validate ==
    /\ Calls("validate")
    /\ ~PassedOver(Called)
    /\ ~IsInvalid(Called)
    /\ Enter
    /\ UNCHANGED <<program, file, phase, stack>>

FailValidate ==
    /\ Calls("validate")
    /\ ~PassedOver(Called)
    /\ IsInvalid(Called)
    /\ End("invalid")
    /\ UNCHANGED <<program, walk>>

-----------------------------------------------------------------------------
(* evaluate() of each class of expressions, after the dependencies.        *)

Operand(e, i) == exprs[exprs[e].args[i]]
CastOperand(e, i, kind) == Cast(kind, Operand(e, i).value)

\* the kind to which a binary operator converts both operands
Promoted(e) ==
    usualArithmeticConversion(integralPromotion(Operand(e, 1).kind),
                              integralPromotion(Operand(e, 2).kind))

numBits(e) == Cast("INT64", CastOperand(e, 2, Operand(e, 2).kind))
ShiftOf(e) == IF numBits(e) >= 0 THEN exprs[e].op ELSE IF exprs[e].op = "<<" THEN ">>" ELSE "<<"

numValueNames(t) == Len(ChainValues(t))

ResultKind(e) ==
    LET x == exprs[e]
    IN CASE x.shape = "unary" -> Operand(e, 1).kind
         [] x.shape = "binary" /\ x.op \in Arithmetic \cup Bitflip -> Promoted(e)
         [] x.shape = "binary" /\ x.op \in Comparison \cup Logical -> "BOOL"
         [] x.shape = "binary" /\ x.op \in Shift -> integralPromotion(Operand(e, 1).kind)
         [] x.shape = "ternary" ->
               usualArithmeticConversion(Operand(e, 2).kind, Operand(e, 3).kind)
         [] x.shape = "reference" -> exprs[constExpr(x.ref)].kind
         [] x.shape = "attribute" ->
               IF numValueNames(x.enum) <= Highest("INT32") THEN "INT32" ELSE "INT64"

Result(e) ==
    LET x == exprs[e]
        kind == ResultKind(e)
    IN CASE x.shape = "unary" -> handleUnary(kind, x.op, CastOperand(e, 1, kind))
         [] x.shape = "binary" /\ x.op \in Arithmetic \cup Bitflip \cup Comparison ->
               handleBinaryCommon(Promoted(e), x.op, CastOperand(e, 1, Promoted(e)),
                                  CastOperand(e, 2, Promoted(e)))
         [] x.shape = "binary" /\ x.op \in Shift ->
               handleShift(kind, ShiftOf(e), CastOperand(e, 1, kind), Magnitude(numBits(e)))
         [] x.shape = "binary" /\ x.op \in Logical ->
               handleLogical(x.op, Operand(e, 1).value, Operand(e, 2).value)
         [] x.shape = "ternary" ->
               CastOperand(e, IF Operand(e, 1).value # 0 THEN 2 ELSE 3, kind)
         [] x.shape = "reference" -> exprs[constExpr(x.ref)].value
         [] x.shape = "attribute" -> numValueNames(x.enum)

StopsProcess(e) ==
    /\ exprs[e].shape = "binary"
    /\ Traps(Promoted(e), exprs[e].op, CastOperand(e, 1, Promoted(e)), CastOperand(e, 2, Promoted(e)))

\* evaluation goes into the dependencies first
Descend ==
    /\ Calls("evaluate")
    /\ ~PassedOver(Called)
    /\ Enter
    /\ UNCHANGED <<program, file, phase, stack>>

Evaluate ==
    /\ Leaves("evaluate")
    /\ ~exprs[Top.expr].evaluated
    /\ ~StopsProcess(Top.expr)
    /\ exprs' = [exprs EXCEPT ![Top.expr].evaluated = TRUE,
                              ![Top.expr].kind = ResultKind(Top.expr),
                              ![Top.expr].value = Stored(Result(Top.expr))]
    /\ ReturnTo(Front(frames))
    /\ UNCHANGED <<types, values, autofilled, file, phase, visited, stack>>

\* a literal
IsEvaluated ==
    /\ Leaves("evaluate")
    /\ exprs[Top.expr].evaluated
    /\ ReturnTo(Front(frames))
    /\ UNCHANGED <<program, file, phase, visited, stack>>

\* a division in an operand that C++ would not evaluate stops the process too
Trap ==
    /\ Leaves("evaluate")
    /\ ~exprs[Top.expr].evaluated
    /\ StopsProcess(Top.expr)
    /\ End("trap")
    /\ UNCHANGED <<program, walk>>

-----------------------------------------------------------------------------
setPostParseCompleted ==
    /\ Calls("complete")
    /\ ~PassedOver(Called)
    /\ exprs' = [exprs EXCEPT ![Called].completed = TRUE]
    /\ Enter
    /\ UNCHANGED <<types, values, autofilled, file, phase, stack>>

Terminated ==
    /\ phase \in {"accepted"} \cup Failures \cup Aborts
    /\ UNCHANGED vars

Next ==
    \/ NextPhase \/ Autofill \/ KeepExplicit
    \/ PassOver \/ Leave \/ LookUp \/ FailLookup
    \/ CheckAcyclic \/ CheckedBefore \/ FindCycle \/ LeaveAcyclic
    \/ Validate \/ FailValidate
    \/ Descend \/ Evaluate \/ IsEvaluated \/ Trap
    \/ setPostParseCompleted
    \/ Terminated

Spec == Init /\ [][Next]_vars
FairSpec == Spec /\ WF_vars(Next)
=============================================================================
