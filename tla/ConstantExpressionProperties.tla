-------------------- MODULE ConstantExpressionProperties --------------------
(***************************************************************************)
(* What the passes over constant expressions promise.                      *)
(***************************************************************************)
EXTENDS ConstantExpressions

Expressions == DOMAIN exprs
AllValues == UNION {{t} \X DOMAIN values[t] : t \in DOMAIN types}
Meaning(e) == Cast(exprs[e].kind, exprs[e].value)

\* the passes hold on to expressions and values that are there
GraphOK ==
    /\ \A e \in Expressions :
         /\ exprs[e].args \in Seq(Expressions)
         /\ exprs[e].ref \in AllValues \cup {NoValue}
    /\ \A v \in AllValues : constExpr(v) \in Expressions \cup {0}
    /\ autofilled \subseteq AllValues
    /\ file \in {types[t].file : t \in DOMAIN types}
    /\ phase \in ToSet(Phases) \cup {"accepted"} \cup Failures \cup Aborts
    /\ ToSet(todo) \subseteq AllValues
    /\ frames \in Seq([expr : Expressions, next : Nat \ {0}])
    /\ visited \subseteq Expressions /\ stack \subseteq visited

(* Every variable has its type; a value that is evaluated is stored as a   *)
(* cast of its own kind to uint64_t leaves it, whatever computed it        *)
(* (mValue, ConstantExpression.cpp:261, 288, 309, 339).                    *)
TypeOK ==
    /\ GraphOK
    /\ \A e \in Expressions :
         /\ exprs[e].kind \in Kinds
         /\ exprs[e].evaluated => exprs[e].value = Stored(Meaning(e))
         /\ exprs[e].completed => exprs[e].evaluated

(* No expression is evaluated before what it is computed from (the CHECKs  *)
(* of ConstantExpression.cpp:254-351), not even one of another file, whose *)
(* passes do not run again; and what is accepted is evaluated throughout.  *)
EvaluatedFirst ==
    /\ Leaves("evaluate") => \A e \in ToSet(Dependencies(Top.expr)) : exprs[e].evaluated
    /\ phase = "accepted" => \A v \in AllValues : exprs[constExpr(v)].evaluated

\* some of these expressions depend on each other in a circle
HasCircle(es) ==
    \E circle \in SUBSET {e \in es : Dependencies(e) # <<>>} :
        /\ circle # {}
        /\ \A e \in circle : \E d \in circle : d \in ToSet(Dependencies(e))

(* checkAcyclic stops at a cycle exactly if there is one among what it has *)
(* visited, although it starts at many expressions with one set of visited *)
(* ones and leaves expressions through several returns (AST.cpp:333,       *)
(* ConstantExpression.cpp:624).                                            *)
AcyclicVerdict ==
    /\ phase \in {"cyclic", "cycle end"} => HasCircle(visited)
    /\ phase = "checkAcyclic" /\ frames = <<>> => ~HasCircle(visited)

\* no expression names an enum that comes after the type it is written in, and
\* no enum extends one that comes after it
IsBackward ==
    /\ \A e \in Expressions : exprs[e].enum <= exprs[e].owner
    /\ \A t \in DOMAIN types : types[t].super <= t

IsPlain(e) == exprs[e].shape = "reference" /\ exprs[e].enum = 0 /\ exprs[e].name # ""
OwnIdentifier(e) == lookupIdentifier(exprs[e].owner, exprs[e].name)
NamesMeanOwn == \A e \in Expressions : IsPlain(e) => exprs[e].ref \in {NoValue, OwnIdentifier(e)}

(* Where enums are named and extended only after their definition, a plain *)
(* name means a value of the enum it is written in, or of one above, and   *)
(* no such name is refused (AST::lookupConstantExpressions, AST.cpp:233).  *)
BackwardNamesMeanOwn ==
    IsBackward =>
        /\ NamesMeanOwn
        /\ phase = "unknown identifier" =>
               \E e \in Expressions :
                   /\ IsUnresolved(e)
                   /\ lookupIdentifier(IF exprs[e].enum = 0 THEN exprs[e].owner ELSE exprs[e].enum,
                                       exprs[e].name) = NoValue

\* the value as it is emitted for its enum, in the storage type (EnumType.cpp:269, 490)
Emitted(v) == Cast(types[v[1]].storage, Meaning(constExpr(v)))
Done(v) == constExpr(v) # 0 /\ exprs[constExpr(v)].evaluated

(* A value that is not written is one more than the value before it, as    *)
(* both are emitted, in the storage type and around its end, whatever kind *)
(* the expression of the other has (EnumValue::autofill, EnumType.cpp:772).*)
(* An enum of bools is refused once its values are known (EnumType.cpp:101).*)
AutofillIsSuccessor ==
    \A v \in autofilled : Done(v) /\ types[v[1]].storage # "BOOL" =>
        Emitted(v) = IF Previous(v) = NoValue THEN 0
                     ELSE Cast(types[v[1]].storage, Emitted(Previous(v)) + 1)

-----------------------------------------------------------------------------
(* The rules at the end of ConstantExpression.cpp (745-828).               *)

DocumentedRank == [k \in Kinds |-> Width[k]]
PromotedTo(k) == IF DocumentedRank[k] < DocumentedRank["INT32"] THEN "INT32" ELSE k

\* the common kind of two operands
Common(k, l) ==
    LET s == IF k \in SignedKinds THEN k ELSE l
        u == IF k \in SignedKinds THEN l ELSE k
    IN CASE (k \in SignedKinds) = (l \in SignedKinds) ->
                IF DocumentedRank[k] < DocumentedRank[l] THEN l ELSE k
         [] (k \in SignedKinds) # (l \in SignedKinds) ->
                IF DocumentedRank[u] >= DocumentedRank[s] THEN u ELSE s

Exact(op, l, r) ==
    CASE op = "+" -> l + r
      [] op = "-" -> l - r
      [] op = "*" -> l * r
      [] op = "/" -> Quotient(l, r)
      [] op = "%" -> l - r * Quotient(l, r)
      [] op \in Comparison -> Truth(Holds(op, l, r))
      [] op = "||" -> Truth(l # 0 \/ r # 0)
      [] op = "&&" -> Truth(l # 0 /\ r # 0)

DocumentedBinary(e, l, r, k) ==
    CASE exprs[e].op \in Arithmetic ->
           /\ exprs[e].kind = k
           /\ InRange(k, l) /\ InRange(k, r) /\ InRange(k, Exact(exprs[e].op, l, r)) =>
                  Meaning(e) = Exact(exprs[e].op, l, r)
      [] exprs[e].op \in Bitflip -> exprs[e].kind = k
      [] exprs[e].op \in Comparison ->
           /\ exprs[e].kind = "BOOL"
           /\ InRange(k, l) /\ InRange(k, r) => Meaning(e) = Exact(exprs[e].op, l, r)
      [] exprs[e].op \in Logical ->
           exprs[e].kind = "BOOL" /\ Meaning(e) = Exact(exprs[e].op, l, r)
      [] exprs[e].op = "<<" ->
           /\ exprs[e].kind = PromotedTo(Operand(e, 1).kind)
           /\ l >= 0 /\ r \in 0 .. Width[exprs[e].kind] - 1 /\ InRange(exprs[e].kind, l * PowerOfTwo[r]) =>
                  Meaning(e) = l * PowerOfTwo[r]
      [] exprs[e].op = ">>" ->
           /\ exprs[e].kind = PromotedTo(Operand(e, 1).kind)
           /\ l >= 0 /\ r \in 0 .. Width[exprs[e].kind] - 1 => Meaning(e) = l \div PowerOfTwo[r]

\* The rules keep the kind of the operand of "+", "-" and "~" only; they list "!" with the
\* logical operators, of which the code does not keep the rule (LogicalIsBool below): of "!"
\* the value is stated here, and no kind.
Documented(e) ==
    LET n(i) == Meaning(exprs[e].args[i])
    IN CASE exprs[e].shape \in {"literal", "attribute", "reference"} -> TRUE
         [] exprs[e].shape = "unary" ->
              /\ exprs[e].op # "!" => exprs[e].kind = Operand(e, 1).kind
              /\ exprs[e].op = "-" /\ InRange(exprs[e].kind, -n(1)) => Meaning(e) = -n(1)
              /\ exprs[e].op = "!" => Meaning(e) = Truth(n(1) = 0)
         [] exprs[e].shape = "binary" ->
              DocumentedBinary(e, n(1), n(2), Common(PromotedTo(Operand(e, 1).kind),
                                                     PromotedTo(Operand(e, 2).kind)))
         [] exprs[e].shape = "ternary" ->
              LET chosen == IF n(1) # 0 THEN n(2) ELSE n(3)
              IN /\ exprs[e].kind = Common(Operand(e, 2).kind, Operand(e, 3).kind)
                 /\ InRange(exprs[e].kind, chosen) => Meaning(e) = chosen

(* An expression has the kind that the documented rules give it, but for   *)
(* "!" (LogicalIsBool), and, where operands and result fit into it, the    *)
(* exact value: neither the way a value is stored nor a cast on the way    *)
(* loses any of it (ConstantExpression.cpp:745-828).                       *)
ValueIsDocumented == \A e \in Expressions : exprs[e].evaluated => Documented(e)

(* Every value is right: one that is filled in follows the one before it,  *)
(* and one that is computed is the documented one (but for the kind of     *)
(* "!").                                                                   *)
ValuesAreRight == AutofillIsSuccessor /\ ValueIsDocumented

-----------------------------------------------------------------------------
(* "Logical operators (!, &&, ||)" "return the result as type bool"        *)
(* (ConstantExpression.cpp:811-815), while only "(~ + -)" "don't change    *)
(* the type of the argument" (775-776).  The code gives "!" the kind of    *)
(* its operand as well (258), so that !1u - 1 < 0 is false.                *)
LogicalIsBool ==
    \A e \in Expressions :
        /\ exprs[e].evaluated
        /\ exprs[e].shape \in {"unary", "binary"}
        /\ exprs[e].op \in Logical \cup {"!"}
        => exprs[e].kind = "BOOL"

(* "Only reference constant expression could be the cycle end" (CHECK,     *)
(* ConstantExpression.cpp:628).                                            *)
CycleEndIsReference == phase # "cycle end"
=============================================================================
