---------------------------- MODULE MCConstants ----------------------------
(***************************************************************************)
(* Small programs of enums: two that name, extend or import each other,    *)
(* and one with an operator over literals of every kind.  The widths are   *)
(* scaled down; they keep the order and the equalities of the real ones.   *)
(***************************************************************************)
EXTENDS ConstantExpressionProperties

MCWidth == [BOOL |-> 1, INT8 |-> 2, UINT8 |-> 2, INT16 |-> 3, UINT16 |-> 3,
            INT32 |-> 4, UINT32 |-> 4, INT64 |-> 5, UINT64 |-> 5]

\* trees: the nodes of an expression, operands before operators
Node(shape, op, args, enum, name) == <<Unevaluated(shape, op, args, enum, name, NoValue)>>
None == <<>>
Lit(kind, n) == <<Literal(kind, n)>>
Plain(name) == Node("reference", "", <<>>, 0, name)
Of(t, name) == Node("reference", "", <<>>, t, name)
Attribute(t, tag) == Node("attribute", tag, <<>>, t, "")
Length(t) == Attribute(t, "len")
Unary(op, tree) == tree \o Node("unary", op, <<Len(tree)>>, 0, "")
Joined(trees) ==
    FlattenSeq([i \in DOMAIN trees |->
        [n \in DOMAIN trees[i] |-> [trees[i][n] EXCEPT !.args = [j \in DOMAIN @ |->
            @[j] + Len(FlattenSeq(SubSeq(trees, 1, i - 1)))]]]])
Operator(shape, op, trees) ==
    Joined(trees) \o Node(shape, op, [i \in DOMAIN trees |->
                             Len(FlattenSeq(SubSeq(trees, 1, i)))], 0, "")
Binary(op, l, r) == Operator("binary", op, <<l, r>>)
Ternary(c, l, r) == Operator("ternary", "?", <<c, l, r>>)

Enum(f, storage, super, names) ==
    [file |-> f, storage |-> storage, super |-> super, names |-> names, isEnum |-> TRUE]
Array(f) == [file |-> f, storage |-> "INT32", super |-> 0, names |-> <<>>, isEnum |-> FALSE]

\* trees[t] are the expressions of the values of type t, None where nothing is written
Program(ts, trees) ==
    LET slots == FlattenSeq([t \in DOMAIN ts |-> [i \in DOMAIN trees[t] |-> <<t, i>>]])
        Tree(v) == trees[v[1]][v[2]]
        end[n \in 0 .. Len(slots)] == IF n = 0 THEN 0 ELSE end[n - 1] + Len(Tree(slots[n]))
        Owned(n) == [m \in DOMAIN Tree(slots[n]) |->
                       [Tree(slots[n])[m] EXCEPT !.owner = slots[n][1],
                           !.args = [j \in DOMAIN @ |-> @[j] + end[n - 1]]]]
        Root(v) == IF Tree(v) = None THEN 0 ELSE end[CHOOSE n \in DOMAIN slots : slots[n] = v]
    IN [types |-> ts, exprs |-> FlattenSeq([n \in DOMAIN slots |-> Owned(n)]),
        values |-> [t \in DOMAIN ts |-> [i \in DOMAIN trees[t] |-> Root(<<t, i>>)]]]

\* enums X and Y, in one file or X in a file that the one of Y imports
XTrees == {None, Lit("INT32", 2), Plain("a"), Plain("b"), Unary("-", Plain("b"))}
XNamesY == {Of(2, "c")}
YTrees == {None, Lit("INT32", 3), Plain("a"), Plain("c"), Unary("-", Plain("a")), Of(1, "b"), Length(1)}

Apart(f) == <<Enum(1, "INT8", 0, <<"a", "b">>), Enum(f, "UINT16", 0, <<"a", "c">>)>>
Above(f) == <<Enum(1, "INT8", 0, <<"a", "b">>), Enum(f, "INT8", 1, <<"c", "d">>)>>

NamingPrograms ==
    {Program(ts, <<<<xa, xb>>, <<y1, y2>>>>) :
        ts \in {Apart(1), Above(1)}, xa \in XTrees \cup XNamesY,
        xb \in {None, Plain("a"), Unary("-", Plain("b"))} \cup XNamesY,
        y1 \in YTrees, y2 \in YTrees \ {Lit("INT32", 3), Unary("-", Plain("a"))}}
    \cup {Program(ts, <<<<xa, xb>>, <<y1, y2>>>>) :
        ts \in {Apart(2), Above(2)}, xa \in XTrees, xb \in {None, Unary("-", Plain("a"))},
        y1 \in YTrees, y2 \in YTrees \ {Lit("INT32", 3), Unary("-", Plain("a"))}}

\* arrays whose size is named
SizePrograms ==
    {Program(<<Array(1), Enum(1, "INT8", 0, <<"a", "b">>), Enum(1, "INT8", 2, <<>>),
               Enum(1, "INT8", 3, <<"c">>), Array(1)>>,
             <<<<s>>, <<None, xb>>, <<>>, <<None>>, <<Of(2, "b"), s>>>>) :
        s \in {Of(2, "b"), Of(4, "c"), Of(4, "a"), Plain("a"), Length(4), Length(5),
             Attribute(4, "max"), Lit("INT32", 3)},
        xb \in {None, Unary("-", Lit("INT32", 1)), Plain("a")}}

\* operands of every kind; z is the zero of the enum they are in
Operands ==
    {Lit("INT32", n) : n \in {0, 2, 7}} \cup {Lit("UINT32", n) : n \in {1, 15}}
    \cup {Lit("INT64", 3), Lit("UINT64", 31), Unary("-", Lit("INT32", 1)),
          Unary("-", Lit("INT64", 16)), Binary("<", Lit("INT32", 1), Lit("INT32", 2)), Plain("z")}

One2(storage, tree) ==
    Program(<<Enum(1, storage, 0, <<"z", "a">>)>>, <<<<None, tree>>>>)

ArithmeticPrograms ==
    {One2("INT8", Binary(op, l, r)) : op \in BinaryOps, l \in Operands, r \in Operands}
    \cup {One2(storage, Ternary(c, l, r)) :
        storage \in {"UINT8", "INT16"}, c \in {Lit("INT32", 0), Lit("INT32", 4)},
        l \in Operands, r \in Operands}
    \cup {One2(storage, Unary(op, n)) : storage \in {"UINT8", "INT16"}, op \in UnaryOps, n \in Operands}

\* what is not written goes on from a value of any kind, for every storage type
SuccessorPrograms ==
    {Program(<<Enum(1, storage, 0, <<"z", "a", "b">>), Enum(1, storage, 1, <<"c">>)>>,
             <<<<None, tree, None>>, <<None>>>>) :
        storage \in Kinds, tree \in Operands \cup {Lit("INT32", 1), Lit("INT64", 15)}}

MCPrograms == NamingPrograms \cup SizePrograms \cup ArithmeticPrograms \cup SuccessorPrograms
=============================================================================
