---------------------------- MODULE MCInterfaces ----------------------------
(***************************************************************************)
(* Small source trees, in two families: one varies what a file imports and *)
(* the names it uses, the other the methods and super types of a chain.    *)
(***************************************************************************)
EXTENDS InterfaceProperties

Full(p, v, ns) == [package |-> p, version |-> v, names |-> ns]
Short(ns) == Full(<<>>, "", ns)
At(v, ns) == Full(<<>>, v, ns)
A0(ns) == Full(<<"x", "a">>, "@1.0", ns)
A1(ns) == Full(<<"x", "a">>, "@1.1", ns)
A2(ns) == Full(<<"x", "a">>, "@1.2", ns)
B0(ns) == Full(<<"b">>, "@1.0", ns)
MCIBaseName == Full(<<"h">>, "@1.0", <<"IBase">>)

Struct(p) == [path |-> p, kind |-> "struct"]
Face(p) == [path |-> p, kind |-> "interface"]
Enum(p, vs) == [path |-> p, kind |-> "enum", values |-> vs]
Alias(p, n) == [path |-> p, kind |-> "typedef", target |-> n]
Ref(s, n) == [scope |-> s, name |-> n]

File(n, is, ds, rs) ==
  [name |-> n, imports |-> is, defs |-> ds, refs |-> rs, extends |-> MCIBaseName,
   methods |-> <<>>, values |-> <<>>, target |-> FALSE]
Method(m) == [name |-> m, note |-> "none"]
Methods(s) == [k \in DOMAIN s |-> Method(s[k])]

Base == [File(MCIBaseName, <<>>, <<Face(<<"IBase">>)>>, <<>>)
          EXCEPT !.methods = Methods(<<"ping", "debug">>)]
Types0 == File(A0(<<"types">>), <<>>,
               << Struct(<<"A">>), Struct(<<"A", "T">>), Struct(<<"B">>), Struct(<<"B", "T">>),
                  Enum(<<"E">>, {"v"}) >>, <<>>)
Types1 == File(A1(<<"types">>), <<>>, << Struct(<<"A">>), Struct(<<"B">>) >>, <<>>)
Foo0 == [File(A0(<<"IFoo">>), <<>>, << Face(<<"IFoo">>), Struct(<<"IFoo", "T">>) >>,
              << Ref(<<"IFoo">>, Short(<<"T">>)) >>) EXCEPT !.methods = Methods(<<"m">>)]
TypesB == File(B0(<<"types">>), <<A0(<<"IFoo">>)>>,
               << Struct(<<"S">>), Struct(<<"T">>), Alias(<<"U">>, A0(<<"IFoo">>)) >>,
               << Ref(<<>>, A0(<<"IFoo">>)) >>)

SomeImports ==
  { A0(<<>>), At("@1.0", <<"IFoo">>), A0(<<"IFoo", "T">>), A0(<<"A", "T">>), A0(<<"B">>),
    A0(<<"B", "T">>), Short(<<"A">>), B0(<<>>), B0(<<"T">>), B0(<<"IGone">>) }
SomeNames ==
  { Short(<<"T">>), Short(<<"A">>), Short(<<"B">>), Short(<<"A", "T">>), Short(<<"IFoo">>),
    Short(<<"IFoo", "T">>), At("@1.0", <<"B">>), A0(<<"B", "T">>), Short(<<"U">>),
    Full(<<"a">>, "@1.1", <<"IMain">>) }

MainDefs == { << Face(<<"IMain">>) >>,
              << Face(<<"IMain">>), Struct(<<"IMain", "N">>), Struct(<<"IMain", "N", "T">>),
                 Struct(<<"IMain", "T">>) >> }
Main(is, ds, n) ==
  LET s == IF Len(ds) = 1 THEN <<"IMain">> ELSE <<"IMain", "N">>
  IN [File(A1(<<"IMain">>), is, ds, << Ref(s, n) >>) EXCEPT !.target = TRUE]

NamingWorlds ==
  { << Base, Types0, Types1, Foo0, TypesB, Main(is, ds, n) >> :
      is \in UNION {[1..k -> SomeImports] : k \in 0..2}, ds \in MainDefs, n \in SomeNames }

\* Values of enums, duplicate definitions, a file that needs itself.
Odd(change(_)) == << Base, Types0, change(Main(<<A0(<<>>)>>, << Face(<<"IMain">>) >>,
                                                Short(<<"IFoo">>))) >>
Value(n, v) == [scope |-> <<"IMain">>, name |-> n, value |-> v]
OddWorlds ==
  { Odd(LAMBDA f : [f EXCEPT !.refs = <<>>, !.values = << Value(n, v) >>]) :
      n \in {Short(<<"E">>), Short(<<"A">>), Short(<<"Z">>)}, v \in {"v", "w"} }
  \cup { Odd(LAMBDA f : [f EXCEPT !.refs = <<>>,
                         !.defs = @ \o << Struct(<<"IMain", "T">>), Struct(<<"IMain", "T">>) >>]),
         Odd(LAMBDA f : [f EXCEPT !.imports = << Short(<<"IMain">>) >>]),
         << Base, [Types1 EXCEPT !.imports = << A1(<<"IMain">>) >>],
            Main(<<>>, << Face(<<"IMain">>) >>, Short(<<"A">>)) >> }

-----------------------------------------------------------------------------
SomeMethods == { <<>>, <<"m">>, <<"n">>, <<"m", "n">>, <<"k", "ping">> }
Chain(b, m0, m1, e2, m2) ==
  << [Base EXCEPT !.methods = Methods(b)], Types0, [Foo0 EXCEPT !.methods = Methods(m0)],
     TypesB,
     [File(A1(<<"IFoo">>), << A0(<<>>) >>, << Face(<<"IFoo">>) >>, <<>>)
        EXCEPT !.extends = At("@1.0", <<"IFoo">>), !.methods = Methods(m1), !.target = TRUE],
     [File(A2(<<"IFoo">>), << A0(<<>>), A1(<<>>), B0(<<"U">>) >>, << Face(<<"IFoo">>) >>, <<>>)
        EXCEPT !.extends = e2, !.methods = Methods(m2), !.target = TRUE] >>

ChainWorlds ==
  { Chain(<<"ping", "debug">>, m0, m1, e2, m2) :
      m0 \in {<<>>, <<"m">>, <<"m", "n">>}, m1 \in SomeMethods,
      e2 \in {MCIBaseName, At("@1.1", <<"IFoo">>), Short(<<"U">>), Short(<<"B">>)},
      m2 \in SomeMethods }
  \cup { Chain(b, <<"m">>, <<"n">>, MCIBaseName, <<>>) :
           b \in {<<"ping", "ping">>, <<"ping", "odd">>} }
  \cup { LET c == Chain(<<"ping">>, <<>>, <<>>, MCIBaseName, <<"n">>)
         IN [c EXCEPT ![6].methods = << [name |-> "n", note |-> x] >>] : x \in {"entry", "odd"} }

MCWorlds == NamingWorlds \cup OddWorlds \cup ChainWorlds
MCReserved == {"ping", "debug"}
MCCodeOf == [m \in MCReserved |-> IF m = "ping" THEN 9 ELSE 7]
=============================================================================
