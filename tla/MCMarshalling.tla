--------------------------- MODULE MCMarshalling ----------------------------
(***************************************************************************)
(* Calls with every kind of argument: scalars and strings, vectors of all  *)
(* sorts of elements, arrays, structs, unions and safe unions with and     *)
(* without pointers, interfaces (one that cannot be unwrapped), references *)
(* to the same object, to themselves and in circles.                       *)
(***************************************************************************)
EXTENDS MarshallingProperties

Plain(k) == [k |-> k]
Of(k, e) == [k |-> k, e |-> e]
Struct(f) == [k |-> "struct", f |-> f, nested |-> <<>>]
SafeUnionOf(f) == [k |-> "safe_union", f |-> f, nested |-> <<>>]

G == [
    int |-> Plain("scalar"), str |-> Plain("string"), hnd |-> Plain("handle"),
    mem |-> Plain("memory"), fmq |-> Of("fmq", "int"),
    ICall |-> [k |-> "interface", uses |-> <<"str", "ICall">>],
    vInt |-> Of("vec", "int"), vStr |-> Of("vec", "str"), vCall |-> Of("vec", "ICall"),
    vvStr |-> Of("vec", "vStr"),
    aStr |-> [k |-> "array", e |-> "str", dims |-> 1],
    aaStr |-> [k |-> "array", e |-> "int", dims |-> 2], vAA |-> Of("vec", "aaStr"),
    Flat |-> Struct(<<"int", "int">>),
    Pair |-> Struct(<<"int", "str">>), vPair |-> Of("vec", "Pair"),
    aPair |-> [k |-> "array", e |-> "Pair", dims |-> 1],
    Hnds |-> Struct(<<"hnd", "vHnd">>), vHnd |-> Of("vec", "hnd"),
    Deep |-> Struct(<<"aPair", "vPair", "str">>),
    U |-> [k |-> "union", f |-> <<"int">>, nested |-> <<>>],
    WithU |-> Struct(<<"U", "str">>),
    S |-> SafeUnionOf(<<"int", "str", "vInt">>), vS |-> Of("vec", "S"),
    Calls |-> Struct(<<"ICall", "str", "Flat">>),
    SCall |-> SafeUnionOf(<<"ICall", "str">>),
    Outer |-> Struct(<<"SCall", "Calls">>),
    rStr |-> Of("ref", "str"), vR |-> Of("vec", "rStr"),
    Ref |-> Struct(<<"rStr", "vR">>),
    Tree |-> Struct(<<"int", "vTree">>), vTree |-> Of("vec", "Tree"),
    rNode |-> Of("ref", "Node"), Node |-> Struct(<<"str", "rNode">>),
    rTwo |-> Of("ref", "Node2"), Node2 |-> Struct(<<"rTwo", "vR">>), vTwo |-> Of("vec", "rTwo"),
    aTwo |-> [k |-> "array", e |-> "rTwo", dims |-> 1],
    SRef |-> SafeUnionOf(<<"rStr", "int">>)]

Call(args, vals, heap) == [types |-> G, args |-> args, vals |-> vals, heap |-> heap]

CasesDef == {
    Call(<<"int", "str", "hnd">>, <<"i", "s", "h">>, <<>>),
    Call(<<"aStr", "Hnds", "int">>, <<<<"s", "t">>, <<"h", <<"k">>>>, "i">>, <<>>),
    Call(<<"rNode", "rStr", "rStr">>, <<1, 2, 0>>, <<<<"s", 1>>, "t">>),
    Call(<<"mem", "fmq">>, <<"m", "q">>, <<>>),
    Call(<<"vInt", "vStr", "vvStr">>,
         <<<<"i", "j">>, <<"s", "t">>, <<<<"s">>, <<>>, <<"t", "u">>>>>>, <<>>),
    Call(<<"aStr", "vAA">>, <<<<"s", "t">>, <<<<"i", "j">>>>>>, <<>>),
    Call(<<"Flat", "Pair", "vPair">>,
         <<<<"i", "j">>, <<"i", "s">>, <<<<"i", "s">>, <<"j", "t">>>>>>, <<>>),
    Call(<<"Deep">>, <<<<<<<<"i", "s">>, <<"j", "t">>>>, <<<<"k", "u">>>>, "v">>>>, <<>>),
    Call(<<"WithU", "U">>, <<<<<<"i">>, "s">>, <<"i">>>>, <<>>),
    Call(<<"S", "vS">>, <<<<3, <<"i">>>>, <<<<1, "i">>, <<2, "s">>, <<3, <<>>>>>>>>, <<>>),
    Call(<<"ICall", "vCall", "int">>, <<"c", <<"d", "e">>, "i">>, <<>>),
    Call(<<"ICall", "vCall", "int">>, <<"c", <<"d", "unwrappable">>, "i">>, <<>>),
    Call(<<"Calls", "str">>, <<<<"c", "s", <<"i", "j">>>>, "t">>, <<>>),
    Call(<<"Outer", "int">>, <<<<<<1, "c">>, <<"unwrappable", "s", <<"i", "j">>>>>>, "i">>, <<>>),
    Call(<<"Outer", "str">>, <<<<<<2, "s">>, <<"c", "t", <<"i", "j">>>>>>, "u">>, <<>>),
    Call(<<"Tree", "Tree">>, <<<<"i", <<<<"j", <<>>>>, <<"k", <<<<"l", <<>>>>>>>>>>>>,
                               <<"m", <<>>>>>>, <<>>),
    Call(<<"Ref">>, <<<<1, <<2, 1, 0>>>>>>, <<"s", "t">>),
    Call(<<"vR", "Ref">>, <<<<0, 2>>, <<2, <<>>>>>>, <<"s", "t">>),
    Call(<<"Node">>, <<<<"s", 1>>>>, <<<<"t", 2>>, <<"u", 1>>>>),
    Call(<<"vTwo", "aTwo">>, <<<<1, 2>>, <<2, 3>>>>,
         <<<<2, <<4>>>>, <<1, <<>>>>, <<3, <<4, 0>>>>, "s">>),
    Call(<<"SRef", "SRef">>, <<<<1, 1>>, <<2, "i">>>>, <<"s">>)}
=============================================================================
