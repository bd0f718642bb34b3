------------------------------ MODULE MCDriver ------------------------------
(***************************************************************************)
(* Three packages, a that imports b that imports c, of which one file may  *)
(* be bad and one may not be fit for Java; every option of -L, and every   *)
(* way in which the other options can be wrong.                            *)
(***************************************************************************)
EXTENDS DriverProperties

Package(p) == [package |-> p, version |-> "@1.0", names |-> <<>>]
A(ns) == [Package(<<"x", "a">>) EXCEPT !.names = ns]
B(ns) == [Package(<<"x", "b">>) EXCEPT !.names = ns]
C(ns) == [Package(<<"c">>) EXCEPT !.names = ns]

MCSpelling ==
  "IFoo" :> <<"I", "Foo">> @@ "IHwFoo" :> <<"I", "Hw", "Foo">> @@ "IBar" :> <<"I", "Bar">>
  @@ "IGone" :> <<"I", "Gone">> @@ "types" :> <<"types">> @@ "T" :> <<"T">> @@ "U" :> <<"U">> @@ "Gone" :> <<"Gone">>
MCDirectPath == Package(<<>>)
MCDefaultRoots == << <<"x">>, <<"h">> >>
Empty == Package(<<"x", "e">>)
MCDirectories == {Empty}

Imports ==
  A(<<"types">>) :> {} @@ A(<<"IFoo">>) :> {B(<<"types">>)} @@ A(<<"IHwFoo">>) :> {A(<<"IFoo">>)}
  @@ B(<<"types">>) :> {} @@ B(<<"IFoo">>) :> {C(<<"IBar">>)} @@ C(<<"IBar">>) :> {}

Tree(bad, foreign) ==
  [f \in DOMAIN Imports |->
     [imports |-> Imports[f], good |-> f # bad, java |-> f # foreign,
      types |-> IF f = A(<<"types">>) THEN {"T", "U"} ELSE {}]]

AllGood == Tree(Package(<<>>), Package(<<>>))
Nothing == Package(<<>>)
MCTrees ==
  {Tree(bad, foreign) :
     bad \in {Nothing, A(<<"types">>), A(<<"IHwFoo">>), C(<<"IBar">>)},
     foreign \in {Nothing, A(<<"types">>), A(<<"IFoo">>), C(<<"IBar">>)}}

Opt(k, v) == [key |-> k, value |-> v]
Command(options, args) == [options |-> options, args |-> args, top |-> "top"]

\* The usual options, with the roots of the three packages.
Usual(l) == << Opt("o", "out"), Opt("L", l), Opt("r", <<"c">>) >>
Dep(l) == Append(Usual(l), Opt("d", "dep"))
Verbose(l) == Append(Dep(l), Opt("v", "on"))

SomeArgs ==
  { << A(<<>>) >>, << A(<<"IFoo">>) >>, << B(<<>>), A(<<>>) >>, << A(<<"IHwFoo">>), B(<<"IFoo">>) >>,
    << A(<<"types">>) >>, << A(<<"types", "T">>) >> }
StrangeArgs ==
  { << A(<<"IGone">>) >>, << A(<<"types", "Gone">>) >>, << A(<<"IFoo", "T">>) >>, << C(<<>>) >>,
    << Package(<<"z">>) >>, << >>, << Empty, A(<<"IFoo">>) >>, << B(<<"types">>), Package(<<"x", "z">>) >> }

OftenUsed == {"cpp", "impl", "java", "androidbp", "exportHeader", "hash"}

\* Options that are missing, repeated, unknown or in conflict.
StrangeOptions ==
  { << >>, << Opt("L", "java") >>, << Opt("L", "java"), Opt("L", "java") >>,
    << Opt("L", "pascal") >>, << Opt("?", "") >>, << Opt("r", <<>>) >>,
    << Opt("L", "androidbp"), Opt("r", <<"c">>) >>, << Opt("L", "check"), Opt("p", "a"), Opt("p", "b") >>,
    << Opt("o", "a"), Opt("o", "b") >>, << Opt("O", "a"), Opt("O", "b") >>,
    << Opt("r", <<"x">>), Opt("r", <<"x", "a">>) >>, << Opt("r", <<"x", "a">>), Opt("r", <<"x">>) >>,
    << Opt("L", "vts"), Opt("o", "out"), Opt("r", <<"x", "a">>) >>,
    << Opt("L", "vts"), Opt("o", "out"), Opt("R", "on"), Opt("r", <<"x", "a">>) >> }

CommonLines == {Command(Dep(l), as) : l \in OftenUsed, as \in SomeArgs}
RareLines ==
  {Command(Verbose(l), as) : l \in DOMAIN Formats, as \in SomeArgs \cup StrangeArgs}
  \cup {Command(os, << A(<<>>) >>) : os \in StrangeOptions}

MCCommandLines == CommonLines \cup RareLines
MCInit == Init /\ (cmd \in RareLines => tree \in {AllGood, Tree(Nothing, A(<<"types">>))})
MCSpec == MCInit /\ [][Next]_vars
=============================================================================
