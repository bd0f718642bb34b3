------------------------ MODULE TypeOrderProperties ------------------------
(***************************************************************************)
(* What the passes of TypeOrder promise the generators that run after      *)
(* them.                                                                   *)
(***************************************************************************)
EXTENDS TypeOrder

SE == INSTANCE SequencesExt

Phases == {"order", "unwind", "reorder", "restrict", "threw", "rejected", "accepted"}

(* Every variable has its type; a scope's types change their order only.   *)
TypeOK ==
    /\ program \in ProgramType
    /\ phase \in Phases
    /\ frames \in Seq([type : Types, next : Nat \ {0}])
    /\ stack \subseteq Types
    /\ reversedOrder \in Seq(Types)
    /\ cycleEnd \in Types \cup {NoType}
    /\ printed \in Seq(Types \X Types)
    /\ mTypes \in [Types -> Seq(Types)]
    /\ \A t \in Types : Elements(mTypes[t]) = Elements(program.defs[t])
    /\ orderChanged \subseteq Types
    /\ pending \in Seq(Types)
    /\ visited \subseteq Types

-----------------------------------------------------------------------------
(* What C++ requires to be complete before a type is: the types inside it, *)
(* and those it contains or extends.  A reference to an interface is a     *)
(* pointer, and a vector holds its elements by pointer.                    *)
Embeds(t, ref) ==
    program.kind[t] # "vec" /\ (program.kind[ref.to] = "interface" => ref.super)

Required(t) ==
    Elements(program.defs[t])
        \cup {ref.to : ref \in {r \in Elements(program.refs[t]) : Embeds(t, r)}}

(* Whatever a type requires has a smaller index than the type, and no type *)
(* has two indices: Type::topologicalOrder numbers the types in a          *)
(* topological order.                                                      *)
OrderIsLinear ==
    \A j \in DOMAIN reversedOrder :
        /\ \A u \in Required(reversedOrder[j]) : \E i \in 1 .. j - 1 : reversedOrder[i] = u
        /\ \A i \in DOMAIN reversedOrder : reversedOrder[i] = reversedOrder[j] => i = j

(* The error lines of Type::topologicalOrder are a cycle of the program:   *)
(* each names a type and one that requires it, the next line goes on from  *)
(* there, and the last one closes the cycle.                               *)
PrintedIsCycle ==
    phase = "rejected" /\ printed # <<>> =>
        /\ \A i \in DOMAIN printed : printed[i][1] \in Required(printed[i][2])
        /\ \A i \in 1 .. Len(printed) - 1 : printed[i][2] = printed[i + 1][1]
        /\ printed[Len(printed)][2] = printed[1][1]

(* The pass that sorts the scopes follows weak references too, yet it      *)
(* sorts no scope whose types the walk along strong references did not     *)
(* number: reversedOrder.at() does not throw.                              *)
KeysAreKnown == phase # "threw"

(* Scope::lookupType finds each type under its own name, before and after  *)
(* the types of the scope changed places.                                  *)
LookupFindsItself ==
    \A t \in Types : \A u \in Elements(mTypes[t]) :
        u \in DOMAIN typeIndex[t] /\ mTypes[t][typeIndex[t][u]] = u

(* The scopes agree with the numbering and with their own index, although  *)
(* one pass fills what another reads (Scope::topologicalReorder).          *)
ScopesAreKnown == TypeOK /\ KeysAreKnown /\ LookupFindsItself

-----------------------------------------------------------------------------
(* The C++ header: the types of a scope in the order of mTypes, each with  *)
(* the types inside it first (Scope::emitTypeDeclarations and              *)
(* CompoundType::emitTypeDeclarations).                                    *)

Emitted[t \in Types] ==
    SE!FlattenSeq([i \in DOMAIN mTypes[t] |-> Emitted[mTypes[t][i]]]) \o <<t>>

Header == Emitted[RootScope]

\* the named types that a type contains, itself or in an array
Leaves[t \in Types] ==
    UNION {IF program.kind[ref.to] \in Named THEN {ref.to} ELSE Leaves[ref.to] :
               ref \in {r \in Elements(program.refs[t]) : Embeds(t, r)}}

\* those of them that are of this file
Needs(t) == {u \in Leaves[t] : program.stage[u] = "POST_PARSE"}

(* "All types referenced in this type that must have completed definiton   *)
(* before being referenced" (Type.h:84) have it, in a header that is       *)
(* generated: in an accepted program, the types of this file that a type   *)
(* contains are emitted before it.                                         *)
DefinedFirst ==
    phase = "accepted" =>
        \A j \in DOMAIN Header : \A u \in Needs(Header[j]) :
            \E i \in 1 .. j - 1 : Header[i] = u

(* It is so for references within a scope: to a type defined in a scope    *)
(* that encloses the reference.                                            *)
SiblingsDefinedFirst ==
    phase = "accepted" =>
        \A j \in DOMAIN Header : \A u \in Needs(Header[j]) :
            program.parent[u] \in AncestorsOrSelf[Header[j]] =>
                \E i \in 1 .. j - 1 : Header[i] = u

(* It is so for every reference when the sort left all scopes as they were *)
(* written: what checkForwardReferenceRestrictions accepts, by its place   *)
(* in the source, is then in the same place in the header.                 *)
UnchangedDefinedFirst == orderChanged = {} => DefinedFirst

(* Of an accepted file, the generated header defines a type before its     *)
(* use, as far as the two rules, one on places and one on the order, go.   *)
TypesAreDefinedFirst == SiblingsDefinedFirst /\ UnchangedDefinedFirst
=============================================================================
