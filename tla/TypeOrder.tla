----------------------------- MODULE TypeOrder -----------------------------
(***************************************************************************)
(* The passes of AST::postParse that decide in which order the types of a  *)
(* .hal file are emitted: AST::topologicalReorder, which walks definitions *)
(* and strong references depth first (Type::topologicalOrder), refuses     *)
(* cycles and sorts the types of every scope, and                          *)
(* AST::checkForwardReferenceRestrictions, which then refuses what C++     *)
(* forward declarations cannot express.  The recursion of the first walk   *)
(* is an explicit stack of activations; the two later walks are instances  *)
(* of Type::recursivePass, whose preorder is the sequence `pending'.       *)
(*                                                                         *)
(* Types are nodes: named types, and the unnamed vec<T> or T[n] written in *)
(* a field (`vec' stands for ref<T> too).  A program says what the parser  *)
(* built of them.                                                          *)
(***************************************************************************)
EXTENDS Integers, Sequences, FiniteSets

CONSTANTS
    Types,      \* every type node, of this file and of the files it imports
    RootScope,  \* mRootScope of the AST
    Programs,   \* what the parser may have built
    NoType      \* nullptr

Kinds == {"root", "interface", "compound", "enum", "typedef", "vec", "array"}
Scopes == {"root", "interface", "compound", "enum"}   \* Type::isScope
Named == {"root", "interface", "compound", "enum", "typedef"}

\* a reference: what it resolved to, where it is written, and whether it is
\* the supertype of an interface
References == [to : Types, at : Nat, super : BOOLEAN]

(* A program gives each node its kind, its enclosing scope, the types it   *)
(* defines and its references in order of declaration, its parse stage and *)
(* the place of its name; all nodes in stage POST_PARSE are in one file.   *)
ProgramType ==
    [kind : [Types -> Kinds], parent : [Types -> Types \cup {NoType}],
     defs : [Types -> Seq(Types)], refs : [Types -> Seq(References)],
     stage : [Types -> {"POST_PARSE", "COMPLETED"}], loc : [Types -> Nat]]

Elements(s) == {s[i] : i \in DOMAIN s}

\* the types of this file, without its root scope, that have types inside them
Enclosing(p) == {t \in Types \ {RootScope} : p.stage[t] = "POST_PARSE" /\ p.defs[t] # <<>>}

(* The parser defines every type in the scope it is written in             *)
(* (AST::addScopedType), so each is, over some scopes, inside the root     *)
(* scope: none of them are only inside each other.                         *)
IsNested(p) ==
    /\ \A t \in Enclosing(p) : \E scope \in Enclosing(p) \cup {RootScope} :
          p.parent[t] = scope /\ t \in Elements(p.defs[scope])
    /\ \A ts \in SUBSET Enclosing(p) : ts # {} => \E t \in ts : p.parent[t] \notin ts

ASSUME RootAssumption == RootScope \in Types
ASSUME NoTypeAssumption == NoType \notin Types
ASSUME ProgramsAssumption == Programs \subseteq {p \in ProgramType : IsNested(p)}

VARIABLES
    program,        \* the input, which no pass changes
    phase,          \* which pass runs, or how the run of them ended
    frames,         \* activations of topologicalOrder, outermost first
    stack,          \* its argument of that name: the types being visited
    reversedOrder,  \* its result: the finished types, in order of index
    cycleEnd,       \* CheckAcyclicStatus::cycleEnd on the way back
    printed,        \* the lines of the error: <<nextType, type>>
    mTypes,         \* Scope::mTypes of every node
    typeIndex,      \* Scope::mTypeIndexByName of every node, by the type so named
    orderChanged,   \* the scopes whose mTypeOrderChanged is set
    pending,        \* what recursivePass has still to visit, in order
    visited         \* its argument of that name

walk == <<frames, stack, reversedOrder, cycleEnd, printed>>
scopes == <<mTypes, typeIndex, orderChanged>>
pass == <<pending, visited>>
vars == <<program, phase, walk, scopes, pass>>

Indexed(s) == [t \in Elements(s) |-> CHOOSE i \in DOMAIN s : s[i] = t]
Targets(refs) == [i \in DOMAIN refs |-> refs[i].to]

-----------------------------------------------------------------------------
(* Type::topologicalOrder goes through what a type defines and then        *)
(* through its references, of which only the strong ones count.            *)

Successors(t) == program.defs[t] \o Targets(program.refs[t])

\* (A fault: arrays are taken for vectors.)
IsStrongOutsideArrays(t, ref) ==
    program.kind[t] \notin {"vec", "array"} /\ (ref.super \/ program.kind[ref.to] # "interface")

\* vec<T> and ref<T> need no complete T, and an interface must be complete
\* only where it is extended
IsStrong(t, ref) ==
    program.kind[t] # "vec" /\ (ref.super \/ program.kind[ref.to] # "interface")

\* whether the walk calls the n-th successor of t
Counts(t, n) ==
    n > Len(program.defs[t]) => IsStrong(t, program.refs[t][n - Len(program.defs[t])])

Frame(t) == [type |-> t, next |-> 1]
Top == frames[Len(frames)]
Below == SubSeq(frames, 1, Len(frames) - 1)
Advanced == [frames EXCEPT ![Len(frames)].next = @ + 1]
AtSuccessor ==
    phase = "order" /\ Len(frames) > 0 /\ Top.next <= Len(Successors(Top.type))
NextSuccessor == Successors(Top.type)[Top.next]
NextCounts == Counts(Top.type, Top.next)

-----------------------------------------------------------------------------
Init ==
    /\ program \in Programs
    /\ phase = "order"
    /\ frames = <<Frame(RootScope)>>
    /\ stack = {RootScope}
    /\ reversedOrder = <<>>
    /\ cycleEnd = NoType
    /\ printed = <<>>
    /\ mTypes = program.defs
    /\ typeIndex = [t \in Types |-> Indexed(program.defs[t])]
    /\ orderChanged = {}
    /\ pending = <<>>
    /\ visited = {}

(* The next successor is a weak reference, or Type::topologicalOrder of it *)
(* answers at once: it was ordered before.                                 *)
Skip ==
    /\ AtSuccessor
    /\ NextCounts => NextSuccessor \in Elements(reversedOrder) /\ NextSuccessor \notin stack
    /\ frames' = Advanced
    /\ UNCHANGED <<program, phase, stack, reversedOrder, cycleEnd, printed, scopes, pass>>

\* ... or it is called for a type not seen yet
Descend ==
    /\ AtSuccessor
    /\ NextCounts
    /\ NextSuccessor \notin stack
    /\ NextSuccessor \notin Elements(reversedOrder)
    /\ frames' = Append(frames, Frame(NextSuccessor))
    /\ stack' = stack \cup {NextSuccessor}
    /\ UNCHANGED <<program, phase, reversedOrder, cycleEnd, printed, scopes, pass>>

\* (A fault: a type on the stack is taken for one that is ordered.)
FindCycleForgiven ==
    /\ AtSuccessor
    /\ NextCounts
    /\ NextSuccessor \in stack
    /\ frames' = Advanced
    /\ UNCHANGED <<program, phase, stack, reversedOrder, cycleEnd, printed, scopes, pass>>

\* ... or it is on the stack: an error, with that type as the end of the cycle
FindCycle ==
    /\ AtSuccessor
    /\ NextCounts
    /\ NextSuccessor \in stack
    /\ phase' = "unwind"
    /\ cycleEnd' = NextSuccessor
    /\ UNCHANGED <<program, frames, stack, reversedOrder, printed, scopes, pass>>

\* all successors are ordered: this type gets the next index and its caller goes on
Complete ==
    /\ phase = "order"
    /\ Len(frames) > 0
    /\ Top.next > Len(Successors(Top.type))
    /\ stack' = stack \ {Top.type}
    /\ reversedOrder' = Append(reversedOrder, Top.type)
    /\ frames' = IF Len(frames) = 1
                 THEN <<>>
                 ELSE [Below EXCEPT ![Len(frames) - 1].next = @ + 1]
    /\ UNCHANGED <<program, phase, cycleEnd, printed, scopes, pass>>

\* (A fault: the lines go on when the cycle is closed.)
UnwindToRoot ==
    /\ phase = "unwind"
    /\ Len(frames) > 0
    /\ printed' = Append(printed, <<NextSuccessor, Top.type>>)
    /\ frames' = Below
    /\ UNCHANGED <<program, phase, stack, reversedOrder, cycleEnd, scopes, pass>>

(* An activation returns an error of a successor: it prints a line of the  *)
(* cycle until the type at its end is reached.                             *)
Unwind ==
    /\ phase = "unwind"
    /\ Len(frames) > 0
    /\ printed' = IF cycleEnd = NoType
                  THEN printed
                  ELSE Append(printed, <<NextSuccessor, Top.type>>)
    /\ cycleEnd' = IF cycleEnd = Top.type THEN NoType ELSE cycleEnd
    /\ frames' = Below
    /\ UNCHANGED <<program, phase, stack, reversedOrder, scopes, pass>>

Reject ==
    /\ phase = "unwind"
    /\ frames = <<>>
    /\ phase' = "rejected"
    /\ UNCHANGED <<program, walk, scopes, pass>>

StartReorder ==
    /\ phase = "order"
    /\ frames = <<>>
    /\ phase' = "reorder"
    /\ pending' = <<RootScope>>
    /\ visited' = {}
    /\ UNCHANGED <<program, walk, scopes>>

-----------------------------------------------------------------------------
(* Type::recursivePass in stage POST_PARSE: a type that is COMPLETED, of   *)
(* an imported file, or visited before is passed over; of another one the  *)
(* function runs, then the types it defines and all its references follow, *)
(* weak ones too.                                                          *)

PassedOver(t) == program.stage[t] = "COMPLETED" \/ t \in visited

Follow(t) ==
    /\ visited' = visited \cup {t}
    /\ pending' = mTypes'[t] \o Targets(program.refs[t]) \o Tail(pending)

PassOver ==
    /\ phase \in {"reorder", "restrict"}
    /\ pending # <<>>
    /\ PassedOver(Head(pending))
    /\ pending' = Tail(pending)
    /\ UNCHANGED <<program, phase, walk, scopes, visited>>

\* what s has of a set
Among(s, set) ==
    LET first[n \in 0 .. Len(s)] ==
            IF n = 0 THEN <<>>
            ELSE IF s[n] \in set THEN Append(first[n - 1], s[n]) ELSE first[n - 1]
    IN first[Len(s)]

\* the types of a scope, sorted by their index in reversedOrder
SortedTypes(t) == Among(reversedOrder, Elements(mTypes[t]))

InOrder(t) ==
    program.kind[t] \notin Scopes \/ Len(mTypes[t]) < 2 \/ SortedTypes(t) = mTypes[t]

\* some type has no index: reversedOrder.at() throws
Unnumbered(t) == ~(Elements(mTypes[t]) \subseteq Elements(reversedOrder))

(* Scope::topologicalReorder on one type of the pass.                      *)
KeepOrder ==
    /\ phase = "reorder"
    /\ pending # <<>>
    /\ ~PassedOver(Head(pending))
    /\ InOrder(Head(pending))
    /\ UNCHANGED <<program, phase, walk, scopes>>
    /\ Follow(Head(pending))

\* (A fault: the positions by name are not renewed.)
SortUnindexed ==
    LET t == Head(pending)
    IN /\ phase = "reorder"
       /\ pending # <<>>
       /\ ~PassedOver(t)
       /\ ~InOrder(t)
       /\ phase' = IF Unnumbered(t) THEN "threw" ELSE phase
       /\ mTypes' = [mTypes EXCEPT ![t] = SortedTypes(t)]
       /\ orderChanged' = orderChanged \cup {t}
       /\ UNCHANGED <<program, walk, typeIndex>>
       /\ Follow(t)

Sort ==
    LET t == Head(pending)
    IN /\ phase = "reorder"
       /\ pending # <<>>
       /\ ~PassedOver(t)
       /\ ~InOrder(t)
       /\ phase' = IF Unnumbered(t) THEN "threw" ELSE phase
       /\ mTypes' = [mTypes EXCEPT ![t] = SortedTypes(t)]
       /\ typeIndex' = [typeIndex EXCEPT ![t] = Indexed(SortedTypes(t))]
       /\ orderChanged' = orderChanged \cup {t}
       /\ UNCHANGED <<program, walk>>
       /\ Follow(t)

StartRestrict ==
    /\ phase = "reorder"
    /\ pending = <<>>
    /\ phase' = "restrict"
    /\ pending' = <<RootScope>>
    /\ visited' = {}
    /\ UNCHANGED <<program, walk, scopes>>

-----------------------------------------------------------------------------
(* Type::checkForwardReferenceRestrictions.                                *)

\* the references to named types a reference is made of: itself, or those
\* inside the vector or array it writes
LeafReferences[ref \in References] ==
    IF program.kind[ref.to] \in Named
    THEN {ref}
    ELSE UNION {LeafReferences[inner] : inner \in Elements(program.refs[ref.to])}

AncestorsOrSelf[t \in Types] ==
    {t} \cup (IF program.parent[t] = NoType THEN {} ELSE AncestorsOrSelf[program.parent[t]])

\* declared in another file, or before the reference
DeclaredBefore(ref) ==
    program.stage[ref.to] = "COMPLETED" \/ program.loc[ref.to] < ref.at

\* or where a forward declaration of it can be seen
ForwardDeclarable(t, ref) == program.parent[ref.to] \in AncestorsOrSelf[t]

Restricted(t) ==
    \E ref \in Elements(program.refs[t]) : \E leaf \in LeafReferences[ref] :
        ~DeclaredBefore(leaf) /\ ~ForwardDeclarable(t, leaf)

CheckForward ==
    LET t == Head(pending)
    IN /\ phase = "restrict"
       /\ pending # <<>>
       /\ ~PassedOver(t)
       /\ phase' = IF Restricted(t) THEN "rejected" ELSE phase
       /\ UNCHANGED <<program, walk, scopes>>
       /\ Follow(t)

Accept ==
    /\ phase = "restrict"
    /\ pending = <<>>
    /\ phase' = "accepted"
    /\ UNCHANGED <<program, walk, scopes, pass>>

-----------------------------------------------------------------------------
Next ==
    \/ Skip \/ Descend \/ FindCycle \/ Complete \/ Unwind \/ Reject
    \/ StartReorder \/ PassOver \/ KeepOrder \/ Sort \/ StartRestrict \/ CheckForward \/ Accept

Spec == Init /\ [][Next]_vars

(* The passes are plain recursive calls of one thread.                     *)
FairSpec == Spec /\ WF_vars(Next)
=============================================================================
