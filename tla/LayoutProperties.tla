-------------------------- MODULE LayoutProperties --------------------------
(***************************************************************************)
(* What must hold of the layouts that hidl-gen computes.                   *)
(***************************************************************************)
EXTENDS Layout

Parts == [offset : Nat, align : {1, 2, 4, 8}, size : Nat]

\* Types of the variables of the layout.
LayoutTypeOK ==
    /\ style \in Styles
    /\ fields \in Seq(FieldTypes)
    /\ ValidFields(style, fields)
    /\ phase \in {"layout", "declare", "assert", "java", "done"}
    /\ i \in 1..Len(fields) + 1
    /\ inner \in Parts
    /\ discriminator \in Parts
    /\ overall \in Parts
    /\ offset \in Nat
    /\ native \in [at : Seq(Nat), align : {1, 2, 4, 8}, end : Nat]
    /\ java \in Seq(Nat)

Declared == phase \in {"assert", "java", "done"}

\* Every static_assert in the generated header holds: hidl-gen and the compiler agree on the
\* offset of each field, and on the size and alignment of the type and of its inner union
\* (emitLayoutAsserts, the second pass of emitTypeDeclarations).
AssertsHold ==
    /\ (phase = "assert" /\ i <= Len(fields)) => native.at[i] = Here
    /\ Declared => inner = NativeInner /\ overall = NativeOverall

\* Java reads and writes each field where C++ has it, although its offsets come from another
\* loop (CompoundType.cpp:1690 and 1850).
JavaAgrees ==
    \A k \in 1..Len(java) : java[k] = NativeInner.offset + native.at[k]

\* Every field lies in the type, after the discriminator and apart from the other fields of a
\* struct, and is aligned in each element of an array or a vector of the type.  The padding that
\* a safe_union clears, whose sizes are computed by subtraction, has no negative size.
FieldsAreApart ==
    Declared =>
        /\ overall.size % overall.align = 0
        /\ discriminator.size <= inner.offset
        /\ inner.offset + inner.size <= overall.size
        /\ \A k \in 1..Len(fields) :
             /\ inner.offset + native.at[k] + fields[k].size <= overall.size
             /\ (inner.offset + native.at[k]) % fields[k].align = 0
             /\ (k > 1 /\ style = "struct") =>
                  native.at[k - 1] + fields[k - 1].size <= native.at[k]

\* The three computations of a layout, hidl-gen's two and the compiler's, fit together and
\* leave every field room (CompoundType::getAlignmentAndSize, emitLayoutAsserts).
LayoutIsSound == LayoutTypeOK /\ AssertsHold /\ FieldsAreApart /\ JavaAgrees
=============================================================================
