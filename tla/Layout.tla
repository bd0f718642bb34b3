------------------------------- MODULE Layout -------------------------------
(***************************************************************************)
(* The layout of a struct, union or safe_union (CompoundType.cpp).         *)
(*                                                                         *)
(* hidl-gen walks over the fields of a compound type several times.  The   *)
(* first walk computes sizes and alignments                                *)
(* (getCompoundAlignmentAndSize).  Two others emit the C++ declaration and *)
(* the static_asserts about it (emitTypeDeclarations).  A last one emits   *)
(* the Java code, which reads and writes each field at an offset of its    *)
(* own (emitJavaTypeDeclarations).  The C++ compiler places the declared   *)
(* fields by its own rule, modelled here as external.  All of them have to *)
(* agree on where every field is: C++ sends the bytes of the object as     *)
(* they are and Java picks them apart.                                     *)
(*                                                                         *)
(* A field is known by the alignment and the size of its type.             *)
(***************************************************************************)
EXTENDS Integers, Sequences

CONSTANTS
    FieldTypes,   \* records with at least the fields align and size
    MaxFields,    \* bound: number of fields of a type
    Limits        \* most fields that a discriminator of 1, 2, 4 bytes can tell apart

Styles == {"struct", "union", "safe_union"}

ASSUME FieldTypesAssumption ==
    /\ \A t \in FieldTypes : /\ t.align \in {1, 2, 4, 8}
                             /\ t.size \in Nat \ {0}
                             /\ t.size % t.align = 0
    /\ MaxFields \in Nat
    /\ Limits \in [{1, 2, 4} -> Nat]

VARIABLES
    style, fields,     \* the declaration
    phase,             \* the walk under way
    i,                 \* the field it is at
    inner,             \* compoundLayout.innerStruct
    discriminator,     \* compoundLayout.discriminator
    overall,           \* compoundLayout.overall
    offset,            \* the local of the later walks
    native,            \* where the C++ compiler puts the fields, the union and the end
    java               \* the offsets in the Java code

layoutVars == <<style, fields, phase, i, inner, discriminator, overall, offset, native, java>>

Larger(a, b) == IF a > b THEN a ELSE b

\* Layout::getPad.
GetPad(o, align) == IF o % align > 0 THEN align - (o % align) ELSE 0

\* The C++ ABI: the least multiple of align that is not below o.
RoundUp(o, align) == ((o + align - 1) \div align) * align

\* getUnionDiscriminatorType: the narrowest unsigned type for the number of fields.
DiscriminatorSize(n) ==
    IF n <= Limits[1] THEN 1 ELSE IF n <= Limits[2] THEN 2 ELSE IF n <= Limits[4] THEN 4 ELSE 8

Part(o, align, size) == [offset |-> o, align |-> align, size |-> size]

ValidFields(s, fs) == s = "safe_union" => Len(fs) >= 2

Init ==
    /\ style \in Styles
    /\ fields \in UNION {[1..n -> FieldTypes] : n \in 0..MaxFields}
    /\ ValidFields(style, fields)
    /\ phase = "layout"
    /\ i = 1
    /\ discriminator = IF style = "safe_union"
                       THEN LET s == DiscriminatorSize(Len(fields)) IN Part(0, s, s)
                       ELSE Part(0, 1, 0)
    /\ inner = Part(IF style = "safe_union" THEN discriminator.size ELSE 0, 1, 0)
    /\ overall = Part(0, 1, 0)
    /\ offset = 0
    /\ native = [at |-> <<>>, align |-> 1, end |-> 0]
    /\ java = <<>>

Field == fields[i]

\* The loop of getCompoundAlignmentAndSize.
LayoutField ==
    /\ phase = "layout"
    /\ i <= Len(fields)
    /\ inner' = [inner EXCEPT
                   !.size = IF style = "struct"
                            THEN @ + GetPad(@, Field.align) + Field.size
                            ELSE Larger(@, Field.size),
                   !.align = Larger(@, Field.align)]
    /\ i' = i + 1
    /\ UNCHANGED <<style, fields, phase, discriminator, overall, offset, native, java>>

Padded(p) == [offset |-> p.offset + GetPad(p.offset, p.align),
              align |-> p.align,
              size |-> LET s == p.size + GetPad(p.size, p.align) IN IF s = 0 THEN 1 ELSE s]

Around(p, d) == LET end == p.offset + p.size
                    align == Larger(p.align, d.align)
                IN Part(0, align, end + GetPad(end, align))

\* The rest of getCompoundAlignmentAndSize.
LayoutEnd ==
    /\ phase = "layout"
    /\ i > Len(fields)
    /\ inner' = Padded(inner)
    /\ overall' = Around(Padded(inner), discriminator)
    /\ phase' = "declare"
    /\ i' = 1
    /\ UNCHANGED <<style, fields, discriminator, offset, native, java>>

\* A field is declared with its alignment, and the compiler places it.
DeclareField ==
    /\ phase = "declare"
    /\ i <= Len(fields)
    /\ LET o == IF style = "struct" THEN RoundUp(native.end, Field.align) ELSE 0
       IN native' = [at |-> Append(native.at, o),
                     align |-> Larger(native.align, Field.align),
                     end |-> Larger(native.end, o + Field.size)]
    /\ i' = i + 1
    /\ UNCHANGED <<style, fields, phase, inner, discriminator, overall, offset, java>>

DeclareEnd ==
    /\ phase = "declare"
    /\ i > Len(fields)
    /\ phase' = IF style = "safe_union" THEN "java" ELSE "assert"
    /\ offset' = IF style = "safe_union" THEN inner.offset ELSE 0
    /\ i' = 1
    /\ UNCHANGED <<style, fields, inner, discriminator, overall, native, java>>

\* Where the later walks put the next field, and where they go on from.
Here == offset + GetPad(offset, Field.align)

\* The second pass of emitTypeDeclarations: static_assert(offsetof(...) == offset).
AssertField ==
    /\ phase = "assert"
    /\ i <= Len(fields)
    /\ offset' = IF style = "struct" THEN Here + Field.size ELSE Here
    /\ i' = i + 1
    /\ UNCHANGED <<style, fields, phase, inner, discriminator, overall, native, java>>

\* A union has no Java code.
AssertEnd ==
    /\ phase = "assert"
    /\ i > Len(fields)
    /\ phase' = IF style = "union" THEN "done" ELSE "java"
    /\ offset' = inner.offset
    /\ i' = 1
    /\ UNCHANGED <<style, fields, inner, discriminator, overall, native, java>>

\* (A fault: the padding before a field is not counted.)
JavaFieldUnpadded ==
    /\ phase = "java"
    /\ i <= Len(fields)
    /\ java' = Append(java, Here)
    /\ offset' = IF style = "safe_union" THEN offset ELSE offset + Field.size
    /\ i' = i + 1
    /\ UNCHANGED <<style, fields, phase, inner, discriminator, overall, native>>

\* The loop of readEmbeddedFromParcel and of writeEmbeddedToBlob.
JavaField ==
    /\ phase = "java"
    /\ i <= Len(fields)
    /\ IF style = "safe_union"
       THEN java' = Append(java, offset) /\ UNCHANGED offset
       ELSE java' = Append(java, Here) /\ offset' = Here + Field.size
    /\ i' = i + 1
    /\ UNCHANGED <<style, fields, phase, inner, discriminator, overall, native>>

JavaEnd ==
    /\ phase = "java"
    /\ i > Len(fields)
    /\ phase' = "done"
    /\ UNCHANGED <<style, fields, i, inner, discriminator, overall, offset, native, java>>

LayoutNext ==
    \/ LayoutField \/ LayoutEnd
    \/ DeclareField \/ DeclareEnd
    \/ AssertField \/ AssertEnd
    \/ JavaField \/ JavaEnd

LayoutSpec == Init /\ [][LayoutNext]_layoutVars

(***************************************************************************)
(* What the C++ compiler makes of the whole declaration (external): the    *)
(* union starts after the discriminator, and an empty type takes a byte.   *)
(***************************************************************************)
NativeInner == Part(IF style = "safe_union" THEN RoundUp(discriminator.size, native.align) ELSE 0,
                    native.align,
                    RoundUp(Larger(native.end, 1), native.align))

NativeOverall == LET align == Larger(native.align, discriminator.align)
                 IN Part(0, align, RoundUp(NativeInner.offset + NativeInner.size, align))
=============================================================================
