---------------------------- MODULE LayoutProofs ----------------------------
(***************************************************************************)
(* The walks over the fields of a compound type and the compiler agree on  *)
(* its layout, for all types of fields and any number of them, and the     *)
(* objects of a safe_union that has this layout stay sound, for any number *)
(* of objects and all values.                                              *)
(***************************************************************************)
EXTENDS SafeUnionProperties, SequenceTheorems, TLAPS

Aligns == {1, 2, 4, 8}
Sum == [size : Nat, align : Aligns]

(* The size and the alignment after one more field.                        *)
Plus(p, f) ==
    [size |-> IF style = "struct" THEN RoundUp(p.size, f.align) + f.size ELSE Larger(p.size, f.size),
     align |-> Larger(p.align, f.align)]

(* sum[k] is the size and the alignment after k fields, for the first m.   *)
Sums == [0..Len(fields) -> Sum]
Chain(sum, m) ==
    /\ sum[0] = [size |-> 0, align |-> 1]
    /\ \A k \in 1..m : sum[k] = Plus(sum[k - 1], fields[k])

(* An empty sum has the alignment 1: fields are not empty.                 *)
EmptyIsUnaligned(p) == p.size = 0 => p.align = 1

Start == IF style = "safe_union" THEN discriminator.size ELSE 0
DiscriminatorInv ==
    /\ discriminator.offset = 0
    /\ style = "safe_union" => discriminator.size = discriminator.align
    /\ style # "safe_union" => discriminator.size = 0 /\ discriminator.align = 1

LayoutInv(sum) ==
    phase = "layout" =>
        /\ Chain(sum, i - 1) /\ EmptyIsUnaligned(sum[i - 1])
        /\ inner = Part(Start, sum[i - 1].align, sum[i - 1].size)
        /\ native = [at |-> <<>>, align |-> 1, end |-> 0]
        /\ java = <<>>

Total(sum) == sum[Len(fields)]
LaidOutInv(sum) ==
    phase # "layout" =>
        /\ Chain(sum, Len(fields)) /\ EmptyIsUnaligned(Total(sum))
        /\ inner = Padded(Part(Start, Total(sum).align, Total(sum).size))
        /\ overall = Around(inner, discriminator)

DeclareInv(sum) ==
    phase = "declare" =>
        /\ Len(native.at) = i - 1
        /\ native.align = sum[i - 1].align /\ native.end = sum[i - 1].size
        /\ java = <<>>

DeclaredInv(sum) ==
    Declared =>
        /\ Len(native.at) = Len(fields)
        /\ native.align = Total(sum).align /\ native.end = Total(sum).size

(* Where the compiler has put the fields so far.                           *)
PlacedInv(sum) ==
    /\ Len(native.at) <= Len(fields)
    /\ \A k \in 1..Len(native.at) :
        /\ native.at[k] = IF style = "struct" THEN RoundUp(sum[k - 1].size, fields[k].align) ELSE 0
        /\ native.at[k] + fields[k].size <= native.end
        /\ fields[k].align <= native.align

AssertInv(sum) ==
    phase = "assert" =>
        /\ style # "safe_union"
        /\ offset = IF style = "struct" THEN sum[i - 1].size ELSE 0
        /\ java = <<>>

JavaInv(sum) ==
    /\ phase = "java" =>
        /\ style # "union"
        /\ Len(java) = i - 1
        /\ offset = inner.offset + IF style = "struct" THEN sum[i - 1].size ELSE 0
    /\ Len(java) <= Len(fields)
    /\ \A k \in 1..Len(java) : java[k] = inner.offset + native.at[k]

SumInv(sum) ==
    /\ LayoutInv(sum) /\ LaidOutInv(sum)
    /\ DeclareInv(sum) /\ DeclaredInv(sum) /\ PlacedInv(sum)
    /\ AssertInv(sum) /\ JavaInv(sum)

IInv == LayoutTypeOK /\ DiscriminatorInv /\ \E sum \in Sums : SumInv(sum)

-----------------------------------------------------------------------------
(* GetPad is what rounding up to an alignment adds.                        *)
LEMMA RoundUpIsPad ==
    ASSUME NEW o \in Nat, NEW a \in Aligns
    PROVE  /\ RoundUp(o, a) = o + GetPad(o, a)
           /\ RoundUp(o, a) \in Nat /\ RoundUp(o, a) >= o
           /\ RoundUp(o, a) % a = 0
           /\ GetPad(o, a) \in Nat
<1>1. CASE a = 1
  BY <1>1 DEF RoundUp, GetPad
<1>2. CASE a = 2
  BY <1>2 DEF RoundUp, GetPad
<1>4. CASE a = 4
  BY <1>4 DEF RoundUp, GetPad
<1>8. CASE a = 8
  BY <1>8 DEF RoundUp, GetPad
<1> QED  BY <1>1, <1>2, <1>4, <1>8 DEF Aligns

LEMMA PadOfZero ==
    ASSUME NEW a \in Aligns
    PROVE  GetPad(0, a) = 0
BY DEF GetPad, Aligns

LEMMA Divides ==
    ASSUME NEW o \in Nat, NEW a \in Aligns, NEW b \in Aligns, a <= b, o % b = 0
    PROVE  o % a = 0
BY DEF Aligns

LEMMA FieldFacts ==
    ASSUME LayoutTypeOK, NEW k \in 1..Len(fields)
    PROVE  /\ fields[k].align \in Aligns
           /\ fields[k].size \in Nat /\ fields[k].size > 0
           /\ Len(fields) \in Nat
<1>1. fields \in Seq(FieldTypes)
  BY DEF LayoutTypeOK
<1>2. fields[k] \in FieldTypes /\ Len(fields) \in Nat
  BY <1>1, ElementOfSeq, LenProperties
<1>3. \A t \in FieldTypes : t.align \in {1, 2, 4, 8} /\ t.size \in Nat \ {0}
  BY FieldTypesAssumption
<1> QED  BY <1>2, <1>3 DEF Aligns

LEMMA PlusFacts ==
    ASSUME LayoutTypeOK, NEW p \in Sum, NEW k \in 1..Len(fields)
    PROVE  /\ Plus(p, fields[k]) \in Sum
           /\ Plus(p, fields[k]).size > 0
           /\ Plus(p, fields[k]).size =
                IF style = "struct" THEN RoundUp(p.size, fields[k].align) + fields[k].size
                ELSE Larger(p.size, fields[k].size)
           /\ Plus(p, fields[k]).align = Larger(p.align, fields[k].align)
<1> DEFINE f == fields[k]
<1>1. f.align \in Aligns /\ f.size \in Nat /\ f.size > 0
  BY FieldFacts
<1>2. p.size \in Nat /\ p.align \in Aligns
  BY DEF Sum
<1>3. RoundUp(p.size, f.align) \in Nat
  BY <1>1, <1>2, RoundUpIsPad
<1> HIDE DEF f
<1>4. Larger(p.size, f.size) \in Nat /\ Larger(p.size, f.size) > 0
  BY <1>1, <1>2 DEF Larger
<1>5. Larger(p.align, f.align) \in Aligns
  BY <1>1, <1>2 DEF Larger
<1> DEFINE s == IF style = "struct" THEN RoundUp(p.size, f.align) + f.size
                ELSE Larger(p.size, f.size)
<1>6. s \in Nat /\ s > 0
  BY <1>1, <1>3, <1>4
<1>7. Plus(p, f) = [size |-> s, align |-> Larger(p.align, f.align)]
  BY DEF Plus
<1> HIDE DEF s
<1>8. Plus(p, f) \in Sum /\ Plus(p, f).size > 0 /\ Plus(p, f).size = s
      /\ Plus(p, f).align = Larger(p.align, f.align)
  BY <1>5, <1>6, <1>7 DEF Sum
<1> QED  BY <1>8 DEF f, s

(* What the compound as a whole has after the fields are laid out.         *)
LEMMA PaddedFacts ==
    ASSUME NEW o \in Nat, NEW p \in Sum
    PROVE  LET q == Padded(Part(o, p.align, p.size))
           IN /\ q \in Parts
              /\ q.offset = RoundUp(o, p.align) /\ q.align = p.align
              /\ q.size = IF RoundUp(p.size, p.align) = 0 THEN 1 ELSE RoundUp(p.size, p.align)
              /\ q.size >= p.size
<1>1. p.size \in Nat /\ p.align \in Aligns
  BY DEF Sum
<1> DEFINE r == Part(o, p.align, p.size)
           q == Padded(r)
           s == IF RoundUp(p.size, p.align) = 0 THEN 1 ELSE RoundUp(p.size, p.align)
<1>2. r.offset = o /\ r.align = p.align /\ r.size = p.size
  BY DEF Part
<1>3. /\ RoundUp(o, p.align) = o + GetPad(o, p.align) /\ RoundUp(o, p.align) \in Nat
      /\ RoundUp(p.size, p.align) = p.size + GetPad(p.size, p.align)
      /\ RoundUp(p.size, p.align) \in Nat /\ RoundUp(p.size, p.align) >= p.size
  BY <1>1, RoundUpIsPad
<1>4. s \in Nat /\ s >= p.size
  BY <1>1, <1>3
<1>5. q = [offset |-> RoundUp(o, p.align), align |-> p.align, size |-> s]
  BY <1>2, <1>3 DEF Padded
<1> HIDE DEF q, s
<1>6. q \in Parts /\ q.offset = RoundUp(o, p.align) /\ q.align = p.align /\ q.size = s
  BY <1>1, <1>3, <1>4, <1>5 DEF Parts, Aligns
<1> QED  BY <1>4, <1>6 DEF q, s

LEMMA AroundFacts ==
    ASSUME NEW p \in Parts, NEW d \in Parts
    PROVE  LET q == Around(p, d)
           IN /\ q \in Parts
              /\ q.size = RoundUp(p.offset + p.size, Larger(p.align, d.align))
              /\ q = Part(0, Larger(p.align, d.align),
                          RoundUp(p.offset + p.size, Larger(p.align, d.align)))
              /\ p.offset + p.size <= q.size
              /\ q.size % q.align = 0
<1> DEFINE a == Larger(p.align, d.align)
           e == p.offset + p.size
<1>1. a \in Aligns /\ e \in Nat
  BY DEF Parts, Aligns, Larger
<1> HIDE DEF a, e
<1>2. /\ RoundUp(e, a) = e + GetPad(e, a) /\ RoundUp(e, a) \in Nat
      /\ RoundUp(e, a) >= e /\ RoundUp(e, a) % a = 0
  BY <1>1, RoundUpIsPad
<1>3. Around(p, d) = Part(0, a, RoundUp(e, a))
  BY <1>2 DEF Around, a, e
<1>4. /\ Part(0, a, RoundUp(e, a)) \in Parts
      /\ Part(0, a, RoundUp(e, a)).size = RoundUp(e, a)
      /\ Part(0, a, RoundUp(e, a)).align = a
  BY <1>1, <1>2 DEF Part, Parts, Aligns
<1> QED  BY <1>2, <1>3, <1>4 DEF a, e

LEMMA TypeFacts ==
    ASSUME LayoutTypeOK
    PROVE  /\ Len(fields) \in Nat /\ i \in 1..Len(fields) + 1 /\ i \in Nat
           /\ Len(native.at) \in Nat /\ DOMAIN native.at = 1..Len(native.at)
           /\ native.align \in Aligns /\ native.end \in Nat
           /\ Len(java) \in Nat
           /\ \A k \in 1..Len(native.at) : native.at[k] \in Nat
<1>1. native.at \in Seq(Nat) /\ java \in Seq(Nat) /\ fields \in Seq(FieldTypes)
  BY DEF LayoutTypeOK
<1>2. i \in 1..Len(fields) + 1 /\ native.align \in Aligns /\ native.end \in Nat
  BY DEF LayoutTypeOK, Aligns
<1> QED  BY <1>1, <1>2, LenProperties, ElementOfSeq

LEMMA StartIsNat ==
    ASSUME LayoutTypeOK, DiscriminatorInv
    PROVE  Start \in Nat
BY DEF LayoutTypeOK, DiscriminatorInv, Start, Parts

LEMMA SumElement ==
    ASSUME LayoutTypeOK, NEW sum \in Sums, NEW k \in 0..Len(fields)
    PROVE  sum[k] \in Sum /\ sum[k].size \in Nat /\ sum[k].align \in Aligns
BY DEF Sums, Sum

-----------------------------------------------------------------------------
LEMMA InitInv == Init => IInv
<1> SUFFICES ASSUME Init PROVE IInv
  OBVIOUS
<1>1. PICK n \in 0..MaxFields : fields \in [1..n -> FieldTypes]
  BY DEF Init
<1>2. fields \in Seq(FieldTypes) /\ Len(fields) = n /\ n \in Nat
  <2>1. n \in Nat
    BY FieldTypesAssumption
  <2> QED  BY <1>1, <2>1
<1>3. DiscriminatorSize(Len(fields)) \in Aligns
  BY DEF DiscriminatorSize, Aligns
<1>4. discriminator \in Parts /\ DiscriminatorInv
  BY <1>3 DEF Init, Part, Parts, DiscriminatorInv, Aligns
<1>5. inner = Part(Start, 1, 0) /\ inner \in Parts
  BY <1>4 DEF Init, Start, Part, Parts
<1>6. <<>> \in Seq(Nat) /\ Len(<<>>) = 0
  BY EmptySeq
<1>7. LayoutTypeOK
  <2>1. overall \in Parts
    BY DEF Init, Part, Parts
  <2>2. native \in [at : Seq(Nat), align : {1, 2, 4, 8}, end : Nat]
    BY <1>6 DEF Init
  <2>3. i \in 1..Len(fields) + 1
    BY <1>2 DEF Init
  <2> QED  BY <1>2, <1>4, <1>5, <1>6, <2>1, <2>2, <2>3 DEF Init, LayoutTypeOK
<1> DEFINE sum == [k \in 0..Len(fields) |-> [size |-> 0, align |-> 1]]
<1>8. sum \in Sums /\ sum[0] = [size |-> 0, align |-> 1]
  BY <1>2 DEF Sums, Sum, Aligns
<1> HIDE DEF sum
<1>9. LayoutInv(sum)
  <2>1. Chain(sum, 0) /\ EmptyIsUnaligned(sum[0])
    BY <1>8 DEF Chain, EmptyIsUnaligned
  <2> QED  BY <2>1, <1>5, <1>8 DEF Init, LayoutInv, Part
<1>10. PlacedInv(sum) /\ JavaInv(sum)
  BY <1>2, <1>6 DEF Init, PlacedInv, JavaInv
<1>11. LaidOutInv(sum) /\ DeclareInv(sum) /\ DeclaredInv(sum) /\ AssertInv(sum)
  BY DEF Init, LaidOutInv, DeclareInv, DeclaredInv, Declared, AssertInv
<1> QED  BY <1>4, <1>7, <1>8, <1>9, <1>10, <1>11 DEF IInv, SumInv

LEMMA LayoutFieldStep == IInv /\ LayoutField => IInv'
<1> SUFFICES ASSUME IInv, LayoutField PROVE IInv'
  OBVIOUS
<1>1. LayoutTypeOK /\ DiscriminatorInv
  BY DEF IInv
<1>2. PICK sum \in Sums : SumInv(sum)
  BY DEF IInv
<1>3. /\ phase = "layout" /\ i <= Len(fields)
      /\ style' = style /\ fields' = fields /\ phase' = phase /\ i' = i + 1
      /\ discriminator' = discriminator /\ overall' = overall /\ offset' = offset
      /\ native' = native /\ java' = java
  BY DEF LayoutField
<1>4. i \in 1..Len(fields) /\ i - 1 \in 0..Len(fields) /\ Len(fields) \in Nat
  BY <1>1, <1>3, TypeFacts
<1> DEFINE p == sum[i - 1]
<1>5. p \in Sum /\ p.size \in Nat /\ p.align \in Aligns
  BY <1>1, <1>4, SumElement
<1>6. /\ Chain(sum, i - 1) /\ inner = Part(Start, p.align, p.size)
      /\ native = [at |-> <<>>, align |-> 1, end |-> 0] /\ java = <<>>
  BY <1>2, <1>3 DEF SumInv, LayoutInv
<1>7. /\ Plus(p, fields[i]) \in Sum /\ Plus(p, fields[i]).size > 0
      /\ Plus(p, fields[i]).size =
           IF style = "struct" THEN RoundUp(p.size, fields[i].align) + fields[i].size
           ELSE Larger(p.size, fields[i].size)
      /\ Plus(p, fields[i]).align = Larger(p.align, fields[i].align)
  BY <1>1, <1>4, <1>5, PlusFacts
<1>8. RoundUp(p.size, fields[i].align) = p.size + GetPad(p.size, fields[i].align)
  BY <1>1, <1>4, <1>5, FieldFacts, RoundUpIsPad
<1>9. inner' = Part(Start, Plus(p, fields[i]).align, Plus(p, fields[i]).size)
  BY <1>6, <1>7, <1>8 DEF LayoutField, Part, Field
<1>10. PICK next \in Sums :
          /\ next[i] = Plus(p, fields[i])
          /\ \A k \in 0..Len(fields) : k # i => next[k] = sum[k]
  <2> DEFINE q == [sum EXCEPT ![i] = Plus(p, fields[i])]
  <2>1. /\ q \in Sums /\ q[i] = Plus(p, fields[i])
        /\ \A k \in 0..Len(fields) : k # i => q[k] = sum[k]
    BY <1>4, <1>7 DEF Sums
  <2> QED  BY <2>1
<1> HIDE DEF p
<1>11. Chain(next, i - 1)'
  <2>1. ASSUME NEW k \in 1..i
        PROVE  next[k] = Plus(next[k - 1], fields[k])
    <3>1. CASE k = i
      BY <3>1, <1>4, <1>10 DEF p
    <3>2. CASE k < i
      <4>1. k - 1 \in 0..Len(fields) /\ k - 1 # i /\ k \in 1..i - 1 /\ k \in 0..Len(fields) /\ k # i
        BY <3>2, <1>4
      <4> QED  BY <4>1, <1>6, <1>10 DEF Chain
    <3> QED  BY <3>1, <3>2, <1>4
  <2>2. next[0] = [size |-> 0, align |-> 1]
    BY <1>4, <1>6, <1>10 DEF Chain
  <2>3. i' - 1 = i
    BY <1>3, <1>4
  <2> QED  BY <2>1, <2>2, <2>3, <1>3 DEF Chain, Plus
<1>12. LayoutTypeOK'
  <2>1. inner' \in Parts
    BY <1>1, <1>7, <1>9, StartIsNat DEF Part, Parts, Sum, Aligns
  <2>2. i' \in 1..Len(fields) + 1
    BY <1>3, <1>4
  <2> QED  BY <2>1, <2>2, <1>1, <1>3 DEF LayoutTypeOK, ValidFields
<1>13. DiscriminatorInv' /\ Start' = Start /\ Sums' = Sums
  BY <1>1, <1>3 DEF DiscriminatorInv, Start, Sums
<1>14. LayoutInv(next)'
  <2>1. i' - 1 = i
    BY <1>3, <1>4
  <2>2. EmptyIsUnaligned(next[i])
    BY <1>7, <1>10 DEF EmptyIsUnaligned
  <2> QED  BY <2>1, <2>2, <1>3, <1>6, <1>9, <1>10, <1>11, <1>13
           DEF LayoutInv, EmptyIsUnaligned
<1>15. PlacedInv(next)' /\ JavaInv(next)'
  <2>1. Len(<<>>) = 0 /\ native.at = <<>>
    BY <1>6
  <2> QED  BY <2>1, <1>3, <1>4, <1>6 DEF PlacedInv, JavaInv
<1>16. LaidOutInv(next)' /\ DeclareInv(next)' /\ DeclaredInv(next)' /\ AssertInv(next)'
  BY <1>3 DEF LaidOutInv, DeclareInv, DeclaredInv, Declared, AssertInv
<1> QED  BY <1>10, <1>12, <1>13, <1>14, <1>15, <1>16 DEF IInv, SumInv

(* What stays as long as the declaration and its layout do.                *)
LEMMA Kept ==
    ASSUME style' = style, fields' = fields, inner' = inner,
           discriminator' = discriminator, overall' = overall
    PROVE  /\ Sums' = Sums /\ Start' = Start
           /\ DiscriminatorInv => DiscriminatorInv'
           /\ \A sum, m : Chain(sum, m) => Chain(sum, m)'
           /\ \A sum : Total(sum)' = Total(sum)
BY DEF Sums, Start, DiscriminatorInv, Chain, Plus, Total

LEMMA KeptLaidOut ==
    ASSUME style' = style, fields' = fields, inner' = inner,
           discriminator' = discriminator, overall' = overall,
           NEW sum, LaidOutInv(sum), phase # "layout"
    PROVE  LaidOutInv(sum)'
BY Kept DEF LaidOutInv, EmptyIsUnaligned, Padded, Part, Around

LEMMA LayoutEndStep == IInv /\ LayoutEnd => IInv'
<1> SUFFICES ASSUME IInv, LayoutEnd PROVE IInv'
  OBVIOUS
<1>1. LayoutTypeOK /\ DiscriminatorInv
  BY DEF IInv
<1>2. PICK sum \in Sums : SumInv(sum)
  BY DEF IInv
<1>3. /\ phase = "layout" /\ i > Len(fields)
      /\ style' = style /\ fields' = fields /\ phase' = "declare" /\ i' = 1
      /\ discriminator' = discriminator /\ offset' = offset
      /\ native' = native /\ java' = java
      /\ inner' = Padded(inner) /\ overall' = Around(Padded(inner), discriminator)
  BY DEF LayoutEnd
<1>a. overall' = Around(inner', discriminator)
  BY <1>3 DEF Around
<1>4. i - 1 = Len(fields) /\ Len(fields) \in 0..Len(fields) /\ Len(fields) \in Nat
  BY <1>1, <1>3, TypeFacts
<1>5. Total(sum) \in Sum
  BY <1>1, <1>4, SumElement DEF Total
<1>6. /\ Chain(sum, Len(fields)) /\ EmptyIsUnaligned(Total(sum))
      /\ inner = Part(Start, Total(sum).align, Total(sum).size)
      /\ native = [at |-> <<>>, align |-> 1, end |-> 0] /\ java = <<>>
  BY <1>2, <1>3, <1>4 DEF SumInv, LayoutInv, Total
<1>7. inner' \in Parts /\ overall' \in Parts
  <2>1. inner' \in Parts
    BY <1>1, <1>3, <1>5, <1>6, StartIsNat, PaddedFacts
  <2> QED  BY <2>1, <1>1, <1>a, AroundFacts DEF LayoutTypeOK
<1>8. LayoutTypeOK'
  <2>1. 1 \in 1..Len(fields) + 1
    BY <1>4
  <2> QED  BY <2>1, <1>1, <1>3, <1>7 DEF LayoutTypeOK, ValidFields
<1>9. DiscriminatorInv' /\ Start' = Start /\ Sums' = Sums /\ Total(sum)' = Total(sum)
  BY <1>1, <1>3 DEF DiscriminatorInv, Start, Sums, Total
<1>10. LaidOutInv(sum)'
  <2>1. Chain(sum, Len(fields))'
    BY <1>3, <1>6 DEF Chain, Plus
  <2>2. inner' = Padded(Part(Start', Total(sum)'.align, Total(sum)'.size))
    BY <1>3, <1>6, <1>9
  <2>3. overall' = Around(inner, discriminator)'
    BY <1>3, <1>a DEF Around, Part
  <2>4. (Padded(Part(Start, Total(sum).align, Total(sum).size)))' = inner'
    BY <2>2 DEF Padded, Part
  <2> QED  BY <2>1, <2>3, <2>4, <1>6, <1>9 DEF LaidOutInv, EmptyIsUnaligned
<1>11. Len(<<>>) = 0 /\ native'.at = <<>> /\ java' = <<>>
  BY <1>3, <1>6
<1>12. DeclareInv(sum)'
  <2>1. sum[0] = [size |-> 0, align |-> 1] /\ 1 - 1 = 0
    BY <1>6 DEF Chain
  <2>2. native'.align = sum[0].align /\ native'.end = sum[0].size
    BY <2>1, <1>3, <1>6
  <2> QED  BY <2>1, <2>2, <1>3, <1>11 DEF DeclareInv
<1>13. PlacedInv(sum)' /\ JavaInv(sum)'
  BY <1>3, <1>4, <1>11 DEF PlacedInv, JavaInv
<1>14. LayoutInv(sum)' /\ DeclaredInv(sum)' /\ AssertInv(sum)'
  BY <1>3 DEF LayoutInv, DeclaredInv, Declared, AssertInv
<1> QED  BY <1>8, <1>9, <1>10, <1>12, <1>13, <1>14 DEF IInv, SumInv

LEMMA DeclareFieldStep == IInv /\ DeclareField => IInv'
<1> SUFFICES ASSUME IInv, DeclareField PROVE IInv'
  OBVIOUS
<1>1. LayoutTypeOK /\ DiscriminatorInv
  BY DEF IInv
<1>2. PICK sum \in Sums : SumInv(sum)
  BY DEF IInv
<1> DEFINE o == IF style = "struct" THEN RoundUp(native.end, Field.align) ELSE 0
<1>3. /\ phase = "declare" /\ i <= Len(fields)
      /\ style' = style /\ fields' = fields /\ phase' = phase /\ i' = i + 1
      /\ inner' = inner /\ discriminator' = discriminator /\ overall' = overall
      /\ offset' = offset /\ java' = java
      /\ native' = [at |-> Append(native.at, o), align |-> Larger(native.align, Field.align),
                    end |-> Larger(native.end, o + Field.size)]
  BY DEF DeclareField
<1>4. /\ i \in 1..Len(fields) /\ i \in 0..Len(fields) /\ i - 1 \in 0..Len(fields)
      /\ Len(fields) \in Nat
  BY <1>1, <1>3, TypeFacts
<1>5. /\ Chain(sum, Len(fields)) /\ Len(native.at) = i - 1 /\ java = <<>>
      /\ native.align = sum[i - 1].align /\ native.end = sum[i - 1].size
  BY <1>2, <1>3 DEF SumInv, LaidOutInv, DeclareInv
<1>6. Field.align \in Aligns /\ Field.size \in Nat /\ Field.size > 0 /\ Field = fields[i]
  BY <1>1, <1>4, FieldFacts DEF Field
<1>7. native.align \in Aligns /\ native.end \in Nat /\ native.at \in Seq(Nat)
  BY <1>1 DEF LayoutTypeOK, Aligns
<1>8. RoundUp(native.end, Field.align) \in Nat /\ RoundUp(native.end, Field.align) >= native.end
  BY <1>6, <1>7, RoundUpIsPad
<1>9. o \in Nat /\ (style = "struct" => o >= native.end)
  BY <1>8
<1>10. /\ sum[i] = Plus(sum[i - 1], fields[i])
       /\ sum[i - 1] \in Sum
  BY <1>1, <1>4, <1>5, SumElement DEF Chain
<1>11. /\ sum[i].size = IF style = "struct" THEN o + Field.size ELSE Larger(native.end, Field.size)
       /\ sum[i].align = Larger(native.align, Field.align)
  BY <1>1, <1>4, <1>5, <1>6, <1>10, PlusFacts
<1> HIDE DEF o
<1>12. /\ native'.align = sum[i].align /\ native'.end = sum[i].size
       /\ native'.align \in Aligns /\ native'.end \in Nat
       /\ native'.end >= native.end /\ native'.end >= o + Field.size
       /\ native'.align >= native.align /\ native'.align >= Field.align
  <2>1. native'.align = Larger(native.align, Field.align)
        /\ native'.end = Larger(native.end, o + Field.size)
    BY <1>3
  <2>2. native'.align \in Aligns /\ native'.align >= native.align /\ native'.align >= Field.align
    BY <2>1, <1>6, <1>7 DEF Larger, Aligns
  <2>3. native'.end \in Nat /\ native'.end >= native.end /\ native'.end >= o + Field.size
    BY <2>1, <1>6, <1>7, <1>9 DEF Larger
  <2>4. native'.end = sum[i].size
    <3>1. CASE style = "struct"
      BY <3>1, <2>1, <1>6, <1>7, <1>9, <1>11 DEF Larger
    <3>2. CASE style # "struct"
      <4>1. o = 0
        BY <3>2 DEF o
      <4> QED  BY <3>2, <4>1, <2>1, <1>6, <1>11
    <3> QED  BY <3>1, <3>2
  <2> QED  BY <2>1, <2>2, <2>3, <2>4, <1>11
<1>13. /\ native'.at \in Seq(Nat) /\ Len(native'.at) = i
       /\ \A k \in 1..i - 1 : native'.at[k] = native.at[k]
       /\ native'.at[i] = o
  <2>1. native'.at = Append(native.at, o)
    BY <1>3
  <2>2. /\ native'.at \in Seq(Nat) /\ Len(native'.at) = Len(native.at) + 1
        /\ \A k \in 1..Len(native.at) : native'.at[k] = native.at[k]
        /\ native'.at[Len(native.at) + 1] = o
    BY <2>1, <1>7, <1>9, AppendProperties
  <2>3. Len(native.at) + 1 = i
    BY <1>4, <1>5
  <2> QED  BY <2>2, <2>3, <1>5
<1>14. LayoutTypeOK'
  <2>1. i + 1 \in 1..Len(fields) + 1
    BY <1>4
  <2>2. native' \in [at : Seq(Nat), align : {1, 2, 4, 8}, end : Nat]
    BY <1>3, <1>12, <1>13 DEF Aligns
  <2> QED  BY <2>1, <2>2, <1>1, <1>3 DEF LayoutTypeOK, ValidFields
<1>15. LaidOutInv(sum)' /\ DiscriminatorInv' /\ Sums' = Sums
  BY <1>1, <1>2, <1>3, Kept, KeptLaidOut DEF SumInv
<1>16. DeclareInv(sum)'
  <2>1. i' - 1 = i
    BY <1>3, <1>4
  <2> QED  BY <2>1, <1>3, <1>5, <1>12, <1>13 DEF DeclareInv
<1>17. PlacedInv(sum)'
  <2>1. ASSUME NEW k \in 1..i
        PROVE  /\ native'.at[k] = IF style = "struct" THEN RoundUp(sum[k - 1].size, fields[k].align)
                                  ELSE 0
               /\ native'.at[k] + fields[k].size <= native'.end
               /\ fields[k].align <= native'.align
    <3>1. CASE k = i
      BY <3>1, <1>5, <1>6, <1>12, <1>13 DEF o
    <3>2. CASE k < i
      <4>1. k \in 1..i - 1 /\ k \in 1..Len(fields)
        BY <3>2, <1>4
      <4>2. /\ native.at[k] = IF style = "struct" THEN RoundUp(sum[k - 1].size, fields[k].align)
                              ELSE 0
            /\ native.at[k] + fields[k].size <= native.end
            /\ fields[k].align <= native.align
        BY <4>1, <1>2, <1>5 DEF SumInv, PlacedInv
      <4>3. fields[k].align \in Aligns /\ fields[k].size \in Nat /\ native.at[k] \in Nat
        BY <4>1, <1>1, <1>5, FieldFacts, TypeFacts
      <4>4. native'.at[k] = native.at[k]
        BY <4>1, <1>13
      <4>5. fields[k].align <= native'.align
        BY <4>2, <4>3, <1>7, <1>12 DEF Aligns
      <4>6. native'.at[k] + fields[k].size <= native'.end
        BY <4>2, <4>3, <4>4, <1>7, <1>12
      <4> QED  BY <4>2, <4>4, <4>5, <4>6
    <3> QED  BY <3>1, <3>2, <1>4
  <2>2. i <= Len(fields)
    BY <1>3
  <2> QED  BY <2>1, <2>2, <1>3, <1>13 DEF PlacedInv
<1>18. JavaInv(sum)'
  BY <1>3, <1>4, <1>5, EmptySeq DEF JavaInv
<1>19. LayoutInv(sum)' /\ DeclaredInv(sum)' /\ AssertInv(sum)'
  BY <1>3 DEF LayoutInv, DeclaredInv, Declared, AssertInv
<1> QED  BY <1>14, <1>15, <1>16, <1>17, <1>18, <1>19 DEF IInv, SumInv

LEMMA DeclareEndStep == IInv /\ DeclareEnd => IInv'
<1> SUFFICES ASSUME IInv, DeclareEnd PROVE IInv'
  OBVIOUS
<1>1. LayoutTypeOK /\ DiscriminatorInv
  BY DEF IInv
<1>2. PICK sum \in Sums : SumInv(sum)
  BY DEF IInv
<1>3. /\ phase = "declare" /\ i > Len(fields)
      /\ phase' = IF style = "safe_union" THEN "java" ELSE "assert"
      /\ offset' = IF style = "safe_union" THEN inner.offset ELSE 0
      /\ i' = 1
      /\ style' = style /\ fields' = fields /\ inner' = inner
      /\ discriminator' = discriminator /\ overall' = overall
      /\ native' = native /\ java' = java
  BY DEF DeclareEnd
<1>4. i - 1 = Len(fields) /\ Len(fields) \in Nat
  BY <1>1, <1>3, TypeFacts
<1>5. /\ Chain(sum, Len(fields)) /\ sum[0].size = 0
      /\ Len(native.at) = Len(fields) /\ java = <<>>
      /\ native.align = Total(sum).align /\ native.end = Total(sum).size
  BY <1>2, <1>3, <1>4 DEF SumInv, LaidOutInv, DeclareInv, Chain, Total
<1>6. LayoutTypeOK'
  <2>1. offset' \in Nat /\ 1 \in 1..Len(fields) + 1
    BY <1>1, <1>3, <1>4 DEF LayoutTypeOK, Parts
  <2> QED  BY <2>1, <1>1, <1>3 DEF LayoutTypeOK, ValidFields
<1>7. LaidOutInv(sum)' /\ DiscriminatorInv' /\ Sums' = Sums /\ Total(sum)' = Total(sum)
  BY <1>1, <1>2, <1>3, Kept, KeptLaidOut DEF SumInv
<1>8. DeclaredInv(sum)' /\ PlacedInv(sum)'
  BY <1>2, <1>3, <1>5, <1>7 DEF SumInv, DeclaredInv, PlacedInv
<1>9. AssertInv(sum)'
  BY <1>3, <1>5 DEF AssertInv
<1>10. JavaInv(sum)'
  <2>1. Len(<<>>) = 0 /\ 1 - 1 = 0
    BY EmptySeq
  <2>2. inner.offset \in Nat
    BY <1>1 DEF LayoutTypeOK, Parts
  <2> QED  BY <2>1, <2>2, <1>3, <1>4, <1>5 DEF JavaInv
<1>11. LayoutInv(sum)' /\ DeclareInv(sum)'
  BY <1>3 DEF LayoutInv, DeclareInv
<1> QED  BY <1>6, <1>7, <1>8, <1>9, <1>10, <1>11 DEF IInv, SumInv

(* Where the later walks put a field of a struct, and where they go on.    *)
LEMMA NextSum ==
    ASSUME LayoutTypeOK, NEW sum \in Sums, Chain(sum, Len(fields)), i \in 1..Len(fields),
           style = "struct"
    PROVE  /\ sum[i].size = RoundUp(sum[i - 1].size, Field.align) + Field.size
           /\ RoundUp(sum[i - 1].size, Field.align)
                = sum[i - 1].size + GetPad(sum[i - 1].size, Field.align)
           /\ sum[i].size \in Nat /\ Field.size \in Nat
           /\ RoundUp(sum[i - 1].size, Field.align) \in Nat
<1>1. i - 1 \in 0..Len(fields) /\ i \in 0..Len(fields)
  BY TypeFacts
<1>2. /\ sum[i - 1] \in Sum /\ sum[i - 1].size \in Nat /\ sum[i].size \in Nat
      /\ Field.align \in Aligns /\ Field.size \in Nat
  BY <1>1, SumElement, FieldFacts DEF Field
<1>3. sum[i] = Plus(sum[i - 1], fields[i])
  BY DEF Chain
<1> QED  BY <1>2, <1>3, PlusFacts, RoundUpIsPad DEF Field

LEMMA AssertFieldStep == IInv /\ AssertField => IInv'
<1> SUFFICES ASSUME IInv, AssertField PROVE IInv'
  OBVIOUS
<1>1. LayoutTypeOK /\ DiscriminatorInv
  BY DEF IInv
<1>2. PICK sum \in Sums : SumInv(sum)
  BY DEF IInv
<1>3. /\ phase = "assert" /\ i <= Len(fields)
      /\ offset' = IF style = "struct" THEN Here + Field.size ELSE Here
      /\ i' = i + 1 /\ phase' = phase
      /\ style' = style /\ fields' = fields /\ inner' = inner
      /\ discriminator' = discriminator /\ overall' = overall
      /\ native' = native /\ java' = java
  BY DEF AssertField
<1>4. i \in 1..Len(fields) /\ i' - 1 = i /\ i' \in 1..Len(fields) + 1
  BY <1>1, <1>3, TypeFacts
<1>5. /\ Chain(sum, Len(fields)) /\ style # "safe_union" /\ java = <<>>
      /\ offset = IF style = "struct" THEN sum[i - 1].size ELSE 0
  BY <1>2, <1>3 DEF SumInv, LaidOutInv, AssertInv
<1>6. /\ offset' = IF style = "struct" THEN sum[i].size ELSE 0
      /\ offset' \in Nat
  <2>1. CASE style = "struct"
    BY <2>1, <1>1, <1>3, <1>4, <1>5, NextSum DEF Here
  <2>2. CASE style # "struct"
    <3>1. Field.align \in Aligns
      BY <1>1, <1>4, FieldFacts DEF Field
    <3> QED  BY <2>2, <3>1, <1>3, <1>5, PadOfZero DEF Here
  <2> QED  BY <2>1, <2>2
<1>7. LayoutTypeOK'
  BY <1>1, <1>3, <1>4, <1>6 DEF LayoutTypeOK, ValidFields
<1>8. LaidOutInv(sum)' /\ DiscriminatorInv' /\ Sums' = Sums /\ Total(sum)' = Total(sum)
  BY <1>1, <1>2, <1>3, Kept, KeptLaidOut DEF SumInv
<1>9. DeclaredInv(sum)' /\ PlacedInv(sum)'
  BY <1>2, <1>3, <1>8 DEF SumInv, DeclaredInv, Declared, PlacedInv
<1>10. AssertInv(sum)'
  BY <1>3, <1>4, <1>5, <1>6 DEF AssertInv
<1>11. JavaInv(sum)'
  BY <1>2, <1>3 DEF SumInv, JavaInv
<1>12. LayoutInv(sum)' /\ DeclareInv(sum)'
  BY <1>3 DEF LayoutInv, DeclareInv
<1> QED  BY <1>7, <1>8, <1>9, <1>10, <1>11, <1>12 DEF IInv, SumInv

LEMMA AssertEndStep == IInv /\ AssertEnd => IInv'
<1> SUFFICES ASSUME IInv, AssertEnd PROVE IInv'
  OBVIOUS
<1>1. LayoutTypeOK /\ DiscriminatorInv
  BY DEF IInv
<1>2. PICK sum \in Sums : SumInv(sum)
  BY DEF IInv
<1>3. /\ phase = "assert" /\ i > Len(fields)
      /\ phase' = IF style = "union" THEN "done" ELSE "java"
      /\ offset' = inner.offset /\ i' = 1
      /\ style' = style /\ fields' = fields /\ inner' = inner
      /\ discriminator' = discriminator /\ overall' = overall
      /\ native' = native /\ java' = java
  BY DEF AssertEnd
<1>4. Len(fields) \in Nat /\ 1 \in 1..Len(fields) + 1 /\ inner.offset \in Nat
  BY <1>1, TypeFacts DEF LayoutTypeOK, Parts
<1>5. Chain(sum, Len(fields)) /\ sum[0].size = 0 /\ java = <<>> /\ style # "safe_union"
  BY <1>2, <1>3 DEF SumInv, LaidOutInv, AssertInv, Chain
<1>6. LayoutTypeOK'
  BY <1>1, <1>3, <1>4 DEF LayoutTypeOK, ValidFields
<1>7. LaidOutInv(sum)' /\ DiscriminatorInv' /\ Sums' = Sums /\ Total(sum)' = Total(sum)
  BY <1>1, <1>2, <1>3, Kept, KeptLaidOut DEF SumInv
<1>8. DeclaredInv(sum)' /\ PlacedInv(sum)'
  BY <1>2, <1>3, <1>7 DEF SumInv, DeclaredInv, Declared, PlacedInv
<1>9. JavaInv(sum)'
  <2>1. Len(<<>>) = 0 /\ 1 - 1 = 0
    BY EmptySeq
  <2> QED  BY <2>1, <1>3, <1>4, <1>5 DEF JavaInv
<1>10. LayoutInv(sum)' /\ DeclareInv(sum)' /\ AssertInv(sum)'
  BY <1>3 DEF LayoutInv, DeclareInv, AssertInv
<1> QED  BY <1>6, <1>7, <1>8, <1>9, <1>10 DEF IInv, SumInv

(* A struct starts at its first field.                                     *)
LEMMA StructStarts ==
    ASSUME LayoutTypeOK, DiscriminatorInv, NEW sum \in Sums, LaidOutInv(sum), phase # "layout",
           style # "safe_union"
    PROVE  inner.offset = 0
<1>1. Total(sum) \in Sum /\ Total(sum).align \in Aligns
  BY TypeFacts, SumElement DEF Total
<1>2. inner = Padded(Part(0, Total(sum).align, Total(sum).size))
  BY DEF LaidOutInv, Start
<1>3. inner.offset = RoundUp(0, Total(sum).align)
  BY <1>1, <1>2, PaddedFacts
<1> QED  BY <1>1, <1>3, RoundUpIsPad, PadOfZero

LEMMA JavaFieldStep == IInv /\ JavaField => IInv'
<1> SUFFICES ASSUME IInv, JavaField PROVE IInv'
  OBVIOUS
<1>1. LayoutTypeOK /\ DiscriminatorInv
  BY DEF IInv
<1>2. PICK sum \in Sums : SumInv(sum)
  BY DEF IInv
<1> DEFINE o == IF style = "safe_union" THEN offset ELSE Here
<1>3. /\ phase = "java" /\ i <= Len(fields)
      /\ java' = Append(java, o)
      /\ offset' = IF style = "safe_union" THEN offset ELSE Here + Field.size
      /\ i' = i + 1 /\ phase' = phase
      /\ style' = style /\ fields' = fields /\ inner' = inner
      /\ discriminator' = discriminator /\ overall' = overall
      /\ native' = native
  BY DEF JavaField
<1>4. i \in 1..Len(fields) /\ i' - 1 = i /\ i' \in 1..Len(fields) + 1 /\ i \in Nat
  BY <1>1, <1>3, TypeFacts
<1>5. /\ Chain(sum, Len(fields)) /\ style \in {"struct", "safe_union"} /\ Len(java) = i - 1
      /\ offset = inner.offset + IF style = "struct" THEN sum[i - 1].size ELSE 0
      /\ inner.offset \in Nat /\ java \in Seq(Nat) /\ offset \in Nat
      /\ Len(native.at) = Len(fields)
  BY <1>1, <1>2, <1>3
     DEF SumInv, LaidOutInv, JavaInv, DeclaredInv, Declared, LayoutTypeOK, Styles, Parts
<1>6. native.at[i] = IF style = "struct" THEN RoundUp(sum[i - 1].size, Field.align) ELSE 0
  BY <1>2, <1>4, <1>5 DEF SumInv, PlacedInv, Field
<1>7. /\ o = inner.offset + native.at[i] /\ o \in Nat
      /\ offset' = inner.offset + (IF style = "struct" THEN sum[i].size ELSE 0)
      /\ offset' \in Nat
  <2>1. CASE style = "struct"
    <3>1. inner.offset = 0
      BY <2>1, <1>1, <1>2, <1>3, StructStarts DEF SumInv
    <3>2. sum[i - 1].size \in Nat
      <4>1. i - 1 \in 0..Len(fields)
        BY <1>1, <1>3, TypeFacts
      <4> QED  BY <4>1, <1>1, SumElement
    <3> QED  BY <2>1, <3>1, <3>2, <1>1, <1>3, <1>4, <1>5, <1>6, NextSum DEF Here
  <2>2. CASE style = "safe_union"
    BY <2>2, <1>3, <1>5, <1>6
  <2> QED  BY <2>1, <2>2, <1>5
<1> HIDE DEF o
<1>8. /\ java' \in Seq(Nat) /\ Len(java') = i /\ java'[i] = o
      /\ \A k \in 1..i - 1 : java'[k] = java[k]
  <2>1. /\ java' \in Seq(Nat) /\ Len(java') = Len(java) + 1 /\ java'[Len(java) + 1] = o
        /\ \A k \in 1..Len(java) : java'[k] = java[k]
    BY <1>3, <1>5, <1>7, AppendProperties
  <2>2. Len(java) + 1 = i
    BY <1>4, <1>5
  <2> QED  BY <2>1, <2>2, <1>5
<1>9. LayoutTypeOK'
  BY <1>1, <1>3, <1>4, <1>7, <1>8 DEF LayoutTypeOK, ValidFields
<1>10. LaidOutInv(sum)' /\ DiscriminatorInv' /\ Sums' = Sums /\ Total(sum)' = Total(sum)
  BY <1>1, <1>2, <1>3, Kept, KeptLaidOut DEF SumInv
<1>11. DeclaredInv(sum)' /\ PlacedInv(sum)'
  BY <1>2, <1>3, <1>10 DEF SumInv, DeclaredInv, Declared, PlacedInv
<1>12. JavaInv(sum)'
  <2>1. ASSUME NEW k \in 1..i
        PROVE  java'[k] = inner.offset + native.at[k]
    <3>1. CASE k = i
      BY <3>1, <1>7, <1>8
    <3>2. CASE k < i
      <4>1. k \in 1..i - 1
        BY <3>2, <1>4
      <4>2. java[k] = inner.offset + native.at[k]
        BY <4>1, <1>2, <1>5 DEF SumInv, JavaInv
      <4> QED  BY <4>1, <4>2, <1>8
    <3> QED  BY <3>1, <3>2, <1>4
  <2> QED  BY <2>1, <1>3, <1>4, <1>5, <1>7, <1>8 DEF JavaInv
<1>13. LayoutInv(sum)' /\ DeclareInv(sum)' /\ AssertInv(sum)'
  BY <1>3 DEF LayoutInv, DeclareInv, AssertInv
<1> QED  BY <1>9, <1>10, <1>11, <1>12, <1>13 DEF IInv, SumInv

LEMMA JavaEndStep == IInv /\ JavaEnd => IInv'
<1> SUFFICES ASSUME IInv, JavaEnd PROVE IInv'
  OBVIOUS
<1>1. LayoutTypeOK /\ DiscriminatorInv
  BY DEF IInv
<1>2. PICK sum \in Sums : SumInv(sum)
  BY DEF IInv
<1>3. /\ phase = "java" /\ phase' = "done" /\ i' = i /\ offset' = offset
      /\ style' = style /\ fields' = fields /\ inner' = inner
      /\ discriminator' = discriminator /\ overall' = overall
      /\ native' = native /\ java' = java
  BY DEF JavaEnd
<1>4. LayoutTypeOK'
  BY <1>1, <1>3 DEF LayoutTypeOK, ValidFields
<1>5. LaidOutInv(sum)' /\ DiscriminatorInv' /\ Sums' = Sums /\ Total(sum)' = Total(sum)
  BY <1>1, <1>2, <1>3, Kept, KeptLaidOut DEF SumInv
<1>6. DeclaredInv(sum)' /\ PlacedInv(sum)' /\ JavaInv(sum)'
  BY <1>2, <1>3, <1>5 DEF SumInv, DeclaredInv, Declared, PlacedInv, JavaInv
<1>7. LayoutInv(sum)' /\ DeclareInv(sum)' /\ AssertInv(sum)'
  BY <1>3 DEF LayoutInv, DeclareInv, AssertInv
<1> QED  BY <1>4, <1>5, <1>6, <1>7 DEF IInv, SumInv

LEMMA StepInv == IInv /\ [LayoutNext]_layoutVars => IInv'
<1> SUFFICES ASSUME IInv, [LayoutNext]_layoutVars PROVE IInv'
  OBVIOUS
<1>1. CASE UNCHANGED layoutVars
  <2>1. /\ style' = style /\ fields' = fields /\ phase' = phase /\ i' = i
        /\ inner' = inner /\ discriminator' = discriminator /\ overall' = overall
        /\ offset' = offset /\ native' = native /\ java' = java
    BY <1>1 DEF layoutVars
  <2>2. LayoutTypeOK' /\ DiscriminatorInv' /\ Sums' = Sums
    BY <2>1 DEF IInv, LayoutTypeOK, ValidFields, DiscriminatorInv, Sums
  <2>3. PICK sum \in Sums : SumInv(sum)
    BY DEF IInv
  <2>4. SumInv(sum)'
    BY <2>1, <2>3
       DEF SumInv, LayoutInv, LaidOutInv, DeclareInv, DeclaredInv, Declared, PlacedInv,
           AssertInv, JavaInv, Chain, Plus, Total, EmptyIsUnaligned, Start, Part, Padded, Around
  <2> QED  BY <2>2, <2>4 DEF IInv
<1> QED
  BY <1>1, LayoutFieldStep, LayoutEndStep, DeclareFieldStep, DeclareEndStep, AssertFieldStep,
     AssertEndStep, JavaFieldStep, JavaEndStep DEF LayoutNext

LEMMA InvariantHolds == LayoutSpec => []IInv
BY InitInv, StepInv, PTL DEF LayoutSpec

-----------------------------------------------------------------------------
(* What follows once the compiler has placed the fields.                   *)
LEMMA PartsAgree ==
    ASSUME LayoutTypeOK, DiscriminatorInv, NEW sum \in Sums, SumInv(sum), Declared
    PROVE  inner = NativeInner /\ overall = NativeOverall /\ native.end <= inner.size
<1> DEFINE p == Total(sum)
<1>1. p \in Sum /\ p.size \in Nat /\ p.align \in Aligns
  BY TypeFacts, SumElement DEF Total
<1>2. /\ inner = Padded(Part(Start, p.align, p.size)) /\ overall = Around(inner, discriminator)
      /\ EmptyIsUnaligned(p) /\ native.align = p.align /\ native.end = p.size
  BY DEF SumInv, LaidOutInv, DeclaredInv, Declared
<1>3. /\ inner.offset = RoundUp(Start, p.align) /\ inner.align = p.align
      /\ inner.size = IF RoundUp(p.size, p.align) = 0 THEN 1 ELSE RoundUp(p.size, p.align)
      /\ inner.size >= p.size
      /\ inner = Part(inner.offset, inner.align, inner.size)
  <2>1. /\ inner.offset = RoundUp(Start, p.align) /\ inner.align = p.align
        /\ inner.size = IF RoundUp(p.size, p.align) = 0 THEN 1 ELSE RoundUp(p.size, p.align)
        /\ inner.size >= p.size
    BY <1>1, <1>2, StartIsNat, PaddedFacts
  <2>2. inner = Part(inner.offset, inner.align, inner.size)
    BY DEF LayoutTypeOK, Parts, Part
  <2> QED  BY <2>1, <2>2
<1> HIDE DEF p
<1>4. inner.offset = NativeInner.offset
  <2>1. RoundUp(0, p.align) = 0
    BY <1>1, RoundUpIsPad, PadOfZero
  <2> QED  BY <1>2, <1>3, <2>1 DEF NativeInner, Part, Start
<1>5. inner.size = RoundUp(Larger(native.end, 1), native.align)
  <2>1. CASE p.size = 0
    <3>1. p.align = 1
      BY <2>1, <1>2 DEF EmptyIsUnaligned
    <3>2. RoundUp(0, 1) = 0 /\ RoundUp(1, 1) = 1
      BY DEF RoundUp
    <3> QED  BY <2>1, <3>1, <3>2, <1>2, <1>3 DEF Larger
  <2>2. CASE p.size # 0
    <3>1. Larger(p.size, 1) = p.size
      BY <2>2, <1>1 DEF Larger
    <3>2. RoundUp(p.size, p.align) # 0
      BY <2>2, <1>1, RoundUpIsPad
    <3> QED  BY <3>1, <3>2, <1>2, <1>3
  <2> QED  BY <2>1, <2>2
<1>6. inner = NativeInner
  <2>1. NativeInner = Part(NativeInner.offset, native.align,
                           RoundUp(Larger(native.end, 1), native.align))
    BY DEF NativeInner, Part
  <2> QED  BY <2>1, <1>2, <1>3, <1>4, <1>5
<1>7. overall = NativeOverall
  <2>1. inner \in Parts /\ discriminator \in Parts
    BY DEF LayoutTypeOK
  <2>2. overall = Part(0, Larger(inner.align, discriminator.align),
                       RoundUp(inner.offset + inner.size,
                               Larger(inner.align, discriminator.align)))
    BY <2>1, <1>2, AroundFacts
  <2> QED  BY <2>2, <1>2, <1>3, <1>6 DEF NativeOverall
<1> QED  BY <1>2, <1>3, <1>6, <1>7

LEMMA Asserted == IInv => AssertsHold
<1> SUFFICES ASSUME IInv PROVE AssertsHold
  OBVIOUS
<1>1. LayoutTypeOK /\ DiscriminatorInv
  BY DEF IInv
<1>2. PICK sum \in Sums : SumInv(sum)
  BY DEF IInv
<1>3. ASSUME phase = "assert", i <= Len(fields)
      PROVE  native.at[i] = Here
  <2>1. i \in 1..Len(fields) /\ Len(native.at) = Len(fields)
    BY <1>1, <1>2, <1>3, TypeFacts DEF SumInv, DeclaredInv, Declared
  <2>2. /\ native.at[i] = IF style = "struct" THEN RoundUp(sum[i - 1].size, Field.align) ELSE 0
        /\ Chain(sum, Len(fields))
        /\ offset = IF style = "struct" THEN sum[i - 1].size ELSE 0
    BY <2>1, <1>2, <1>3 DEF SumInv, PlacedInv, LaidOutInv, AssertInv, Field
  <2>3. CASE style = "struct"
    BY <2>1, <2>2, <2>3, <1>1, NextSum DEF Here
  <2>4. CASE style # "struct"
    <3>1. Field.align \in Aligns
      BY <2>1, <1>1, FieldFacts DEF Field
    <3> QED  BY <2>2, <2>4, <3>1, PadOfZero DEF Here
  <2> QED  BY <2>3, <2>4
<1> QED  BY <1>1, <1>2, <1>3, PartsAgree DEF AssertsHold

LEMMA Apart == IInv => FieldsAreApart
<1> SUFFICES ASSUME IInv, Declared PROVE FieldsAreApart
  BY DEF FieldsAreApart
<1>1. LayoutTypeOK /\ DiscriminatorInv
  BY DEF IInv
<1>2. PICK sum \in Sums : SumInv(sum)
  BY DEF IInv
<1>3. inner = NativeInner /\ native.end <= inner.size
  BY <1>1, <1>2, PartsAgree
<1>4. /\ inner \in Parts /\ inner.offset \in Nat /\ inner.size \in Nat
      /\ discriminator \in Parts /\ discriminator.size \in Nat
      /\ native.align \in Aligns /\ native.end \in Nat
  BY <1>1, TypeFacts DEF LayoutTypeOK, Parts
<1>5. /\ Chain(sum, Len(fields)) /\ Len(native.at) = Len(fields)
      /\ overall = Around(inner, discriminator)
  BY <1>2 DEF SumInv, LaidOutInv, DeclaredInv, Declared
<1>6. /\ overall.size % overall.align = 0
      /\ inner.offset + inner.size <= overall.size /\ overall.size \in Nat
  BY <1>4, <1>5, AroundFacts DEF Parts
<1>7. /\ inner.offset = IF style = "safe_union" THEN RoundUp(discriminator.size, native.align) ELSE 0
      /\ inner.offset % native.align = 0 /\ discriminator.size <= inner.offset
  <2>1. inner.offset = IF style = "safe_union" THEN RoundUp(discriminator.size, native.align) ELSE 0
    BY <1>3 DEF NativeInner, Part
  <2>2. CASE style = "safe_union"
    BY <2>1, <2>2, <1>4, RoundUpIsPad
  <2>3. CASE style # "safe_union"
    <3>1. 0 % native.align = 0
      BY <1>4 DEF Aligns
    <3> QED  BY <2>1, <2>3, <3>1, <1>1 DEF DiscriminatorInv
  <2> QED  BY <2>1, <2>2, <2>3
<1>8. ASSUME NEW k \in 1..Len(fields)
      PROVE  /\ inner.offset + native.at[k] + fields[k].size <= overall.size
             /\ (inner.offset + native.at[k]) % fields[k].align = 0
             /\ (k > 1 /\ style = "struct") =>
                  native.at[k - 1] + fields[k - 1].size <= native.at[k]
  <2>1. /\ native.at[k] = IF style = "struct" THEN RoundUp(sum[k - 1].size, fields[k].align) ELSE 0
        /\ native.at[k] + fields[k].size <= native.end
        /\ fields[k].align <= native.align
    BY <1>2, <1>5 DEF SumInv, PlacedInv
  <2>2. /\ fields[k].align \in Aligns /\ fields[k].size \in Nat /\ native.at[k] \in Nat
        /\ sum[k - 1].size \in Nat
    <3>1. k - 1 \in 0..Len(fields)
      BY <1>1, FieldFacts
    <3> QED  BY <3>1, <1>1, <1>5, FieldFacts, TypeFacts, SumElement
  <2>3. inner.offset + native.at[k] + fields[k].size <= overall.size
    <3> DEFINE a == inner.offset
               b == native.at[k]
               c == fields[k].size
    <3>1. a \in Nat /\ b \in Nat /\ c \in Nat
      BY <1>4, <2>2
    <3>2. b + c <= native.end /\ native.end \in Nat
      BY <2>1, <1>4
    <3>3. native.end <= inner.size /\ inner.size \in Nat
      BY <1>3, <1>4
    <3>4. a + inner.size <= overall.size /\ overall.size \in Nat
      BY <1>6
    <3> HIDE DEF a, b, c
    <3>5. a + b + c <= overall.size
      BY <3>1, <3>2, <3>3, <3>4
    <3> QED  BY <3>5 DEF a, b, c
  <2>4. (inner.offset + native.at[k]) % fields[k].align = 0
    <3>1. CASE style = "struct"
      <4>1. native.at[k] % fields[k].align = 0
        BY <3>1, <2>1, <2>2, RoundUpIsPad
      <4>2. inner.offset + native.at[k] = native.at[k]
        BY <3>1, <1>7, <2>2
      <4> QED  BY <4>1, <4>2
    <3>2. CASE style # "struct"
      <4>1. inner.offset + native.at[k] = inner.offset
        BY <3>2, <2>1, <1>4
      <4> QED  BY <4>1, <2>1, <2>2, <1>4, <1>7, Divides
    <3> QED  BY <3>1, <3>2
  <2>5. ASSUME k > 1, style = "struct"
        PROVE  native.at[k - 1] + fields[k - 1].size <= native.at[k]
    <3>1. k - 1 \in 1..Len(fields) /\ (k - 1) - 1 \in 0..Len(fields)
      BY <2>5, <1>1, FieldFacts
    <3>2. sum[k - 1] = Plus(sum[(k - 1) - 1], fields[k - 1])
      BY <3>1, <1>5 DEF Chain
    <3>3. sum[k - 1].size = RoundUp(sum[(k - 1) - 1].size, fields[k - 1].align) + fields[k - 1].size
      BY <3>1, <3>2, <2>5, <1>1, PlusFacts, SumElement
    <3>4. native.at[k - 1] = RoundUp(sum[(k - 1) - 1].size, fields[k - 1].align)
      BY <3>1, <2>5, <1>2, <1>5 DEF SumInv, PlacedInv
    <3>5. RoundUp(sum[k - 1].size, fields[k].align) >= sum[k - 1].size
      BY <2>2, RoundUpIsPad
    <3> QED  BY <3>3, <3>4, <3>5, <2>1, <2>5
  <2> QED  BY <2>3, <2>4, <2>5
<1> QED  BY <1>6, <1>7, <1>8 DEF FieldsAreApart

LEMMA JavaFollows == IInv => JavaAgrees
<1> SUFFICES ASSUME IInv, NEW k \in 1..Len(java) PROVE java[k] = NativeInner.offset + native.at[k]
  BY DEF JavaAgrees
<1>1. LayoutTypeOK /\ DiscriminatorInv
  BY DEF IInv
<1>2. PICK sum \in Sums : SumInv(sum)
  BY DEF IInv
<1>3. java # <<>>
  BY EmptySeq
<1>4. Declared
  BY <1>1, <1>2, <1>3
     DEF Declared, SumInv, LayoutInv, DeclareInv, AssertInv, LayoutTypeOK
<1>5. java[k] = inner.offset + native.at[k]
  BY <1>2 DEF SumInv, JavaInv
<1> QED  BY <1>1, <1>2, <1>4, <1>5, PartsAgree

(* The walks of hidl-gen and the compiler agree on the layout of every     *)
(* compound type, and every field has its own room at an aligned offset    *)
(* (getCompoundAlignmentAndSize, emitTypeDeclarations and                  *)
(* emitJavaTypeDeclarations).                                              *)
THEOREM LayoutIsSoundHolds == LayoutSpec => []LayoutIsSound
<1>1. IInv => LayoutIsSound
  BY Asserted, Apart, JavaFollows DEF IInv, LayoutIsSound
<1> QED  BY <1>1, InvariantHolds, PTL

-----------------------------------------------------------------------------
(* The objects of a safe_union.                                            *)

(* The discriminator, the union and the members have room once the layout  *)
(* is known.                                                               *)
Room ==
    /\ discriminator.size \in Nat /\ inner.offset \in Nat /\ inner.size \in Nat
    /\ overall.size \in Nat
    /\ discriminator.size <= inner.offset
    /\ inner.offset + inner.size <= overall.size
    /\ 1 \in Members /\ Members \subseteq Nat \ {0}
    /\ \A k \in Members : fields[k].size \in Nat /\ fields[k].size <= inner.size

Vals == Values \cup {Default, Moved, Gone}
Place == 0..(overall.size - 1)
Memory == [Place -> Int]
MemberPlace(k) == inner.offset..(inner.offset + fields[k].size - 1)

Cells == [exists : BOOLEAN, mem : {<<>>} \cup Memory, d : Int, alive : SUBSET Int, val : Vals]

(* An object that exists: every byte has a value, those of the one live    *)
(* member, which the discriminator names, have its value.                  *)
Given(m) == \A p \in Place : m[p] # Junk
Holds(m, k) == \A p \in MemberPlace(k) : m[p] \in {Zero, k}
Sound(o) ==
    /\ o.mem \in Memory /\ Given(o.mem)
    /\ o.d \in Members /\ o.alive = {o.d} /\ Holds(o.mem, o.d)

ObjectInv ==
    /\ style = "safe_union"
    /\ obj \in [Objects -> Cells]
    /\ \A x \in Objects : \/ obj[x] = Raw
                          \/ obj[x].exists /\ phase = "done" /\ Sound(obj[x])
    /\ ~dead /\ lost \subseteq {Default}

ReferenceInv ==
    /\ jobj = [exists |-> jobj.exists, d |-> jobj.d, o |-> jobj.o]
    /\ jobj.exists /\ last = "given" => jobj.d \in Members /\ jobj.o.m = jobj.d
    /\ jobj.exists /\ last = "new" =>
          /\ jobj.d = 1
          /\ jobj.o = Null \/ (jobj.o.m = 1 /\ fields[1].kind # "scalar")

LEMMA RoomHolds == ASSUME IInv, style = "safe_union", phase = "done" PROVE Room
<1>1. PICK sum \in Sums : SumInv(sum)
  BY DEF IInv
<1>2. LayoutTypeOK /\ DiscriminatorInv /\ Declared
  BY DEF IInv, Declared
<1>3. /\ Len(fields) \in Nat /\ fields \in Seq(FieldTypes) /\ Len(fields) >= 2
      /\ discriminator.size \in Nat /\ inner.offset \in Nat /\ inner.size \in Nat
      /\ overall.size \in Nat
  BY <1>2 DEF LayoutTypeOK, Parts, ValidFields
<1>4. discriminator.size <= inner.offset /\ inner.offset + inner.size <= overall.size
  BY <1>2, Apart DEF IInv, FieldsAreApart
<1>5. ASSUME NEW k \in Members PROVE fields[k].size \in Nat /\ fields[k].size <= inner.size
  <2>1. native.end <= inner.size /\ native.end \in Nat
    BY <1>1, <1>2, PartsAgree DEF LayoutTypeOK
  <2>2. k \in 1..Len(native.at) /\ native.at[k] = 0
    BY <1>1, <1>2, <1>5 DEF SumInv, DeclaredInv, PlacedInv, Members
  <2>3. native.at[k] + fields[k].size <= native.end
    BY <1>1, <2>2 DEF SumInv, PlacedInv
  <2>4. fields[k] \in FieldTypes
    BY <1>3, <1>5 DEF Members
  <2>5. fields[k].size \in Nat
    BY <2>4, FieldTypesAssumption
  <2> QED BY <1>3, <2>1, <2>2, <2>3, <2>5
<1> QED BY <1>3, <1>4, <1>5 DEF Room, Members

LEMMA RepIsOwn == \A k, v : Rep(k, v) \in {Zero, k}
BY DEF Rep

\* Filling a range of the memory.
LEMMA FillFacts ==
    ASSUME NEW D, NEW T, NEW mem, mem \in [D -> T], NEW from, NEW n, NEW b, b \in T
    PROVE  /\ Fill(mem, from, n, b) \in [D -> T]
           /\ \A p \in D : Fill(mem, from, n, b)[p] =
                              IF p \in from..(from + n - 1) THEN b ELSE mem[p]
BY DEF Fill

\* What the emitted statements do to an object.
LEMMA CodesAreInts == Zero \in Int /\ Disc \in Int /\ Junk \in Int /\ Zero # Junk /\ Disc # Junk
BY DEF Zero, Disc, Junk

LEMMA Zeroing ==
    ASSUME NEW o \in Cells, o.mem \in Memory, NEW from, NEW n, NEW t, t = PaddingZeroed(o, from, n)
    PROVE  t \in Cells /\ t.mem \in Memory /\ t.mem = Fill(o.mem, from, n, Zero) /\ t.exists = o.exists
<1>1. Fill(o.mem, from, n, Zero) \in Memory
  BY CodesAreInts, FillFacts DEF Memory
<1> QED BY <1>1 DEF PaddingZeroed, Cells

LEMMA UnionZeroing ==
    ASSUME NEW o \in Cells, o.mem \in Memory, NEW t, t = UnionZeroed(o)
    PROVE  /\ t \in Cells /\ t.mem \in Memory /\ t.exists = o.exists
           /\ t.mem = Fill(o.mem, inner.offset, inner.size, Zero)
           /\ t.alive = o.alive /\ t.d = o.d
<1>1. Fill(o.mem, inner.offset, inner.size, Zero) \in Memory
  BY CodesAreInts, FillFacts DEF Memory
<1> QED BY <1>1 DEF UnionZeroed, Cells

LEMMA Discriminating ==
    ASSUME NEW o \in Cells, o.mem \in Memory, NEW k \in Int, NEW t, t = DiscriminatorSet(o, k)
    PROVE  /\ t \in Cells /\ t.mem \in Memory /\ t.exists = o.exists
           /\ t.mem = Fill(o.mem, 0, discriminator.size, IF k = 1 THEN Zero ELSE Disc)
           /\ t.alive = o.alive /\ t.val = o.val /\ t.d = k
<1>1. Fill(o.mem, 0, discriminator.size, IF k = 1 THEN Zero ELSE Disc) \in Memory
  BY CodesAreInts, FillFacts DEF Memory
<1> QED BY <1>1 DEF DiscriminatorSet, Cells

LEMMA Constructing ==
    ASSUME NEW o \in Cells, o.mem \in Memory, NEW k \in Int, NEW v \in Vals,
           NEW t, t = Constructed(o, k, v)
    PROVE  /\ t \in Cells /\ t.mem \in Memory /\ t.exists = o.exists
           /\ t.mem = Fill(o.mem, inner.offset, fields[k].size, Rep(k, v))
           /\ t.alive = {k} /\ t.val = v /\ t.d = o.d
<1>1. Rep(k, v) \in Int
  BY CodesAreInts, RepIsOwn
<1>2. Fill(o.mem, inner.offset, fields[k].size, Rep(k, v)) \in Memory
  BY <1>1, FillFacts DEF Memory
<1> QED BY <1>2 DEF Constructed, Cells

LEMMA Destructing ==
    ASSUME NEW o \in Cells, NEW t, t = Destructed(o)
    PROVE  t \in Cells /\ t.exists = o.exists /\ t.mem = o.mem /\ t.alive = o.alive \ {o.d} /\ t.d = o.d
BY DEF Destructed, Cells

\* The discriminator and the padding around the union.
LEMMA PaddingFacts ==
    ASSUME Room
    PROVE  /\ discriminator.size + (inner.offset - discriminator.size) - 1 = inner.offset - 1
           /\ LET end == inner.offset + inner.size
              IN  end + (overall.size - end) - 1 = overall.size - 1
           /\ 0 + discriminator.size - 1 = discriminator.size - 1
           /\ \A p \in Place :
                 \/ p \in 0..(discriminator.size - 1)
                 \/ p \in discriminator.size..(inner.offset - 1)
                 \/ p \in inner.offset..(inner.offset + inner.size - 1)
                 \/ p \in (inner.offset + inner.size)..(overall.size - 1)
BY DEF Room, Place

\* The default constructor gives every byte a value, and the discriminator of the first member.
LEMMA InitialFacts ==
    ASSUME Room
    PROVE  /\ Initial \in Cells /\ Initial.mem \in Memory /\ Initial.exists = TRUE
           /\ Initial.d = 1 /\ Initial.alive = {1} /\ Initial.val = Default
           /\ \A p \in Place : Initial.mem[p] =
                 IF p \in MemberPlace(1) THEN Rep(1, Default) ELSE Zero
<1> DEFINE unionEnd == inner.offset + inner.size
           raw == [Raw EXCEPT !.exists = TRUE, !.mem = FreshMemory]
           r1 == UnionZeroed(raw)
           r2 == PaddingZeroed(r1, discriminator.size, inner.offset - discriminator.size)
           r3 == PaddingZeroed(r2, unionEnd, overall.size - unionEnd)
           r4 == DiscriminatorSet(r3, 1)
           r5 == Constructed(r4, 1, Default)
<1>1. Initial = r5
  BY DEF Initial
<1>2. raw \in Cells /\ raw.mem \in Memory /\ raw.exists = TRUE
  <2>1. Raw \in Cells
    BY DEF Raw, Cells, Vals
  <2>2. FreshMemory \in Memory
    BY CodesAreInts DEF FreshMemory, Memory, Place
  <2> QED BY <2>1, <2>2 DEF Cells
<1> HIDE DEF raw
<1>3. /\ r1 \in Cells /\ r1.mem \in Memory /\ r1.exists = TRUE
      /\ \A p \in Place : p \in inner.offset..(inner.offset + inner.size - 1) => r1.mem[p] = Zero
  <2>1. /\ r1 \in Cells /\ r1.mem \in Memory /\ r1.exists = TRUE
        /\ r1.mem = Fill(raw.mem, inner.offset, inner.size, Zero)
    BY <1>2, UnionZeroing
  <2> QED BY <1>2, <2>1, CodesAreInts, FillFacts DEF Memory
<1> HIDE DEF r1
<1>4. /\ r2 \in Cells /\ r2.mem \in Memory /\ r2.exists = TRUE
      /\ \A p \in Place : r2.mem[p] =
            IF p \in discriminator.size..(inner.offset - 1) THEN Zero ELSE r1.mem[p]
  <2>1. /\ r2 \in Cells /\ r2.mem \in Memory /\ r2.exists = TRUE
        /\ r2.mem = Fill(r1.mem, discriminator.size, inner.offset - discriminator.size, Zero)
    BY <1>3, Zeroing
  <2> QED BY <1>3, <2>1, PaddingFacts, CodesAreInts, FillFacts DEF Memory
<1> HIDE DEF r2
<1>5. /\ r3 \in Cells /\ r3.mem \in Memory /\ r3.exists = TRUE
      /\ \A p \in Place : r3.mem[p] = IF p \in unionEnd..(overall.size - 1) THEN Zero ELSE r2.mem[p]
  <2>1. /\ r3 \in Cells /\ r3.mem \in Memory /\ r3.exists = TRUE
        /\ r3.mem = Fill(r2.mem, unionEnd, overall.size - unionEnd, Zero)
    BY <1>4, Zeroing
  <2> QED BY <1>4, <2>1, PaddingFacts, CodesAreInts, FillFacts DEF Memory
<1> HIDE DEF r3
<1>6. /\ r4 \in Cells /\ r4.mem \in Memory /\ r4.exists = TRUE /\ r4.d = 1
      /\ \A p \in Place : r4.mem[p] = IF p \in 0..(discriminator.size - 1) THEN Zero ELSE r3.mem[p]
  <2>1. /\ r4 \in Cells /\ r4.mem \in Memory /\ r4.exists = TRUE /\ r4.d = 1
        /\ r4.mem = Fill(r3.mem, 0, discriminator.size, Zero)
    BY <1>5, Discriminating
  <2> QED BY <1>5, <2>1, PaddingFacts, CodesAreInts, FillFacts DEF Memory
<1> HIDE DEF r4
<1>7. \A p \in Place : r4.mem[p] = Zero
  BY <1>3, <1>4, <1>5, <1>6, PaddingFacts
<1>8. /\ r5 \in Cells /\ r5.mem \in Memory /\ r5.exists = TRUE
      /\ r5.d = 1 /\ r5.alive = {1} /\ r5.val = Default
      /\ r5.mem = Fill(r4.mem, inner.offset, fields[1].size, Rep(1, Default))
  <2>1. Default \in Vals
    BY DEF Vals
  <2> QED BY <1>6, <2>1, Constructing
<1> HIDE DEF r5
<1>9. Rep(1, Default) \in Int
  BY RepIsOwn, CodesAreInts
<1> QED BY <1>1, <1>6, <1>7, <1>8, <1>9, FillFacts DEF Memory, MemberPlace

LEMMA FillMemory ==
    ASSUME NEW mem, mem \in Memory, NEW from, NEW n, NEW b, b \in Int
    PROVE  /\ Fill(mem, from, n, b) \in Memory
           /\ \A p \in Place : Fill(mem, from, n, b)[p] =
                              IF p \in from..(from + n - 1) THEN b ELSE mem[p]
BY DEF Fill, Memory

LEMMA Places ==
    ASSUME Room, NEW k \in Members, NEW p \in MemberPlace(k)
    PROVE  p \in Place /\ p \notin 0..(0 + discriminator.size - 1)
BY DEF Room, MemberPlace, Place

LEMMA RepGiven == ASSUME Room, NEW k \in Members, NEW v PROVE Rep(k, v) \in Int /\ Rep(k, v) # Junk
<1>1. k \in Nat \ {0}
  BY DEF Room
<1> QED BY <1>1, RepIsOwn DEF Junk, Zero

LEMMA StillGiven ==
    ASSUME NEW mem, mem \in Memory, Given(mem), NEW from, NEW n, NEW b, b \in Int, b # Junk
    PROVE  Given(Fill(mem, from, n, b))
BY FillMemory DEF Given

\* A member is constructed or assigned, and the discriminator keeps out of its bytes.
LEMMA MemberHolds ==
    ASSUME Room, NEW mem, mem \in Memory, NEW k \in Members, NEW v
    PROVE  Holds(Fill(mem, inner.offset, fields[k].size, Rep(k, v)), k)
<1> SUFFICES ASSUME NEW p \in MemberPlace(k)
             PROVE  Fill(mem, inner.offset, fields[k].size, Rep(k, v))[p] \in {Zero, k}
  BY DEF Holds
<1>1. p \in Place /\ Rep(k, v) \in Int /\ Rep(k, v) \in {Zero, k}
  BY Places, RepGiven, RepIsOwn
<1>2. Fill(mem, inner.offset, fields[k].size, Rep(k, v))[p] = Rep(k, v)
  BY <1>1, FillMemory DEF MemberPlace
<1> QED BY <1>1, <1>2

LEMMA DiscriminatorApart ==
    ASSUME Room, NEW mem, mem \in Memory, NEW k \in Members, Holds(mem, k), NEW b, b \in Int
    PROVE  Holds(Fill(mem, 0, discriminator.size, b), k)
<1> SUFFICES ASSUME NEW p \in MemberPlace(k)
             PROVE  Fill(mem, 0, discriminator.size, b)[p] \in {Zero, k}
  BY DEF Holds
<1>1. p \in Place /\ p \notin 0..(0 + discriminator.size - 1)
  BY Places
<1>2. Fill(mem, 0, discriminator.size, b)[p] = mem[p]
  BY <1>1, FillMemory
<1> QED BY <1>2 DEF Holds

LEMMA MemberMade ==
    ASSUME Room, NEW o \in Cells, o.mem \in Memory, Given(o.mem), NEW k \in Members, NEW v \in Vals,
           NEW t, t = DiscriminatorSet(Constructed(o, k, v), k)
    PROVE  /\ t \in Cells /\ t.exists = o.exists /\ Sound(t) /\ t.val = v /\ t.d = k
           /\ t.mem = Fill(Fill(o.mem, inner.offset, fields[k].size, Rep(k, v)),
                           0, discriminator.size, IF k = 1 THEN Zero ELSE Disc)
<1> DEFINE c == Constructed(o, k, v)
<1>1. k \in Int
  <2>1. k \in Nat \ {0}
    BY DEF Room
  <2> QED BY <2>1
<1>2. /\ c \in Cells /\ c.mem \in Memory /\ c.exists = o.exists
      /\ c.mem = Fill(o.mem, inner.offset, fields[k].size, Rep(k, v))
      /\ c.alive = {k} /\ c.val = v
  BY <1>1, Constructing
<1>3. Given(c.mem) /\ Holds(c.mem, k)
  BY <1>2, RepGiven, StillGiven, MemberHolds
<1>4. t = DiscriminatorSet(c, k)
  OBVIOUS
<1> HIDE DEF c
<1>5. /\ t \in Cells /\ t.mem \in Memory /\ t.exists = c.exists
      /\ t.mem = Fill(c.mem, 0, discriminator.size, IF k = 1 THEN Zero ELSE Disc)
      /\ t.alive = c.alive /\ t.val = c.val /\ t.d = k
  BY <1>1, <1>2, <1>4, Discriminating
<1>6. Given(t.mem) /\ Holds(t.mem, k)
  BY <1>2, <1>3, <1>5, StillGiven, DiscriminatorApart, CodesAreInts
<1> QED BY <1>2, <1>5, <1>6 DEF Sound

LEMMA MemberIsSound ==
    ASSUME Room, NEW o \in Cells, o.mem \in Memory, Given(o.mem), NEW k \in Members, NEW v \in Vals
    PROVE  LET t == DiscriminatorSet(Constructed(o, k, v), k)
           IN  t \in Cells /\ t.exists = o.exists /\ Sound(t)
BY MemberMade

\* A setter leaves a sound object, and what it replaced was destroyed.
LEMMA SetterIsSound ==
    ASSUME Room, NEW o \in Cells, o.exists, Sound(o), NEW k \in Members, NEW v \in Vals,
           NEW self \in BOOLEAN, NEW own \in BOOLEAN, NEW t, t = WithMember(o, k, v, self, own)
    PROVE  t \in Cells /\ t.exists /\ Sound(t)
<1>1. CASE o.d # k
  <2> DEFINE w == IF own THEN Gone ELSE v
             e == Destructed(o)
             u == UnionZeroed(e)
  <2>1. w \in Vals
    BY DEF Vals
  <2>2. e \in Cells /\ e.exists = o.exists /\ e.mem = o.mem
    BY Destructing
  <2>3. t = DiscriminatorSet(Constructed(u, k, w), k)
    BY <1>1 DEF WithMember
  <2> HIDE DEF e, w
  <2>4. u \in Cells /\ u.mem \in Memory /\ u.exists = o.exists
        /\ u.mem = Fill(o.mem, inner.offset, inner.size, Zero)
    BY <2>2, UnionZeroing DEF Sound
  <2>5. Given(u.mem)
    BY <2>4, StillGiven, CodesAreInts DEF Sound
  <2> HIDE DEF u
  <2>6. t \in Cells /\ t.exists = u.exists /\ Sound(t)
    BY <2>1, <2>3, <2>4, <2>5, MemberIsSound
  <2> QED BY <2>2, <2>4, <2>6
<1>2. CASE o.d = k /\ self
  BY <1>2 DEF WithMember
<1>3. CASE o.d = k /\ ~self
  <2> DEFINE mem == Fill(o.mem, inner.offset, fields[k].size, Rep(k, v))
  <2>1. mem \in Memory /\ Given(mem) /\ Holds(mem, k)
    BY RepGiven, StillGiven, MemberHolds, FillMemory DEF Sound
  <2>2. t = [o EXCEPT !.mem = mem, !.val = v]
    BY <1>3 DEF WithMember
  <2> HIDE DEF mem
  <2>3. /\ t \in Cells /\ t.exists = o.exists /\ t.mem = mem
        /\ t.d = o.d /\ t.alive = o.alive
    BY <2>1, <2>2 DEF Cells
  <2> QED BY <1>3, <2>1, <2>3 DEF Sound
<1> QED BY <1>1, <1>2, <1>3

LEMMA NothingAbandoned ==
    ASSUME NEW o \in Cells, Sound(o)
    PROVE  Abandoned(Destructed(o)) = {} /\ o.d \in o.alive
<1>1. Destructed(o).alive = o.alive \ {o.d} /\ o.alive = {o.d}
  BY Destructing DEF Sound
<1> QED BY <1>1 DEF Abandoned

LEMMA MovedIsSound ==
    ASSUME NEW o \in Cells, o.exists, Sound(o), NEW moves \in BOOLEAN, NEW t, t = MovedFrom(o, moves)
    PROVE  t \in Cells /\ t.exists /\ Sound(t)
<1>1. Moved \in Vals
  BY DEF Vals
<1>2. CASE t = o
  BY <1>2
<1>3. CASE t = [o EXCEPT !.val = Moved]
  <2>1. /\ t \in Cells /\ t.exists = o.exists /\ t.mem = o.mem
        /\ t.d = o.d /\ t.alive = o.alive
    BY <1>1, <1>3 DEF Cells
  <2> QED BY <2>1 DEF Sound
<1> QED BY <1>2, <1>3 DEF MovedFrom

LEMMA InitialIsSound == ASSUME Room PROVE Initial \in Cells /\ Initial.exists /\ Sound(Initial)
<1>1. /\ Initial \in Cells /\ Initial.mem \in Memory /\ Initial.exists = TRUE
      /\ Initial.d = 1 /\ Initial.alive = {1}
      /\ \A p \in Place : Initial.mem[p] =
            IF p \in MemberPlace(1) THEN Rep(1, Default) ELSE Zero
  BY InitialFacts
<1>2. 1 \in Members
  BY DEF Room
<1>3. Given(Initial.mem)
  BY <1>1, <1>2, RepGiven, CodesAreInts DEF Given
<1>4. Holds(Initial.mem, 1)
  BY <1>1, <1>2, Places, RepIsOwn DEF Holds
<1> QED BY <1>1, <1>2, <1>3, <1>4 DEF Sound

LEMMA CopyIsSound ==
    ASSUME Room, NEW o \in Cells, Sound(o), NEW t, t = Copied(o)
    PROVE  /\ t \in Cells /\ t.exists /\ Sound(t) /\ t.d = o.d /\ t.val = o.val
           /\ o.d = 1 /\ o.val = Default /\ fields[1].zero => \A p \in Place : t.mem[p] = Zero
<1>1. /\ Initial \in Cells /\ Initial.mem \in Memory /\ Initial.exists /\ Given(Initial.mem)
      /\ o.d \in Members /\ o.val \in Vals
  BY InitialIsSound DEF Sound, Cells
<1>2. t = DiscriminatorSet(Constructed(Initial, o.d, o.val), o.d)
  BY DEF Copied
<1>3. /\ t \in Cells /\ t.exists /\ Sound(t) /\ t.d = o.d /\ t.val = o.val
      /\ t.mem = Fill(Fill(Initial.mem, inner.offset, fields[o.d].size, Rep(o.d, o.val)),
                      0, discriminator.size, IF o.d = 1 THEN Zero ELSE Disc)
  BY <1>1, <1>2, MemberMade
<1>4. ASSUME o.d = 1, o.val = Default, fields[1].zero, NEW p \in Place PROVE t.mem[p] = Zero
  <2>1. Rep(1, Default) = Zero
    BY <1>4 DEF Rep
  <2>2. Initial.mem[p] = Zero
    BY <2>1, InitialFacts
  <2> DEFINE mem == Fill(Initial.mem, inner.offset, fields[1].size, Zero)
  <2>3. mem \in Memory /\ mem[p] = Zero
    BY <1>1, <2>2, CodesAreInts, FillMemory
  <2>4. t.mem = Fill(mem, 0, discriminator.size, Zero)
    BY <1>3, <1>4, <2>1
  <2> HIDE DEF mem
  <2> QED BY <2>3, <2>4, CodesAreInts, FillMemory
<1> QED BY <1>3, <1>4

\* An object that exists is sound, and it only exists once the layout is known.
LEMMA ExistsIsSound ==
    ASSUME IInv, ObjectInv, NEW x \in Objects, obj[x].exists
    PROVE  Room /\ obj[x] \in Cells /\ Sound(obj[x]) /\ obj[x].d \in Members /\ obj[x].val \in Vals
<1>1. obj[x] # Raw
  BY DEF Raw
<1>2. obj[x] \in Cells /\ Sound(obj[x]) /\ phase = "done" /\ style = "safe_union"
  BY <1>1 DEF ObjectInv
<1> QED BY <1>2, RoomHolds DEF Sound, Cells

\* A step of a program leaves the layout alone.
LEMMA SameLayout ==
    ASSUME UNCHANGED layoutVars
    PROVE  /\ Cells' = Cells /\ style' = style /\ phase' = phase /\ Members' = Members
           /\ fields' = fields
           /\ \A o : Sound(o) => Sound(o)'
<1>1. /\ style' = style /\ fields' = fields /\ phase' = phase /\ inner' = inner
      /\ overall' = overall
  BY DEF layoutVars
<1>2. Place' = Place /\ Members' = Members
  BY <1>1 DEF Place, Members
<1>3. Memory' = Memory
  BY <1>2 DEF Memory
<1>4. Cells' = Cells
  BY <1>3 DEF Cells
<1>5. ASSUME NEW o, Sound(o) PROVE Sound(o)'
  BY <1>1, <1>2, <1>3, <1>5 DEF Sound, Given, Holds, MemberPlace
<1> QED BY <1>1, <1>2, <1>4, <1>5

LEMMA ObjectsAfter ==
    ASSUME ObjectInv, UNCHANGED layoutVars, phase = "done",
           obj' \in [Objects -> Cells],
           \A x \in Objects : obj'[x] = obj[x] \/ obj'[x] = Raw \/ (obj'[x].exists /\ Sound(obj'[x])),
           ~dead', lost' \subseteq {Default}
    PROVE  ObjectInv'
<1>1. Cells' = Cells /\ style' = style /\ phase' = phase
  BY SameLayout
<1>2. ASSUME NEW x \in Objects
      PROVE  \/ obj'[x] = Raw
             \/ obj'[x].exists /\ phase' = "done" /\ Sound(obj[x])'
  <2>1. obj'[x] = Raw \/ (obj'[x].exists /\ Sound(obj'[x]))
    BY DEF ObjectInv
  <2>2. PICK o : o = obj'[x]
    OBVIOUS
  <2>3. Sound(o) => Sound(o)'
    BY SameLayout
  <2>4. Sound(o) => Sound(obj[x])'
    BY <2>2, <2>3
  <2> QED BY <1>1, <2>1, <2>2, <2>4
<1> QED BY <1>1, <1>2 DEF ObjectInv

LEMMA RawIsCell == Raw \in Cells
BY DEF Raw, Cells, Vals

\* One object changes, or two.
LEMMA TwoChange ==
    ASSUME ObjectInv, UNCHANGED layoutVars, phase = "done", NEW x \in Objects, NEW y \in Objects,
           NEW c \in Cells, c = Raw \/ (c.exists /\ Sound(c)),
           NEW e \in Cells, e = obj[y] \/ (e.exists /\ Sound(e)),
           obj' = [obj EXCEPT ![x] = c, ![y] = e] \/ obj' = [obj EXCEPT ![x] = c],
           ~dead', lost' \subseteq {Default}
    PROVE  ObjectInv'
<1>1. obj \in [Objects -> Cells]
  BY DEF ObjectInv
<1>2. obj' \in [Objects -> Cells]
  BY <1>1
<1>3. \A z \in Objects : obj'[z] \in {obj[z], c} \/ (z = y /\ obj'[z] = e)
  BY <1>1
<1> QED BY <1>2, <1>3, ObjectsAfter

LEMMA OneChanges ==
    ASSUME ObjectInv, UNCHANGED layoutVars, phase = "done", NEW x \in Objects,
           NEW c \in Cells, c = Raw \/ (c.exists /\ Sound(c)), obj' = [obj EXCEPT ![x] = c],
           ~dead', lost' \subseteq {Default}
    PROVE  ObjectInv'
<1>1. obj[x] \in Cells
  BY DEF ObjectInv
<1> QED BY <1>1, TwoChange

LEMMA ConstructStep ==
    ASSUME IInv, ObjectInv, NEW x \in Objects, Construct(x)
    PROVE  ObjectInv'
<1>1. /\ phase = "done" /\ style = "safe_union" /\ UNCHANGED layoutVars
      /\ ~dead' /\ lost' \subseteq {Default}
      /\ obj' = [obj EXCEPT ![x] = Initial]
  BY DEF Construct, Running, ObjectInv
<1>2. Initial \in Cells /\ Initial.exists /\ Sound(Initial)
  BY <1>1, RoomHolds, InitialIsSound
<1> QED BY <1>1, <1>2, OneChanges

LEMMA CopyConstructStep ==
    ASSUME IInv, ObjectInv, NEW x \in Objects, NEW y \in Objects, NEW moves \in BOOLEAN,
           CopyConstruct(x, y, moves)
    PROVE  ObjectInv'
<1> DEFINE c == Copied(obj[y])
           e == MovedFrom(obj[y], moves)
<1>1. /\ phase = "done" /\ UNCHANGED layoutVars
      /\ ~obj[x].exists /\ obj[y].exists
      /\ ~dead' /\ lost' = lost \cup Abandoned(Initial)
      /\ obj' = [obj EXCEPT ![x] = c, ![y] = MovedFrom(@, moves)]
  BY DEF CopyConstruct, Running, ObjectInv
<1>2. Room /\ obj[y] \in Cells /\ Sound(obj[y])
  BY <1>1, ExistsIsSound
<1>3. c \in Cells /\ c.exists /\ Sound(c)
  BY <1>2, CopyIsSound
<1>4. e \in Cells /\ e.exists /\ Sound(e)
  BY <1>1, <1>2, MovedIsSound
<1>5. obj' = [obj EXCEPT ![x] = c, ![y] = e]
  <2>1. x # y
    BY <1>1
  <2>2. obj \in [Objects -> Cells]
    BY DEF ObjectInv
  <2> HIDE DEF c
  <2> QED BY <1>1, <2>1, <2>2
<1>6. lost' \subseteq {Default}
  <2>1. Initial.val = Default
    BY <1>2, InitialFacts
  <2> QED BY <1>1, <2>1 DEF Abandoned, ObjectInv
<1>7. phase = "done" /\ UNCHANGED layoutVars /\ ~dead'
  BY <1>1
<1> HIDE DEF c, e
<1> QED BY <1>3, <1>4, <1>5, <1>6, <1>7, TwoChange

\* A setter abandons nothing.
LEMMA SettingIsSafe ==
    ASSUME ObjectInv, NEW o \in Cells, Sound(o), NEW k, Setting(o, k)
    PROVE  ~dead' /\ lost' \subseteq {Default}
BY NothingAbandoned DEF Setting, ObjectInv

LEMMA SetStep ==
    ASSUME IInv, ObjectInv, NEW x \in Objects, NEW k \in Members, NEW v \in Values, Set(x, k, v)
    PROVE  ObjectInv'
<1> DEFINE c == WithMember(obj[x], k, v, FALSE, FALSE)
<1>1. /\ phase = "done" /\ UNCHANGED layoutVars
      /\ obj[x].exists /\ Setting(obj[x], k)
      /\ obj' = [obj EXCEPT ![x] = WithMember(@, k, v, FALSE, FALSE)]
  BY DEF Set, Running
<1>2. Room /\ obj[x] \in Cells /\ Sound(obj[x])
  BY <1>1, ExistsIsSound
<1>3. v \in Vals
  BY DEF Vals
<1>4. c \in Cells /\ c.exists /\ Sound(c)
  BY <1>1, <1>2, <1>3, SetterIsSound
<1>5. ~dead' /\ lost' \subseteq {Default}
  BY <1>1, <1>2, SettingIsSafe
<1>6. obj' = [obj EXCEPT ![x] = c]
  BY <1>1
<1> HIDE DEF c
<1> QED BY <1>1, <1>4, <1>5, <1>6, OneChanges

LEMMA SetFromStep ==
    ASSUME IInv, ObjectInv, NEW x \in Objects, NEW k \in Members, NEW y \in Objects,
           NEW moves \in BOOLEAN, SetFrom(x, k, y, moves)
    PROVE  ObjectInv'
<1> DEFINE self == (x = y /\ obj[x].d = k)
           own == (x = y)
           c == WithMember(obj[x], k, obj[y].val, self, own)
           e == MovedFrom(obj[y], moves)
<1>1. /\ phase = "done" /\ UNCHANGED layoutVars
      /\ obj[x].exists /\ obj[y].exists /\ Setting(obj[x], k)
      /\ obj' = IF x = y THEN [obj EXCEPT ![x] = c]
                ELSE [obj EXCEPT ![x] = c, ![y] = MovedFrom(@, moves)]
  BY DEF SetFrom, Running
<1>2. /\ Room /\ obj[x] \in Cells /\ Sound(obj[x])
      /\ obj[y] \in Cells /\ Sound(obj[y]) /\ obj[y].val \in Vals
  BY <1>1, ExistsIsSound
<1>3. self \in BOOLEAN /\ own \in BOOLEAN
  OBVIOUS
<1> HIDE DEF self, own
<1>4. c \in Cells /\ c.exists /\ Sound(c)
  BY <1>1, <1>2, <1>3, SetterIsSound
<1>5. ~dead' /\ lost' \subseteq {Default}
  BY <1>1, <1>2, SettingIsSafe
<1>6. e \in Cells /\ e.exists /\ Sound(e)
  BY <1>1, <1>2, MovedIsSound
<1> HIDE DEF c
<1>7. obj' = [obj EXCEPT ![x] = c] \/ obj' = [obj EXCEPT ![x] = c, ![y] = e]
  <2>1. obj \in [Objects -> Cells]
    BY DEF ObjectInv
  <2> QED BY <1>1, <2>1
<1> HIDE DEF e
<1> QED BY <1>1, <1>4, <1>5, <1>6, <1>7, TwoChange

LEMMA AssignStep ==
    ASSUME IInv, ObjectInv, NEW x \in Objects, NEW y \in Objects, NEW moves \in BOOLEAN,
           Assign(x, y, moves)
    PROVE  ObjectInv'
<1> DEFINE c == WithMember(obj[x], obj[y].d, obj[y].val, FALSE, FALSE)
           e == MovedFrom(obj[y], moves)
<1>1. phase = "done" /\ UNCHANGED layoutVars /\ obj[x].exists /\ obj[y].exists
  BY DEF Assign, Running
<1>2. CASE x = y
  <2>1. UNCHANGED <<obj, lost, dead>>
    BY <1>2 DEF Assign
  <2> QED BY <1>1, <2>1, ObjectsAfter DEF ObjectInv
<1>3. CASE x # y
  <2>1. /\ Setting(obj[x], obj[y].d)
        /\ obj' = [obj EXCEPT ![x] = WithMember(@, obj[y].d, obj[y].val, FALSE, FALSE),
                              ![y] = MovedFrom(@, moves)]
    BY <1>3 DEF Assign
  <2>2. /\ Room /\ obj[x] \in Cells /\ Sound(obj[x])
        /\ obj[y] \in Cells /\ Sound(obj[y]) /\ obj[y].val \in Vals /\ obj[y].d \in Members
    BY <1>1, ExistsIsSound
  <2>3. c \in Cells /\ c.exists /\ Sound(c)
    BY <1>1, <2>2, SetterIsSound
  <2>4. e \in Cells /\ e.exists /\ Sound(e)
    BY <1>1, <2>2, MovedIsSound
  <2>5. ~dead' /\ lost' \subseteq {Default}
    BY <2>1, <2>2, SettingIsSafe
  <2>6. obj' = [obj EXCEPT ![x] = c, ![y] = e]
    <3>1. obj \in [Objects -> Cells]
      BY DEF ObjectInv
    <3> QED BY <1>3, <2>1, <3>1
  <2> HIDE DEF c, e
  <2> QED BY <1>1, <2>3, <2>4, <2>5, <2>6, TwoChange
<1> QED BY <1>2, <1>3

LEMMA DestroyStep ==
    ASSUME IInv, ObjectInv, NEW x \in Objects, Destroy(x)
    PROVE  ObjectInv'
<1>1. /\ phase = "done" /\ UNCHANGED layoutVars /\ obj[x].exists
      /\ obj' = [obj EXCEPT ![x] = Raw]
      /\ lost' = lost \cup Abandoned(Destructed(obj[x]))
      /\ dead' = (dead \/ obj[x].d \notin obj[x].alive)
  BY DEF Destroy, Running
<1>2. obj[x] \in Cells /\ Sound(obj[x])
  BY <1>1, ExistsIsSound
<1>3. ~dead' /\ lost' \subseteq {Default}
  BY <1>1, <1>2, NothingAbandoned DEF ObjectInv
<1> QED BY <1>1, <1>3, RawIsCell, OneChanges

LEMMA CppStep ==
    ASSUME IInv, ObjectInv, CppNext
    PROVE  ObjectInv'
<1>1. PICK x \in Objects :
        \/ Construct(x)
        \/ Destroy(x)
        \/ \E k \in Members, v \in Values : Set(x, k, v)
        \/ \E y \in Objects, moves \in BOOLEAN :
             \/ CopyConstruct(x, y, moves)
             \/ Assign(x, y, moves)
             \/ \E k \in Members : SetFrom(x, k, y, moves)
  BY DEF CppNext
<1> QED BY <1>1, ConstructStep, DestroyStep, SetStep, CopyConstructStep, AssignStep, SetFromStep

\* A step of the layout comes before all objects.
LEMMA LayoutMoves ==
    ASSUME LayoutNext
    PROVE  phase # "done" /\ style' = style /\ fields' = fields
BY DEF LayoutNext, LayoutField, LayoutEnd, DeclareField, DeclareEnd, AssertField, AssertEnd,
       JavaField, JavaEnd

LEMMA CompileStep ==
    ASSUME ObjectInv, Compile
    PROVE  ObjectInv'
<1>1. phase # "done" /\ style' = style /\ obj' = obj /\ dead' = dead /\ lost' = lost
  BY LayoutMoves DEF Compile, objVars
<1>2. obj = [x \in Objects |-> Raw]
  <2>1. obj \in [Objects -> Cells] /\ \A x \in Objects : obj[x] = Raw
    BY <1>1 DEF ObjectInv
  <2> QED BY <2>1
<1>3. Raw \in Cells'
  BY DEF Raw, Cells, Vals
<1>4. obj' \in [Objects -> Cells'] /\ \A x \in Objects : obj'[x] = Raw
  BY <1>1, <1>2, <1>3
<1> QED BY <1>1, <1>4 DEF ObjectInv

\* The discriminator of a Java object names what its reference holds, or it is new.
LEMMA JavaStep ==
    ASSUME IInv, style = "safe_union", ReferenceInv, JavaNext
    PROVE  ReferenceInv'
<1>1. /\ phase = "done" /\ UNCHANGED layoutVars
  BY DEF JavaNext, JavaNew, JavaSet, JavaRead, JavaReadFails, Running, JavaFrame
<1>2. 1 \in Members /\ Members' = Members
  BY <1>1, RoomHolds, SameLayout DEF Room
<1>3. CASE JavaNew
  <2>1. /\ jobj' = [exists |-> TRUE, d |-> 1, o |-> JavaDefault(1, Null)]
        /\ last' = "new" /\ fields' = fields
        /\ \/ JavaDefault(1, Null) = Null
           \/ JavaDefault(1, Null).m = 1 /\ fields[1].kind # "scalar"
    BY <1>1, <1>3 DEF JavaNew, JavaDefault, layoutVars
  <2> QED BY <1>2, <2>1 DEF ReferenceInv
<1>4. ASSUME NEW k \in Members, NEW v \in Values, JavaSet(k, v) \/ JavaRead(k, v)
      PROVE  ReferenceInv'
  <2>1. /\ jobj.exists /\ jobj' = [jobj EXCEPT !.d = k, !.o = [m |-> k, v |-> v]]
        /\ last' = "given"
    BY <1>4 DEF JavaSet, JavaRead
  <2>2. jobj' = [exists |-> jobj.exists, d |-> k, o |-> [m |-> k, v |-> v]]
    BY <2>1 DEF ReferenceInv
  <2>3. jobj' = [exists |-> jobj'.exists, d |-> jobj'.d, o |-> jobj'.o]
    BY <2>2
  <2>4. k \in Members' /\ jobj'.d = k /\ jobj'.o.m = k
    BY <1>2, <2>2
  <2>5. last' # "new"
    BY <2>1
  <2> QED BY <2>3, <2>4, <2>5 DEF ReferenceInv
<1>5. ASSUME NEW k, JavaReadFails(k) PROVE ReferenceInv'
  <2>1. /\ last' = "failed"
        /\ jobj' = [jobj EXCEPT !.d = k, !.o = IF k = 0 THEN @ ELSE Prepared(k)]
    BY <1>5 DEF JavaReadFails
  <2>2. jobj' = [exists |-> jobj.exists, d |-> k, o |-> IF k = 0 THEN jobj.o ELSE Prepared(k)]
    BY <2>1 DEF ReferenceInv
  <2> QED BY <2>1, <2>2 DEF ReferenceInv
<1> QED BY <1>3, <1>4, <1>5 DEF JavaNext

-----------------------------------------------------------------------------
UnionInv == IInv /\ ObjectInv /\ ReferenceInv

LEMMA UnionInit == SafeInit => UnionInv
<1> SUFFICES ASSUME SafeInit PROVE UnionInv
  OBVIOUS
<1>1. IInv
  BY InitInv DEF SafeInit
<1>2. ObjectInv
  <2>1. obj = [x \in Objects |-> Raw] /\ dead = FALSE /\ lost = {} /\ style = "safe_union"
    BY DEF SafeInit
  <2> QED BY <2>1, RawIsCell DEF ObjectInv
<1>3. ReferenceInv
  BY DEF SafeInit, ReferenceInv
<1> QED BY <1>1, <1>2, <1>3 DEF UnionInv

LEMMA UnionStep == UnionInv /\ [Next]_vars => UnionInv'
<1> SUFFICES ASSUME UnionInv, [Next]_vars PROVE UnionInv'
  OBVIOUS
<1>1. IInv /\ ObjectInv /\ ReferenceInv /\ style = "safe_union"
  BY DEF UnionInv, ObjectInv
<1>2. CASE Compile
  <2>1. LayoutNext /\ UNCHANGED objVars
    BY <1>2 DEF Compile
  <2>2. IInv'
    BY <1>1, <2>1, StepInv
  <2>3. jobj' = jobj /\ last' = last /\ fields' = fields /\ Members' = Members
    BY <2>1, LayoutMoves DEF objVars, Members
  <2>4. ReferenceInv'
    BY <1>1, <2>3 DEF ReferenceInv
  <2> QED BY <1>1, <1>2, <2>2, <2>4, CompileStep DEF UnionInv
<1>3. CASE CppNext
  <2>1. UNCHANGED layoutVars /\ jobj' = jobj /\ last' = last
    <3>1. \A x \in Objects : Construct(x) \/ Destroy(x)
            => UNCHANGED layoutVars /\ jobj' = jobj /\ last' = last
      BY DEF Construct, Destroy
    <3>2. \A x, k, v : Set(x, k, v)
            => UNCHANGED layoutVars /\ jobj' = jobj /\ last' = last
      BY DEF Set
    <3>3. \A x, y, moves : CopyConstruct(x, y, moves)
            => UNCHANGED layoutVars /\ jobj' = jobj /\ last' = last
      BY DEF CopyConstruct
    <3>4. \A x, y, moves : Assign(x, y, moves)
            => UNCHANGED layoutVars /\ jobj' = jobj /\ last' = last
      BY DEF Assign
    <3>5. \A x, k, y, moves : SetFrom(x, k, y, moves)
            => UNCHANGED layoutVars /\ jobj' = jobj /\ last' = last
      BY DEF SetFrom
    <3> QED BY <1>3, <3>1, <3>2, <3>3, <3>4, <3>5 DEF CppNext
  <2>2. IInv'
    BY <1>1, <2>1, StepInv
  <2>3. ReferenceInv'
    BY <1>1, <2>1, SameLayout DEF ReferenceInv
  <2> QED BY <1>1, <1>3, <2>2, <2>3, CppStep DEF UnionInv
<1>4. CASE JavaNext
  <2>1. phase = "done" /\ UNCHANGED layoutVars /\ obj' = obj /\ lost' = lost /\ dead' = dead
    BY <1>4 DEF JavaNext, JavaNew, JavaSet, JavaRead, JavaReadFails, JavaFrame, Running
  <2>2. IInv'
    BY <1>1, <2>1, StepInv
  <2>3. ObjectInv'
    BY <1>1, <2>1, ObjectsAfter DEF ObjectInv
  <2> QED BY <1>1, <1>4, <2>2, <2>3, JavaStep DEF UnionInv
<1>5. CASE UNCHANGED vars
  <2>1. UNCHANGED layoutVars /\ UNCHANGED objVars
    BY <1>5 DEF vars
  <2>2. IInv'
    BY <1>1, <2>1, StepInv
  <2>3. /\ obj' = obj /\ lost' = lost /\ dead' = dead /\ jobj' = jobj /\ last' = last
    BY <2>1 DEF objVars
  <2>4. ReferenceInv'
    BY <1>1, <2>1, <2>3, SameLayout DEF ReferenceInv
  <2>5. ObjectInv'
    <3>1. CASE phase = "done"
      BY <1>1, <2>1, <2>3, <3>1, ObjectsAfter DEF ObjectInv
    <3>2. CASE phase # "done"
      <4>1. obj = [x \in Objects |-> Raw]
        <5>1. obj \in [Objects -> Cells] /\ \A x \in Objects : obj[x] = Raw
          BY <1>1, <3>2 DEF ObjectInv
        <5> QED BY <5>1
      <4>2. Raw \in Cells'
        BY DEF Raw, Cells, Vals
      <4>3. obj' \in [Objects -> Cells'] /\ \A x \in Objects : obj'[x] = Raw
        BY <2>3, <4>1, <4>2
      <4>4. style' = style
        BY <2>1, SameLayout
      <4> QED BY <1>1, <2>3, <4>3, <4>4 DEF ObjectInv
    <3> QED BY <3>1, <3>2
  <2> QED BY <2>2, <2>4, <2>5 DEF UnionInv
<1> QED BY <1>2, <1>3, <1>4, <1>5 DEF Next

\* The objects of a safe_union are sound in every state, whatever a program does with them.
THEOREM UnionInvHolds == Spec => []UnionInv
BY UnionInit, UnionStep, PTL DEF Spec

\* No byte of an object that is sent is what happened to be in memory (the constructors, the
\* setters and their memsets, CompoundType.cpp).
THEOREM NoJunkIsSentHolds == Spec => []NoJunkIsSent
<1>1. UnionInv => NoJunkIsSent
  <2> SUFFICES ASSUME UnionInv, NEW x \in Objects, obj[x].exists, NEW p \in DOMAIN obj[x].mem
               PROVE  obj[x].mem[p] # Junk
    BY DEF NoJunkIsSent
  <2>1. Sound(obj[x])
    BY ExistsIsSound DEF UnionInv
  <2> QED BY <2>1 DEF Sound, Memory, Given
<1> QED BY <1>1, UnionInvHolds, PTL

\* In C++ and in Java the discriminator names the member that is there: members are destroyed
\* once and none is lost, and the getter of the active member of a Java object gives its value
\* whenever it was set or read since, and in a new object unless that member is a scalar.
THEOREM ActiveMemberIsThereHolds == Spec => []ActiveMemberIsThere
<1>1. UnionInv => MembersAreOwned
  <2> SUFFICES ASSUME UnionInv PROVE MembersAreOwned
    OBVIOUS
  <2>1. ~dead /\ lost \subseteq {Default}
    BY DEF UnionInv, ObjectInv
  <2>2. ASSUME NEW x \in Objects, obj[x].exists
        PROVE  /\ obj[x].alive = {obj[x].d}
               /\ \A p \in inner.offset..(inner.offset + fields[obj[x].d].size - 1) :
                    obj[x].mem[p] \in {Zero, obj[x].d}
    <3>1. Sound(obj[x])
      BY <2>2, ExistsIsSound DEF UnionInv
    <3> QED BY <3>1 DEF Sound, Holds, MemberPlace
  <2> QED BY <2>1, <2>2 DEF MembersAreOwned
<1>2. UnionInv => JavaActiveIsReadable
  <2> SUFFICES ASSUME UnionInv, jobj.exists PROVE JavaActiveIsReadable
    BY DEF JavaActiveIsReadable
  <2>1. ASSUME last = "given" PROVE JavaGet(jobj.d) = "value"
    <3>1. Len(fields) \in Nat /\ jobj.d \in Members /\ jobj.o.m = jobj.d
      BY <2>1 DEF UnionInv, IInv, LayoutTypeOK, ReferenceInv
    <3>2. jobj.o.m # 0
      BY <3>1 DEF Members
    <3>3. jobj.o # Null
      BY <3>2 DEF Null
    <3> QED BY <3>1, <3>3 DEF JavaGet
  <2>2. ASSUME last = "new"
        PROVE  JavaGet(jobj.d) = IF fields[1].kind = "scalar" THEN "null" ELSE "value"
    <3>1. jobj.d = 1 /\ (jobj.o = Null \/ (jobj.o.m = 1 /\ fields[1].kind # "scalar"))
      BY <2>2 DEF UnionInv, ReferenceInv
    <3> QED BY <3>1 DEF JavaGet
  <2> QED BY <2>1, <2>2 DEF JavaActiveIsReadable
<1>3. UnionInv => ActiveMemberIsThere
  BY <1>1, <1>2 DEF ActiveMemberIsThere
<1> QED BY <1>3, UnionInvHolds, PTL

FreshStep ==
    \A x \in Objects :
         /\ ~obj[x].exists /\ obj'[x].exists
         /\ obj'[x].d = 1 /\ obj'[x].val = Default
         /\ fields[1].zero
         => \A p \in 0..overall.size - 1 : obj'[x].mem[p] = Zero

\* Only the constructors make an object.
LEMMA MadeByConstructors ==
    ASSUME IInv, ObjectInv, Next, NEW x \in Objects, ~obj[x].exists, obj'[x].exists
    PROVE  \/ obj'[x] = Initial /\ Room
           \/ \E o \in Cells : obj'[x] = Copied(o) /\ Sound(o) /\ Room
<1>1. obj \in [Objects -> Cells]
  BY DEF ObjectInv
<1>2. CASE Compile \/ JavaNext
  BY <1>2 DEF Compile, objVars, JavaNext, JavaNew, JavaSet, JavaRead, JavaReadFails, JavaFrame
<1>3. ASSUME NEW z \in Objects, Construct(z) PROVE obj'[x] = Initial /\ Room
  <2>1. obj' = [obj EXCEPT ![z] = Initial] /\ phase = "done" /\ style = "safe_union"
    BY <1>3 DEF Construct, Running, ObjectInv
  <2> QED BY <1>1, <2>1, RoomHolds
<1>4. ASSUME NEW z \in Objects, Destroy(z) PROVE FALSE
  <2>1. obj' = [obj EXCEPT ![z] = Raw]
    BY <1>4 DEF Destroy
  <2> QED BY <1>1, <2>1 DEF Raw
<1>5. ASSUME NEW z \in Objects, NEW c, obj[z].exists, obj' = [obj EXCEPT ![z] = c] PROVE FALSE
  BY <1>1, <1>5
<1>6. ASSUME NEW z \in Objects, NEW k, NEW v, Set(z, k, v) PROVE FALSE
  BY <1>5, <1>6 DEF Set
<1>7. ASSUME NEW z \in Objects, NEW y \in Objects, NEW c, NEW e,
             obj[z].exists, obj[y].exists, obj' = [obj EXCEPT ![z] = c, ![y] = e] PROVE FALSE
  BY <1>1, <1>7
<1>8. ASSUME NEW z \in Objects, NEW y \in Objects, NEW moves \in BOOLEAN, NEW k, SetFrom(z, k, y, moves)
      PROVE  FALSE
  <2> DEFINE c == WithMember(obj[z], k, obj[y].val, z = y /\ obj[z].d = k, z = y)
  <2>1. /\ obj[z].exists /\ obj[y].exists
        /\ obj' = IF z = y THEN [obj EXCEPT ![z] = c]
                  ELSE [obj EXCEPT ![z] = c, ![y] = MovedFrom(@, moves)]
    BY <1>8 DEF SetFrom
  <2> HIDE DEF c
  <2> QED BY <1>1, <2>1
<1>9. ASSUME NEW z \in Objects, NEW y \in Objects, NEW moves \in BOOLEAN, Assign(z, y, moves)
      PROVE  FALSE
  <2> DEFINE c == WithMember(obj[z], obj[y].d, obj[y].val, FALSE, FALSE)
  <2>1. /\ obj[z].exists /\ obj[y].exists
        /\ \/ obj' = obj
           \/ obj' = [obj EXCEPT ![z] = c, ![y] = MovedFrom(@, moves)]
    BY <1>9 DEF Assign
  <2> HIDE DEF c
  <2> QED BY <1>1, <2>1
<1>10. ASSUME NEW z \in Objects, NEW y \in Objects, NEW moves \in BOOLEAN, CopyConstruct(z, y, moves)
       PROVE  obj'[x] = Copied(obj[y]) /\ obj[y] \in Cells /\ Sound(obj[y]) /\ Room
  <2>1. /\ ~obj[z].exists /\ obj[y].exists
        /\ obj' = [obj EXCEPT ![z] = Copied(obj[y]), ![y] = MovedFrom(@, moves)]
    BY <1>10 DEF CopyConstruct
  <2>2. obj'[x] = Copied(obj[y])
    BY <1>1, <2>1
  <2> QED BY <2>1, <2>2, ExistsIsSound
<1> QED BY <1>2, <1>3, <1>4, <1>6, <1>8, <1>9, <1>10 DEF Next, CppNext

\* A new union, and a copy of a new union, are zero in every byte (testZeroInit) if the default
\* value of the first member is.
THEOREM FreshIsZeroHolds == Spec => FreshIsZero
<1>1. UnionInv /\ [Next]_vars => [FreshStep]_vars
  <2> SUFFICES ASSUME UnionInv, Next,
                      NEW x \in Objects, ~obj[x].exists, obj'[x].exists,
                      obj'[x].d = 1, obj'[x].val = Default, fields[1].zero,
                      NEW p \in 0..overall.size - 1
               PROVE  obj'[x].mem[p] = Zero
    BY DEF FreshStep
  <2>1. p \in Place
    BY DEF Place
  <2>2. \/ obj'[x] = Initial /\ Room
        \/ \E o \in Cells : obj'[x] = Copied(o) /\ Sound(o) /\ Room
    BY MadeByConstructors DEF UnionInv
  <2>3. CASE obj'[x] = Initial /\ Room
    <3>1. Rep(1, Default) = Zero
      BY DEF Rep
    <3> QED BY <2>1, <2>3, <3>1, InitialFacts
  <2>4. ASSUME NEW o \in Cells, obj'[x] = Copied(o), Sound(o), Room PROVE obj'[x].mem[p] = Zero
    BY <2>1, <2>4, CopyIsSound
  <2> QED BY <2>2, <2>3, <2>4
<1> QED BY <1>1, UnionInvHolds, PTL DEF Spec, FreshIsZero, FreshStep
=============================================================================
