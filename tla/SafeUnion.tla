----------------------------- MODULE SafeUnion ------------------------------
(***************************************************************************)
(* Objects of the class that hidl-gen generates for a safe_union.          *)
(*                                                                         *)
(* Once the layout of a safe_union is known (module Layout), programs      *)
(* create, set, copy, move, assign and destroy objects of it.  The C++     *)
(* class (emitSafeUnionTypeDefinitions) keeps a discriminator and a union  *)
(* of members, and must itself run the constructors and destructors of the *)
(* members.  Its object is sent byte by byte, so every byte must be given  *)
(* a value.  The Java class (emitJavaTypeDeclarations) keeps a             *)
(* discriminator and a reference to an object of any type, which reading   *)
(* from a parcel changes one after the other.                              *)
(*                                                                         *)
(* The memory of a C++ object says of each byte who gave it its value: no  *)
(* one yet, a memset, the discriminator, or a member.  A record of         *)
(* FieldTypes has two more fields here: kind tells scalars, interfaces,    *)
(* compound types (with arrays) and others apart, zero is TRUE if the      *)
(* default value of the type is all zero bytes.                            *)
(***************************************************************************)
EXTENDS Layout, FiniteSets

CONSTANTS
    Objects,    \* the C++ objects of a program
    Values      \* values given from outside

ASSUME KindsAssumption ==
    \A t \in FieldTypes : t.zero \in BOOLEAN /\ t.kind \in {"scalar", "interface", "compound", "other"}

VARIABLES
    lang,       \* the program at work is in C++ or in Java
    obj,        \* the C++ objects
    lost,       \* values whose destructor will never run
    dead,       \* TRUE once a member was destroyed that is not alive
    jobj,       \* a Java object
    last        \* what was last done to jobj: it is "new", was "given" a value by a setter or
                \* by reading, or reading "failed" with an exception

objVars == <<lang, obj, lost, dead, jobj, last>>
vars == <<layoutVars, objVars>>

Junk == -1
Zero == 0
Disc == -2

Default == "default"
Moved == "moved"
Gone == "gone"       \* read from a member that was destroyed before

Raw == [exists |-> FALSE, mem |-> <<>>, d |-> 0, alive |-> {}, val |-> Default]
Null == [m |-> 0, v |-> Default]

SafeInit ==
    /\ Init
    /\ style = "safe_union"
    /\ lang \in {"cpp", "java"}
    /\ obj = [x \in Objects |-> Raw]
    /\ lost = {}
    /\ dead = FALSE
    /\ jobj = [exists |-> FALSE, d |-> 0, o |-> Null]
    /\ last = "new"

Fill(mem, from, n, b) == [p \in DOMAIN mem |-> IF p \in from..(from + n - 1) THEN b ELSE mem[p]]

\* The bytes of the value v in a member.
Rep(k, v) == IF v = Default /\ fields[k].zero THEN Zero ELSE k

\* emitPaddingZero.
PaddingZeroed(o, from, n) == [o EXCEPT !.mem = Fill(@, from, n, Zero)]

\* memset(&hidl_u, 0, sizeof(hidl_u)).
UnionZeroed(o) == [o EXCEPT !.mem = Fill(@, inner.offset, inner.size, Zero)]

DiscriminatorSet(o, k) ==
    [o EXCEPT !.d = k,
              !.mem = Fill(@, 0, discriminator.size, IF k = 1 THEN Zero ELSE Disc)]

\* emitSafeUnionFieldConstructor: the object that was there is not destroyed.
Constructed(o, k, v) ==
    [o EXCEPT !.mem = Fill(@, inner.offset, fields[k].size, Rep(k, v)), !.alive = {k}, !.val = v]

\* (A fault: the members have no destructor.)
DestructedNever(o) == o

\* hidl_destructUnion.
Destructed(o) == [o EXCEPT !.alive = @ \ {o.d}]

FreshMemory == [p \in 0..overall.size - 1 |-> Junk]

\* (A fault: no padding is cleared at the end.)
InitialUnpadded ==
    LET raw == [Raw EXCEPT !.exists = TRUE, !.mem = FreshMemory]
        padded == PaddingZeroed(UnionZeroed(raw),
                                discriminator.size, inner.offset - discriminator.size)
    IN Constructed(DiscriminatorSet(padded, 1), 1, Default)

\* The default constructor (emitSafeUnionTypeConstructors).
Initial ==
    LET raw == [Raw EXCEPT !.exists = TRUE, !.mem = FreshMemory]
        unionEnd == inner.offset + inner.size
        padded == PaddingZeroed(PaddingZeroed(UnionZeroed(raw),
                                              discriminator.size,
                                              inner.offset - discriminator.size),
                                unionEnd, overall.size - unionEnd)
    IN Constructed(DiscriminatorSet(padded, 1), 1, Default)

\* (A fault: the default constructor is not run before.)
CopiedAlone(y) ==
    DiscriminatorSet(Constructed([Raw EXCEPT !.exists = TRUE, !.mem = FreshMemory], y.d, y.val), y.d)

\* The copy and move constructors: the default constructor, and the member over it.
Copied(y) == DiscriminatorSet(Constructed(Initial, y.d, y.val), y.d)

\* emitSafeUnionSetterDefinition: the argument is the very member k of o (self), another
\* member of o (own), or outside of o.
WithMember(o, k, v, self, own) ==
    IF o.d # k
    THEN DiscriminatorSet(Constructed(UnionZeroed(Destructed(o)), k, IF own THEN Gone ELSE v), k)
    ELSE IF self THEN o
    ELSE [o EXCEPT !.mem = Fill(@, inner.offset, fields[k].size, Rep(k, v)), !.val = v]

\* std::move of a scalar is a copy.
MovedFrom(o, moves) == IF moves /\ fields[o.d].kind # "scalar" THEN [o EXCEPT !.val = Moved] ELSE o

Running(l) == phase = "done" /\ lang = l

\* The member of o that is overwritten without being destroyed.
Abandoned(o) == IF o.alive = {} THEN {} ELSE {o.val}

Construct(x) ==
    /\ Running("cpp")
    /\ ~obj[x].exists
    /\ obj' = [obj EXCEPT ![x] = Initial]
    /\ UNCHANGED <<layoutVars, lang, lost, dead, jobj, last>>

CopyConstruct(x, y, moves) ==
    /\ Running("cpp")
    /\ ~obj[x].exists /\ obj[y].exists
    /\ obj' = [obj EXCEPT ![x] = Copied(obj[y]), ![y] = MovedFrom(@, moves)]
    /\ lost' = lost \cup Abandoned(Initial)
    /\ UNCHANGED <<layoutVars, lang, dead, jobj, last>>

\* What a call of the setter of k does to lost and dead.
Setting(o, k) ==
    /\ lost' = IF o.d # k THEN lost \cup Abandoned(Destructed(o)) ELSE lost
    /\ dead' = (dead \/ (o.d # k /\ o.d \notin o.alive))

\* A setter with a value from outside.
Set(x, k, v) ==
    /\ Running("cpp")
    /\ obj[x].exists
    /\ obj' = [obj EXCEPT ![x] = WithMember(@, k, v, FALSE, FALSE)]
    /\ Setting(obj[x], k)
    /\ UNCHANGED <<layoutVars, lang, jobj, last>>

\* A setter of x with a reference to the active member of y, which may be x.
SetFrom(x, k, y, moves) ==
    /\ Running("cpp")
    /\ obj[x].exists /\ obj[y].exists
    /\ fields[k] = fields[obj[y].d]
    /\ LET set == WithMember(obj[x], k, obj[y].val, x = y /\ obj[x].d = k, x = y)
       IN obj' = IF x = y THEN [obj EXCEPT ![x] = set]
                 ELSE [obj EXCEPT ![x] = set, ![y] = MovedFrom(@, moves)]
    /\ Setting(obj[x], k)
    /\ UNCHANGED <<layoutVars, lang, jobj, last>>

\* The assignment operators (emitSafeUnionCopyAndAssignDefinition).
Assign(x, y, moves) ==
    /\ Running("cpp")
    /\ obj[x].exists /\ obj[y].exists
    /\ IF x = y THEN UNCHANGED <<obj, lost, dead>>
       ELSE /\ obj' = [obj EXCEPT
                         ![x] = WithMember(@, obj[y].d, obj[y].val, FALSE, FALSE),
                         ![y] = MovedFrom(@, moves)]
            /\ Setting(obj[x], obj[y].d)
    /\ UNCHANGED <<layoutVars, lang, jobj, last>>

Destroy(x) ==
    /\ Running("cpp")
    /\ obj[x].exists
    /\ obj' = [obj EXCEPT ![x] = Raw]
    /\ lost' = lost \cup Abandoned(Destructed(obj[x]))
    /\ dead' = (dead \/ obj[x].d \notin obj[x].alive)
    /\ UNCHANGED <<layoutVars, lang, jobj, last>>

-----------------------------------------------------------------------------
\* emitJavaFieldDefaultInitialValue: only types that are Java objects have one.
JavaDefault(k, o) ==
    IF fields[k].kind \in {"compound", "other"} THEN [m |-> k, v |-> Default] ELSE o

JavaFrame == UNCHANGED <<layoutVars, lang, obj, lost, dead>>

JavaNew ==
    /\ Running("java")
    /\ ~jobj.exists
    /\ jobj' = [exists |-> TRUE, d |-> 1, o |-> JavaDefault(1, Null)]
    /\ last' = "new"
    /\ JavaFrame

\* (A fault: the setter leaves hidl_d alone.)
JavaSetReference(k, v) ==
    /\ Running("java")
    /\ jobj.exists
    /\ jobj' = [jobj EXCEPT !.o = [m |-> k, v |-> v]]
    /\ last' = "given"
    /\ JavaFrame

JavaSet(k, v) ==
    /\ Running("java")
    /\ jobj.exists
    /\ jobj' = [jobj EXCEPT !.d = k, !.o = [m |-> k, v |-> v]]
    /\ last' = "given"
    /\ JavaFrame

ContainsInterface == \E k \in 1..Len(fields) : fields[k].kind = "interface"

\* What hidl_o is while a member is read that is not embedded: a compound type is made anew
\* and then reads itself, any other type is assigned once it was read.
ReadAlone(k) ==
    IF fields[k].kind = "compound" THEN [m |-> k, v |-> Default] ELSE jobj.o

\* What it is while any member is read; embedded in the blob of the union, it has its default.
Prepared(k) == IF ContainsInterface THEN ReadAlone(k) ELSE JavaDefault(k, jobj.o)

JavaRead(k, v) ==
    /\ Running("java")
    /\ jobj.exists
    /\ jobj' = [jobj EXCEPT !.d = k, !.o = [m |-> k, v |-> v]]
    /\ last' = "given"
    /\ JavaFrame

\* The discriminator is unknown (0), or reading the member throws an exception.
JavaReadFails(k) ==
    /\ Running("java")
    /\ jobj.exists
    /\ jobj' = [jobj EXCEPT !.d = k, !.o = IF k = 0 THEN @ ELSE Prepared(k)]
    /\ last' = "failed"
    /\ JavaFrame

\* The getter of member k.
JavaGet(k) ==
    IF jobj.d # k THEN "inactive"
    ELSE IF jobj.o # Null /\ jobj.o.m # k THEN "corrupted"
    ELSE IF jobj.o = Null /\ fields[k].kind = "scalar" THEN "null"
    ELSE "value"

-----------------------------------------------------------------------------
Members == 1..Len(fields)

CppNext ==
    \E x \in Objects :
        \/ Construct(x)
        \/ Destroy(x)
        \/ \E k \in Members, v \in Values : Set(x, k, v)
        \/ \E y \in Objects, moves \in BOOLEAN :
             \/ CopyConstruct(x, y, moves)
             \/ Assign(x, y, moves)
             \/ \E k \in Members : SetFrom(x, k, y, moves)

JavaNext ==
    \/ JavaNew
    \/ \E k \in Members, v \in Values : JavaSet(k, v) \/ JavaRead(k, v)
    \/ \E k \in {0} \cup Members : JavaReadFails(k)

Compile == LayoutNext /\ UNCHANGED objVars

Next == Compile \/ CppNext \/ JavaNext

Spec == SafeInit /\ [][Next]_vars
=============================================================================
