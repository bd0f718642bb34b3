------------------------ MODULE SafeUnionProperties -------------------------
(***************************************************************************)
(* What must hold of the objects of a safe_union.                          *)
(***************************************************************************)
EXTENDS SafeUnion, LayoutProperties

\* An object is sent as sizeof(object) bytes, and whatever was done to it none of them is what
\* happened to be in memory (the constructors, the setters and their memsets).
NoJunkIsSent ==
    \A x \in Objects : obj[x].exists => \A p \in DOMAIN obj[x].mem : obj[x].mem[p] # Junk

\* The discriminator names the member that is constructed, its bytes are those of that member,
\* a destructor never runs on a member that is not, and a value that may own something never
\* goes without one: only the default value made by the delegated constructor of a copy does.
MembersAreOwned ==
    /\ ~dead
    /\ lost \subseteq {Default}
    /\ \A x \in Objects :
         obj[x].exists =>
             /\ obj[x].alive = {obj[x].d}
             /\ \A p \in inner.offset..(inner.offset + fields[obj[x].d].size - 1) :
                  obj[x].mem[p] \in {Zero, obj[x].d}

\* A new union, and a copy of a new union, are zero in every byte whatever the memory held
\* before (testZeroInit of the tests), if the default value of the first member is.
FreshIsZero ==
    [][\A x \in Objects :
         /\ ~obj[x].exists /\ obj'[x].exists
         /\ obj'[x].d = 1 /\ obj'[x].val = Default
         /\ fields[1].zero
         => \A p \in 0..overall.size - 1 : obj'[x].mem[p] = Zero]_vars

\* The getter of the active member of a Java object gives its value, although discriminator and
\* reference are changed one after the other, with two exceptions.  It may fail when the last
\* read into the object failed, and it fails in a new object whose first member is a scalar:
\* the constructor emits no default for one, and the getter unboxes null (FreshIsReadable).
JavaActiveIsReadable ==
    jobj.exists =>
        /\ last = "given" => JavaGet(jobj.d) = "value"
        /\ last = "new" =>
               JavaGet(jobj.d) = IF fields[1].kind = "scalar" THEN "null" ELSE "value"

\* In either language the discriminator is that of a member that is there, but for the two
\* exceptions of Java (emitSafeUnionTypeDefinitions, emitJavaTypeDeclarations).
ActiveMemberIsThere == MembersAreOwned /\ JavaActiveIsReadable

\* 'union itself is zero'd when set' (CompoundType.cpp:1157): the bytes of the union that the
\* active member does not fill are zero.
ZeroedWhenSet ==
    \A x \in Objects :
        obj[x].exists =>
            \A p \in inner.offset..(inner.offset + inner.size - 1) :
                p >= inner.offset + fields[obj[x].d].size => obj[x].mem[p] = Zero

\* A new Java object has a first member that can be read, like a new C++ object (the constructor
\* sets 'hidl_o' from the type of the first member, CompoundType.cpp:1361).
FreshIsReadable == jobj.exists /\ last = "new" => JavaGet(jobj.d) = "value"
=============================================================================
