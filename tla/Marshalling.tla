---------------------------- MODULE Marshalling -----------------------------
(***************************************************************************)
(* How the generated code writes the arguments of a call to a parcel, or   *)
(* its results, and how the other side reads them.                         *)
(*                                                                         *)
(* C++ walks over the arguments twice (generateStaticProxyMethodSource and *)
(* generateStaticStubMethodSource).  The first walk writes buffers: the    *)
(* memory of an argument as it is, and then one for every pointer in it,   *)
(* with the handle of the buffer the pointer is in and its offset there.   *)
(* The second resolves the references (ref<T>) in those buffers.  Java     *)
(* walks once over an equal tree of HwBlobs.  Nothing in the parcel says   *)
(* what is there, so reader and writer have to visit the same parts in the *)
(* same order: each expects the entries that the other would write.        *)
(*                                                                         *)
(* The nested calls of the emitted code are an agenda of tasks.  A task    *)
(* handles a value v of a type t at the address adr, which lies in the     *)
(* buffer with handle h at the offset at; code is "inline" in the method   *)
(* or in a "function" of a compound type, which returns at an error.  An   *)
(* offset is the path of fields and elements in a buffer, and an address   *)
(* that of an argument or a heap object, with a 0 for a pointer followed.  *)
(***************************************************************************)
EXTENDS TypeQueries, FiniteSets

CONSTANTS
    Cases,        \* records: types, args (their types), vals, heap (targets of references)
    MaxEntries    \* bound: entries of a parcel

VARIABLES
    case,         \* the call
    lang,         \* the languages of the writer and of the reader
    reply,        \* results are written: errors are ignored (ErrorMode_Ignore)
    side, pass,   \* who works, and which of its walks
    next,         \* the argument to start
    agenda,       \* tasks, the next one first
    child,        \* the handles _hidl_<name>_child of vectors, 0 if there is none yet
    parent,       \* the handles _hidl_<name>_parent
    parcel, pos,  \* what was written, and how much of it was read
    status,       \* of the side at work
    dropped,      \* an error of the writer was ignored
    strayed       \* the reader took an entry that was written for another part

vars == <<case, lang, reply, side, pass, next, agenda, child, parent,
          parcel, pos, status, dropped, strayed>>

Null == 0
Unwrappable == "unwrappable"

types == case.types
Kind(t) == types[t].k
Java == lang[side] = "java"

Task(op, code, t, v, h, at, adr) ==
    [op |-> op, code |-> code, t |-> t, v |-> v, h |-> h, at |-> at, adr |-> adr]
Head1 == Head(agenda)

(* Types that a method may have (VectorType, RefType and CompoundType::validate).             *)
JavaCompatible(c) == \A i \in DOMAIN c.args : isJavaCompatible(c.types, c.args[i])
\* With interfaces, a compound type is read field by field and has no handle of its own: code
\* that resolves references in it does not compile.
Compiles(c) ==
    \A i \in DOMAIN c.args :
        LET t == c.args[i]
        IN ~(c.types[t].k \in Compounds /\ containsInterface(c.types, t)
             /\ needsResolveReferences(c.types, t))

NoHandles == [i \in DOMAIN case.args |-> 0]

Init ==
    /\ case \in {c \in Cases : Compiles(c)}
    /\ lang \in [{"writer", "reader"} -> {"cpp", "java"}]
    /\ (\E s \in DOMAIN lang : lang[s] = "java") => JavaCompatible(case)
    /\ reply \in BOOLEAN
    /\ side = "writer" /\ pass = 1 /\ next = 1
    /\ agenda = <<>>
    /\ child = NoHandles /\ parent = NoHandles
    /\ parcel = <<>> /\ pos = 0
    /\ status = "busy"
    /\ dropped = FALSE /\ strayed = FALSE

Reading == side = "reader"
Handle == IF Reading THEN pos + 1 ELSE Len(parcel) + 1

Entry(kind, h, at, place, adr, v) ==
    [kind |-> kind, h |-> h, at |-> at, place |-> place, adr |-> adr, val |-> v]

\* What the reader finds is what it expects: the kernel checks handles and offsets.
Expected(e) == Reading => /\ pos < Len(parcel)
                          /\ parcel[pos + 1].kind = e.kind
                          /\ parcel[pos + 1].h = e.h
                          /\ parcel[pos + 1].at = e.at

\* The value: the writer has it, the reader takes it from the entry.
Value(v) == IF Reading THEN parcel[pos + 1].val ELSE v

Untouched == UNCHANGED <<parcel, pos, strayed>>
KeepHandles == UNCHANGED <<child, parent>>
KeepCall == UNCHANGED <<case, lang, reply, side, pass, next>>

\* The task gives way to others.
Replace(tasks) ==
    /\ agenda' = tasks \o Tail(agenda)
    /\ UNCHANGED <<status, dropped>>
    /\ KeepCall

\* handleError: inline code goes to the end of the call, or ignores the error; a function
\* returns it to the inline code that called it.
Fail ==
    /\ IF reply /\ ~Reading
       THEN /\ agenda' = IF Head1.code = "inline" THEN Tail(agenda)
                         ELSE SelectSeq(agenda, LAMBDA task : task.code = "inline")
            /\ dropped' = TRUE
            /\ UNCHANGED status
       ELSE /\ status' = "failed"
            /\ agenda' = <<>>
            /\ UNCHANGED dropped
    /\ Untouched
    /\ KeepCall

\* One call that writes to the parcel or reads from it, and the tasks that follow.
Transfer(e, tasks) ==
    IF ~Expected(e) THEN Fail
    ELSE /\ IF Reading
            THEN /\ pos' = pos + 1
                 /\ strayed' = (strayed \/ parcel[pos + 1].adr # e.adr)
                 /\ UNCHANGED parcel
            ELSE /\ Len(parcel) < MaxEntries
                 /\ parcel' = Append(parcel, e)
                 /\ UNCHANGED <<pos, strayed>>
         /\ Replace(tasks)

Working(op, kinds) ==
    /\ status = "busy"
    /\ agenda # <<>>
    /\ Head1.op = op
    /\ Kind(Head1.t) \in kinds

InCpp(op, kinds) == ~Java /\ Working(op, kinds)
InJava(op, kinds) == Java /\ Working(op, kinds)

-----------------------------------------------------------------------------
(* emitReaderWriter and emitJavaReaderWriter: the value of an argument, or of a field of one  *)
(* with interfaces.                                                                           *)

Argument(i) == Task("top", "inline", case.args[i], case.vals[i], 0, <<>>, <<"arg", i>>)

Start ==
    /\ status = "busy" /\ agenda = <<>>
    /\ next <= Len(case.args)
    /\ agenda' = IF pass = 1 THEN <<Argument(next)>>
                 ELSE IF needsResolveReferences(types, case.args[next])
                 THEN <<[Argument(next) EXCEPT !.op = "references", !.h = parent[next]]>>
                 ELSE <<>>
    /\ next' = next + 1
    /\ Untouched /\ KeepHandles
    /\ UNCHANGED <<case, lang, reply, side, pass, status, dropped>>

\* A value without a buffer.
Inline ==
    /\ Transfer(Entry(Kind(Head1.t), 0, <<>>, Head1.adr, Head1.adr, Head1.v), <<>>)
    /\ KeepHandles

TopScalar == InCpp("top", {"scalar"}) /\ Inline
TopHandle == InCpp("top", {"handle"}) /\ Inline
\* toBinder finds no stub for some implementations.
TopInterface ==
    /\ InCpp("top", {"interface"})
    /\ IF ~Reading /\ Head1.v = Unwrappable THEN Fail /\ KeepHandles ELSE Inline
JavaTopPlain == InJava("top", {"scalar", "handle"}) /\ Inline
JavaTopInterface == InJava("top", {"interface"}) /\ Inline

\* A reference is not written in the first walk.
TopReference ==
    /\ InCpp("top", {"ref"})
    /\ Replace(<<>>)
    /\ Untouched /\ KeepHandles

IsArgument(adr) == Len(adr) = 2

ByFields(t) == Kind(t) \in Compounds /\ containsInterface(types, t)

\* A value with a buffer; embedded says that the buffer may hold pointers.
Buffered(embedded) ==
    /\ LET task == Head1
       IN /\ Transfer(Entry("buffer", 0, <<>>, task.adr, task.adr, task.v),
                      IF embedded
                      THEN <<[task EXCEPT !.op = "embedded", !.v = Value(@), !.h = Handle]>>
                      ELSE <<>>)
          /\ parent' = IF IsArgument(task.adr) THEN [parent EXCEPT ![task.adr[2]] = Handle]
                       ELSE parent
    /\ UNCHANGED child

TopString == InCpp("top", {"string"}) /\ Buffered(TRUE)
TopMemory == InCpp("top", {"memory"}) /\ Buffered(TRUE)
TopFmq == InCpp("top", {"fmq"}) /\ Buffered(TRUE)
TopArray == InCpp("top", {"array"}) /\ Buffered(TRUE)
TopVector == InCpp("top", {"vec"}) /\ ~isVectorOfBinders(types, Head1.t) /\ Buffered(TRUE)
TopCompound ==
    /\ InCpp("top", Compounds) /\ ~ByFields(Head1.t)
    /\ Buffered(needsEmbeddedReadWrite(types, Head1.t))
JavaTopString == InJava("top", {"string"}) /\ Buffered(TRUE)
JavaTopArray == InJava("top", {"array"}) /\ Buffered(TRUE)
JavaTopVector == InJava("top", {"vec"}) /\ Buffered(TRUE)
JavaTopCompound == InJava("top", Compounds) /\ ~ByFields(Head1.t) /\ Buffered(TRUE)

Elements(task, v) == [k \in DOMAIN v |-> [task EXCEPT !.t = types[task.t].e, !.v = v[k],
                                                      !.adr = Append(task.adr, k)]]

\* emitReaderWriterForVectorOfBinders: the size, and the elements one by one.
TopBinders ==
    /\ InCpp("top", {"vec"})
    /\ isVectorOfBinders(types, Head1.t)
    /\ Transfer(Entry("size", 0, <<>>, Head1.adr, Head1.adr, Head1.v),
                Elements(Head1, Value(Head1.v)))
    /\ KeepHandles

\* A safe_union is a pair of the active member and its value.
Field(task, i, v) == [task EXCEPT !.t = types[task.t].f[i], !.v = v, !.adr = Append(@, i)]

\* A compound type with interfaces goes field by field; the reader does not know the values.
FieldByField ==
    /\ ByFields(Head1.t)
    /\ Replace([i \in DOMAIN types[Head1.t].f |->
                 Field(Head1, i, IF Reading THEN "unread" ELSE Head1.v[i])])
    /\ Untouched /\ KeepHandles

\* A safe_union: the discriminator, and the member it says.
MemberAlone ==
    /\ ByFields(Head1.t)
    /\ LET v == IF Reading THEN <<parcel[pos + 1].val, "unread">> ELSE Head1.v
       IN Transfer(Entry("scalar", 0, <<>>, Head1.adr, Head1.adr, IF Reading THEN 0 ELSE v[1]),
                   <<Field(Head1, v[1], v[2])>>)
    /\ KeepHandles

TopStruct == InCpp("top", {"struct"}) /\ FieldByField
TopSafeUnion == InCpp("top", {"safe_union"}) /\ MemberAlone
JavaTopStruct == InJava("top", {"struct"}) /\ FieldByField
JavaTopSafeUnion == InJava("top", {"safe_union"}) /\ MemberAlone

-----------------------------------------------------------------------------
(* emitReaderWriterEmbedded, emitJavaFieldReaderWriter: the buffers of the pointers in a      *)
(* buffer.                                                                                    *)

Data(task) == Append(task.adr, 0)

\* emitReaderWriterEmbeddedForTypeName, with the functions of the run time library.
Pointer ==
    /\ Transfer(Entry(Kind(Head1.t), Head1.h, Head1.at, Head1.adr, Data(Head1), Head1.v), <<>>)
    /\ KeepHandles

EmbeddedString == InCpp("embedded", {"string"}) /\ Pointer
EmbeddedHandle == InCpp("embedded", {"handle"}) /\ Pointer
EmbeddedMemory == InCpp("embedded", {"memory"}) /\ Pointer
EmbeddedFmq == InCpp("embedded", {"fmq"}) /\ Pointer
JavaString == InJava("embedded", {"string"}) /\ Pointer
JavaHandle == InJava("embedded", {"handle"}) /\ Pointer

\* Within a buffer: the offset moves with the address.
Within(task, tasks) ==
    [k \in DOMAIN tasks |->
        [tasks[k] EXCEPT !.at = task.at \o SubSeq(tasks[k].adr, Len(task.adr) + 1,
                                                  Len(tasks[k].adr))]]

\* The elements of a vector are in a buffer of their own.
ElementsBuffer(descends) ==
    /\ LET task == Head1
           elements == Elements([task EXCEPT !.adr = Data(task)], task.v)
       IN /\ Transfer(Entry("elements", task.h, task.at, task.adr, Data(task), task.v),
                      IF descends
                      THEN [k \in DOMAIN elements |->
                               [elements[k] EXCEPT !.h = Handle, !.at = <<k>>]]
                      ELSE <<>>)
          /\ child' = IF IsArgument(task.adr) THEN [child EXCEPT ![task.adr[2]] = Handle]
                      ELSE child
    /\ UNCHANGED parent

EmbeddedVector ==
    /\ InCpp("embedded", {"vec"})
    /\ ElementsBuffer(needsEmbeddedReadWrite(types, types[Head1.t].e))
JavaVector == InJava("embedded", {"vec"}) /\ ElementsBuffer(TRUE)

ArrayElements(descends) ==
    /\ Replace(IF descends THEN Within(Head1, Elements(Head1, Head1.v)) ELSE <<>>)
    /\ Untouched /\ KeepHandles

EmbeddedArray ==
    /\ InCpp("embedded", {"array"})
    /\ ArrayElements(needsEmbeddedReadWrite(types, types[Head1.t].e))
JavaArray == InJava("embedded", {"array"}) /\ ArrayElements(Kind(types[Head1.t].e) # "scalar")

\* Java visits scalars as well: there is nothing to write for them.
JavaScalar ==
    /\ InJava("embedded", {"scalar"})
    /\ Replace(<<>>)
    /\ Untouched /\ KeepHandles

\* The fields of a compound type that a walk goes into: of a struct all, of a safe_union the
\* active one, if their types are of the wanted ones.
Present(task) == IF Kind(task.t) = "safe_union" THEN <<task.v[1]>>
                 ELSE [i \in DOMAIN types[task.t].f |-> i]
FieldValue(task, i) == IF Kind(task.t) = "safe_union" THEN task.v[2] ELSE task.v[i]

FieldsOf(task, wanted) ==
    LET present == SelectSeq(Present(task), LAMBDA i : types[task.t].f[i] \in wanted)
    IN Within(task, [n \in DOMAIN present |->
                       [Field(task, present[n], FieldValue(task, present[n]))
                          EXCEPT !.code = "function"]])

\* emitStructReaderWriter.
EmbeddedCompound ==
    /\ InCpp("embedded", {"struct", "safe_union"})
    /\ Replace(FieldsOf(Head1, {t \in DOMAIN types : needsEmbeddedReadWrite(types, t)}))
    /\ Untouched /\ KeepHandles

\* readEmbeddedFromParcel and writeEmbeddedToBlob.
JavaCompound ==
    /\ InJava("embedded", {"struct", "safe_union"})
    /\ Replace(FieldsOf(Head1, DOMAIN types))
    /\ Untouched /\ KeepHandles

-----------------------------------------------------------------------------
(* emitResolveReferences and emitResolveReferencesEmbedded: the second walk.                  *)

\* findInParcel: the handle of the elements, by their address.
Find(adr) ==
    LET done == 1..(IF Reading THEN pos ELSE Len(parcel))
        found == {n \in done : parcel[n].adr = adr}
    IN IF found = {} THEN 0 ELSE CHOOSE n \in found : TRUE

\* (A fault: the elements are taken to be in the buffer of the vector.)
ElementsHandleOfParent(task) ==
    IF IsArgument(task.adr) THEN parent[task.adr[2]] ELSE Find(Data(task))

ElementsHandle(task) ==
    IF IsArgument(task.adr) THEN child[task.adr[2]] ELSE Find(Data(task))

\* The value of a part of an argument, as both sides have it after the first walk.
ReferencesVector ==
    /\ Working("references", {"vec"})
    /\ LET task == Head1
           h == ElementsHandle(task)
           elements == Elements([task EXCEPT !.adr = Data(task)], task.v)
       IN IF h = 0 THEN Fail
          ELSE /\ Replace([k \in DOMAIN elements |-> [elements[k] EXCEPT !.h = h, !.at = <<k>>]])
               /\ Untouched
    /\ KeepHandles

ReferencesArray ==
    /\ Working("references", {"array"})
    /\ Replace(Within(Head1, Elements(Head1, Head1.v)))
    /\ Untouched /\ KeepHandles

\* emitResolveReferenceDef: an active member without references is an error.
ReferencesCompound ==
    /\ Working("references", {"struct", "safe_union"})
    /\ LET fields == FieldsOf(Head1, {t \in DOMAIN types : needsResolveReferences(types, t)})
       IN IF Kind(Head1.t) = "safe_union" /\ fields = <<>> THEN Fail
          ELSE Replace(fields) /\ Untouched
    /\ KeepHandles

Target(n) == <<"heap", n>>

\* writeReferenceToParcel (external) writes the target of a reference once; only then the code
\* goes on with what the target points to.
IsNew(n) == n # Null /\ Find(Target(n)) = 0

Needed(task) == IF task.op = "embedded" THEN needsEmbeddedReadWrite(types, task.t)
                ELSE needsResolveReferences(types, task.t)

AfterReference(task, n, new) ==
    LET to == [task EXCEPT !.t = types[task.t].e, !.v = case.heap[n], !.h = Handle,
                           !.at = <<>>, !.adr = Target(n)]
    IN IF ~new THEN <<>>
       ELSE SelectSeq(<<[to EXCEPT !.op = "embedded"], to>>, Needed)

ReferencesRef ==
    /\ Working("references", {"ref"})
    /\ LET task == Head1
           to == Value([n |-> task.v, new |-> IsNew(task.v)])
       IN Transfer(Entry("ref", task.h, task.at, task.adr,
                         IF IsNew(task.v) THEN Target(task.v) ELSE task.adr, to),
                   AfterReference(task, to.n, to.new))
    /\ KeepHandles

-----------------------------------------------------------------------------
\* The second walk; Java has none.
SecondPass ==
    /\ status = "busy" /\ agenda = <<>> /\ next > Len(case.args)
    /\ pass = 1 /\ ~Java
    /\ pass' = 2 /\ next' = 1
    /\ Untouched /\ KeepHandles
    /\ UNCHANGED <<case, lang, reply, side, agenda, status, dropped>>

Finished == status = "busy" /\ agenda = <<>> /\ next > Len(case.args) /\ (pass = 2 \/ Java)

\* The transaction.
Send ==
    /\ Finished /\ ~Reading
    /\ side' = "reader" /\ pass' = 1 /\ next' = 1
    /\ child' = NoHandles /\ parent' = NoHandles
    /\ Untouched
    /\ UNCHANGED <<case, lang, reply, agenda, status, dropped>>

Receive ==
    /\ Finished /\ Reading
    /\ status' = "ok"
    /\ Untouched /\ KeepHandles
    /\ UNCHANGED <<case, lang, reply, side, pass, next, agenda, dropped>>

WalkCpp ==
    \/ TopScalar \/ TopHandle \/ TopInterface \/ TopReference \/ TopString \/ TopMemory \/ TopFmq
    \/ TopArray \/ TopVector \/ TopBinders \/ TopCompound \/ TopStruct \/ TopSafeUnion
    \/ EmbeddedString \/ EmbeddedHandle \/ EmbeddedMemory \/ EmbeddedFmq
    \/ EmbeddedVector \/ EmbeddedArray \/ EmbeddedCompound
    \/ ReferencesVector \/ ReferencesArray \/ ReferencesCompound \/ ReferencesRef

WalkJava ==
    \/ JavaTopPlain \/ JavaTopInterface \/ JavaTopString \/ JavaTopArray \/ JavaTopVector
    \/ JavaTopCompound \/ JavaTopStruct \/ JavaTopSafeUnion
    \/ JavaString \/ JavaHandle \/ JavaScalar \/ JavaVector \/ JavaArray \/ JavaCompound

Next == Start \/ WalkCpp \/ WalkJava \/ SecondPass \/ Send \/ Receive

Spec == Init /\ [][Next]_vars /\ WF_vars(Next)
=============================================================================
