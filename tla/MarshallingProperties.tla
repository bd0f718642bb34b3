----------------------- MODULE MarshallingProperties ------------------------
(***************************************************************************)
(* What the two walks over the arguments promise to each other and to the  *)
(* kernel, which copies and relocates the buffers of a parcel.             *)
(***************************************************************************)
EXTENDS Marshalling, FiniteSetsExt

\* Every variable has its type; in particular the parcel of these values is bounded.
MarshallingTypeOK ==
    /\ case \in Cases
    /\ lang \in [{"writer", "reader"} -> {"cpp", "java"}]
    /\ reply \in BOOLEAN /\ dropped \in BOOLEAN /\ strayed \in BOOLEAN
    /\ side \in {"writer", "reader"} /\ pass \in 1..2
    /\ next \in 1..Len(case.args) + 1
    /\ \A i \in DOMAIN agenda : /\ agenda[i].op \in {"top", "embedded", "references"}
                                /\ agenda[i].code \in {"inline", "function"}
                                /\ agenda[i].t \in DOMAIN types
                                /\ agenda[i].h \in 0..MaxEntries
    /\ child \in [DOMAIN case.args -> 0..MaxEntries]
    /\ parent \in [DOMAIN case.args -> 0..MaxEntries]
    /\ Len(parcel) <= MaxEntries /\ pos \in 0..Len(parcel)
    /\ status \in {"busy", "ok", "failed"}

\* The kernel patches a pointer at the offset that is written with its entry, in the buffer with
\* the handle that is written.  That place is the one of the pointer, in a buffer written before
\* (_hidl_<name>_parent and _child, the handles found with findInParcel, the offsets computed by
\* emitStructReaderWriter).
PlacesAreRight ==
    \A n \in DOMAIN parcel :
        LET e == parcel[n]
        IN e.h # 0 => /\ e.h < n
                      /\ e.place = parcel[e.h].adr \o e.at

\* What the writer did not have to leave out, the reader reads to the end, and never takes an
\* entry for another part than the one it was written for; both in either language
\* (emitReaderWriter with isReader, emitJavaReaderWriter).
ReaderAgrees ==
    /\ status = "ok" => ~strayed /\ pos = Len(parcel)
    /\ Reading /\ status = "failed" => dropped

\* The writer's walk and the reader's agree, with each other and on the places of the pointers.
WalksAgree == MarshallingTypeOK /\ PlacesAreRight /\ ReaderAgrees

\* The places of the pointers in a value, and the heap objects its references are to.
RECURSIVE Pointers(_, _, _)
Pointers(t, v, adr) ==
    LET At(i, part) == Pointers(types[t].f[i], part, Append(adr, i))
    IN CASE Kind(t) \in {"string", "handle", "memory", "fmq"} -> {adr}
         [] Kind(t) = "vec" ->
              {adr} \cup UNION {Pointers(types[t].e, v[k], adr \o <<0, k>>) : k \in DOMAIN v}
         [] Kind(t) = "array" ->
              UNION {Pointers(types[t].e, v[k], Append(adr, k)) : k \in DOMAIN v}
         [] Kind(t) = "struct" -> UNION {At(i, v[i]) : i \in DOMAIN v}
         [] Kind(t) = "safe_union" -> At(v[1], v[2])
         [] Kind(t) = "ref" -> {adr}
         [] OTHER -> {}

RECURSIVE Targets(_, _)
Targets(t, v) ==
    CASE Kind(t) \in {"vec", "array"} -> UNION {Targets(types[t].e, v[k]) : k \in DOMAIN v}
      [] Kind(t) = "struct" -> UNION {Targets(types[t].f[i], v[i]) : i \in DOMAIN v}
      [] Kind(t) = "safe_union" -> Targets(types[t].f[v[1]], v[2])
      [] Kind(t) = "ref" -> IF v = Null THEN {} ELSE {<<types[t].e, v>>}
      [] OTHER -> {}

RECURSIVE Reached(_)
Reached(objects) ==
    LET more == objects \cup UNION {Targets(o[1], case.heap[o[2]]) : o \in objects}
    IN IF more = objects THEN objects ELSE Reached(more)

\* Arguments that are buffers, with their pointers; interfaces and the compound types that
\* contain them have no buffer of their own.
Buffers == {i \in DOMAIN case.args : /\ ~ByFields(case.args[i])
                                     /\ ~isVectorOfBinders(types, case.args[i])
                                     /\ Kind(case.args[i]) \notin
                                          {"handle", "scalar", "interface", "ref"}}

\* When the transaction is sent, every pointer in the arguments, and in everything they refer to,
\* has an entry in the parcel, once: a pointer without one would reach the other process as it
\* is.  Types whose needsEmbeddedReadWrite or needsResolveReferences answers wrongly are left out
\* of a walk silently.
AllPointersSent ==
    Reading /\ ~dropped =>
        LET roots == Buffers \cup {i \in DOMAIN case.args : Kind(case.args[i]) = "ref"}
            objects == Reached(UNION {Targets(case.args[i], case.vals[i]) : i \in roots})
            wanted == UNION {Pointers(case.args[i], case.vals[i], <<"arg", i>>) : i \in Buffers}
                      \cup UNION {Pointers(o[1], case.heap[o[2]], Target(o[2])) : o \in objects}
            inBuffers == {n \in DOMAIN parcel :
                            /\ parcel[n].h # 0
                            /\ parcel[n].place[1] = "heap" \/ parcel[n].place[2] \in Buffers}
        IN /\ {parcel[n].place : n \in inBuffers} = wanted
           /\ Cardinality(inBuffers) = Cardinality(wanted)

-----------------------------------------------------------------------------
\* A question finds what it searches exactly if a type that can be reached has it, although the
\* walk skips types it has visited (the unordered_set that Type.cpp hands through).
RECURSIVE Closure(_, _)
Closure(q, set) ==
    LET more == set \cup UNION {ToSet(Parts(q, types, t)) : t \in set}
    IN IF more = set THEN set ELSE Closure(q, more)

QueriesAreReachability ==
    \A q \in Questions, t \in DOMAIN types :
        Visit(q, types, t, {}).found = \E u \in Closure(q, {t}) : Found(q, types, u)
=============================================================================
