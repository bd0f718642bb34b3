---------------------------- MODULE TypeQueries -----------------------------
(***************************************************************************)
(* The questions that the generators ask about a type and everything it is *)
(* made of (Type.cpp and its subclasses).  Types may refer to themselves   *)
(* through vec<T> and ref<T>, so a question is asked with the set of types *)
(* visited so far, which all parts of one walk share: a type met again     *)
(* answers that it found nothing.                                          *)
(*                                                                         *)
(* A graph of types gives each name its kind k; vec, array, ref and fmq    *)
(* have an element type e, arrays their dimensions, compound types their   *)
(* fields f and the types nested in them, interfaces what they use: their  *)
(* super type, the types of their methods and their nested types.          *)
(***************************************************************************)
EXTENDS Integers, Sequences, SequencesExt

Compounds == {"struct", "union", "safe_union"}
Questions == {"references", "pointer", "java", "equality"}

\* What the type answers by itself.
Found(q, g, t) ==
    CASE q \in {"references", "pointer"} -> g[t].k = "ref"
      [] q = "java" ->
           \/ g[t].k \in {"memory", "fmq", "ref", "union"}
           \/ /\ g[t].k = "vec"
              /\ LET e == g[g[t].e]
                 IN e.k \in {"vec", "interface"} \/ (e.k = "array" /\ e.dims # 1)
      [] q = "equality" -> g[t].k \in {"handle", "memory", "fmq", "ref", "interface", "union"}

\* Whom it asks, in this order.
Parts(q, g, t) ==
    CASE g[t].k \in {"vec", "array"} -> <<g[t].e>>
      [] g[t].k = "union" -> IF q = "pointer" THEN g[t].f ELSE <<>>
      [] g[t].k \in {"struct", "safe_union"} ->
           IF q = "java" THEN g[t].f \o g[t].nested ELSE g[t].f
      [] g[t].k = "interface" /\ q = "java" -> g[t].uses
      [] OTHER -> <<>>

RECURSIVE Visit(_, _, _, _)

\* (A fault: a type met again has found what is searched.)
VisitAgain(q, g, t, visited) ==
    IF t \in visited THEN [found |-> TRUE, visited |-> visited]
    ELSE FoldLeft(LAMBDA r, part : IF r.found THEN r ELSE Visit(q, g, part, r.visited),
                  [found |-> Found(q, g, t), visited |-> visited \cup {t}],
                  Parts(q, g, t))

\* Type::isJavaCompatible(visited) and its like; found means not compatible, no equality.
Visit(q, g, t, visited) ==
    IF t \in visited THEN [found |-> FALSE, visited |-> visited]
    ELSE FoldLeft(LAMBDA r, part : IF r.found THEN r ELSE Visit(q, g, part, r.visited),
                  [found |-> Found(q, g, t), visited |-> visited \cup {t}],
                  Parts(q, g, t))

needsResolveReferences(g, t) == Visit("references", g, t, {}).found
containsPointer(g, t) == Visit("pointer", g, t, {}).found
isJavaCompatible(g, t) == ~Visit("java", g, t, {}).found
canCheckEquality(g, t) == ~Visit("equality", g, t, {}).found

RECURSIVE needsEmbeddedReadWrite(_, _)
\* (A fault: a vector of plain elements is copied as it is.)
needsEmbeddedShallow(g, t) ==
    CASE g[t].k \in {"string", "handle", "memory", "fmq"} -> TRUE
      [] g[t].k = "vec" -> g[g[t].e].k # "scalar"
      [] g[t].k = "array" -> needsEmbeddedReadWrite(g, g[t].e)
      [] g[t].k \in {"struct", "safe_union"} ->
           \E i \in DOMAIN g[t].f : needsEmbeddedReadWrite(g, g[t].f[i])
      [] OTHER -> FALSE

needsEmbeddedReadWrite(g, t) ==
    CASE g[t].k \in {"string", "handle", "memory", "fmq", "vec"} -> TRUE
      [] g[t].k = "array" -> needsEmbeddedReadWrite(g, g[t].e)
      [] g[t].k \in {"struct", "safe_union"} ->
           \E i \in DOMAIN g[t].f : needsEmbeddedReadWrite(g, g[t].f[i])
      [] OTHER -> FALSE

RECURSIVE containsInterface(_, _)
containsInterface(g, t) ==
    \E i \in DOMAIN g[t].f :
        LET type == g[t].f[i]
        IN g[type].k = "interface" \/ (g[type].k \in Compounds /\ containsInterface(g, type))

\* VectorType::isVectorOfBinders.
isVectorOfBinders(g, t) == g[t].k = "vec" /\ g[g[t].e].k = "interface"
=============================================================================
