---------------------------- MODULE MCSafeUnion -----------------------------
(***************************************************************************)
(* Compound types of up to three fields, and two objects of each           *)
(* safe_union.  The limits of the discriminator are small, so that three   *)
(* fields need two bytes for it and the padding after it has several       *)
(* sizes.                                                                  *)
(***************************************************************************)
EXTENDS SafeUnionProperties, TLC

Type(kind, align, size, zero) == [kind |-> kind, align |-> align, size |-> size, zero |-> zero]

MCFieldTypes == {Type("scalar", 1, 1, TRUE),       \* int8_t
                 Type("interface", 8, 8, TRUE),    \* sp<IFoo>
                 Type("other", 8, 16, FALSE),      \* string
                 Type("compound", 4, 12, TRUE)}    \* a struct of three int32_t

MCLimits == [n \in {1, 2, 4} |-> IF n = 1 THEN 2 ELSE 256 * n]

\* Types of any style have a layout; a safe_union has objects.
MCInit == SafeInit \/ (Init /\ style # "safe_union" /\ lang = "cpp" /\ lost = {} /\ dead = FALSE
                       /\ obj = [x \in Objects |-> Raw] /\ last = "new"
                       /\ jobj = [exists |-> FALSE, d |-> 0, o |-> Null])

\* A struct or union has no object code, and the object code of a safe_union needs its layout.
MCNext == Compile \/ (style = "safe_union" /\ (CppNext \/ JavaNext))

MCSpec == MCInit /\ [][MCNext]_vars
=============================================================================
