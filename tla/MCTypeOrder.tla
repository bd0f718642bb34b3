---------------------------- MODULE MCTypeOrder ----------------------------
(***************************************************************************)
(* Two families of files.  In the first, a types.hal has structs W, Y and  *)
(* X in this order, and Y a struct Z inside it; each may have one field of *)
(* another, Y one of itself, all but Z one of a vector; Y writes its field *)
(* before or after Z.                                                      *)
(*                                                                         *)
(* In the second, a file has an interface I that extends the K of another  *)
(* file or, in error, itself.  A method of I takes nothing, an A or an I;  *)
(* inside I are structs A and B and a typedef D.  Another file, whose      *)
(* passes are over, has a struct E with two structs inside it.             *)
(***************************************************************************)
EXTENDS TypeOrderProperties

\* the unnamed type in the field of a struct or typedef
Structs == {"W", "Y", "Z", "X"}
Fielded == {"A", "B", "D"}
Box == [W |-> "boxW", Y |-> "boxY", Z |-> "boxZ", X |-> "boxX",
        A |-> "boxA", B |-> "boxB", D |-> "boxD"]
Boxes == {Box[t] : t \in DOMAIN Box}
Owner == [box \in Boxes |-> CHOOSE t \in DOMAIN Box : Box[t] = box]
MCTypes == {"root", "I", "K", "E", "E1", "E2"} \cup Structs \cup Fielded \cup Boxes

Containers == {"plain", "vec", "array"}
NoField == [kind |-> "none", of |-> "A"]
Reference(t, p) == <<[to |-> t, at |-> p, super |-> FALSE]>>

Written(t, field, p) ==
    CASE field.kind = "none" -> <<>>
      [] field.kind = "plain" -> Reference(field.of, p)
      [] OTHER -> Reference(Box[t], p)

BoxKind(field) == IF field.kind = "array" THEN "array" ELSE "vec"
Boxed(field, p) == IF field.kind \in {"vec", "array"} THEN Reference(field.of, p) ELSE <<>>


-----------------------------------------------------------------------------
StructField == [kind : {"plain", "vec"}, of : Structs] \cup {NoField}
FieldsOf(t) ==
    CASE t = "Y" -> StructField
      [] t = "Z" -> {field \in StructField : field = NoField \/ (field.kind = "plain" /\ field.of # "Z")}
      [] OTHER -> {field \in StructField : field = NoField \/ field.of # t}

StructFile(field, place) ==
    [kind |-> [t \in MCTypes |-> IF t = "root" THEN "root" ELSE IF t \in Boxes THEN "vec" ELSE "compound"],
     parent |-> [t \in MCTypes |->
                    CASE t = "Z" -> "Y" [] t \in Boxes /\ Owner[t] \in Structs -> Owner[t]
                      [] t \in Structs \ {"Z"} -> "root" [] OTHER -> NoType],
     defs |-> [t \in MCTypes |-> CASE t = "root" -> <<"W", "Y", "X">> [] t = "Y" -> <<"Z">>
                                   [] OTHER -> <<>>],
     refs |-> [t \in MCTypes |->
                  CASE t \in Structs -> Written(t, field[t], place[t])
                    [] t \in Boxes /\ Owner[t] \in Structs -> Boxed(field[Owner[t]], place[Owner[t]])
                    [] OTHER -> <<>>],
     stage |-> [t \in MCTypes |-> "POST_PARSE"],
     loc |-> [t \in MCTypes |-> CASE t = "W" -> 10 [] t = "Y" -> 20 [] t = "Z" -> 23
                                  [] t = "X" -> 30 [] OTHER -> 0]]

StructFiles ==
    {StructFile(field, [W |-> 11, Y |-> y, Z |-> 24, X |-> 31]) :
        field \in {f \in [Structs -> StructField] : \A t \in Structs : f[t] \in FieldsOf(t)}, y \in {21, 27}}

-----------------------------------------------------------------------------
AFields == [kind : Containers, of : {"B", "D", "E"}] \cup {NoField}
BFields == [kind : Containers, of : {"A", "D"}] \cup {[kind |-> "plain", of |-> "I"], NoField}
DFields == [kind : Containers, of : {"A", "E"}] \cup {[kind |-> "plain", of |-> "D"]}
Place == [root |-> 0, I |-> 10, A |-> 20, B |-> 30, D |-> 40]

InterfaceFile(super, arg, field) ==
    [kind |-> [t \in MCTypes |->
                  CASE t = "root" -> "root" [] t \in {"I", "K"} -> "interface" [] t = "D" -> "typedef"
                    [] t \in Boxes /\ Owner[t] \in Fielded -> BoxKind(field[Owner[t]])
                    [] OTHER -> "compound"],
     parent |-> [t \in MCTypes |->
                    CASE t = "I" -> "root" [] t \in Fielded \/ t = "boxD" -> "I"
                      [] t \in {"boxA", "boxB"} -> Owner[t]
                      [] t \in {"E1", "E2"} -> "E" [] OTHER -> NoType],
     defs |-> [t \in MCTypes |->
                  CASE t = "root" -> <<"I">> [] t = "I" -> <<"A", "B", "D">>
                    [] t = "E" -> <<"E1", "E2">> [] OTHER -> <<>>],
     refs |-> [t \in MCTypes |->
                  CASE t = "I" -> <<[to |-> super, at |-> 11, super |-> TRUE]>>
                                    \o (IF arg = "none" THEN <<>> ELSE Reference(arg, 50))
                    [] t \in Fielded -> Written(t, field[t], Place[t] + 1)
                    [] t \in Boxes /\ Owner[t] \in Fielded -> Boxed(field[Owner[t]], Place[Owner[t]] + 1)
                    [] t = "E2" -> Reference("E1", 90)
                    [] OTHER -> <<>>],
     stage |-> [t \in MCTypes |->
                   IF t \in {"K", "E", "E1", "E2"} THEN "COMPLETED" ELSE "POST_PARSE"],
     loc |-> [t \in MCTypes |-> IF t \in DOMAIN Place THEN Place[t] ELSE 0]]

InterfaceFiles ==
    {InterfaceFile(super, arg, [A |-> a, B |-> b, D |-> d]) :
        super \in {"K", "I"}, arg \in {"none", "A", "I"},
        a \in AFields, b \in BFields, d \in DFields}

MCPrograms == StructFiles \cup InterfaceFiles
=============================================================================
