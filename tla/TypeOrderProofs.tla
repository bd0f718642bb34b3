-------------------------- MODULE TypeOrderProofs --------------------------
(***************************************************************************)
(* Type::topologicalOrder numbers the types in a topological order and     *)
(* reports nothing but cycles, and Scope::topologicalReorder then sorts    *)
(* only scopes whose types it numbered, on every program the parser may    *)
(* build.                                                                  *)
(***************************************************************************)
EXTENDS TypeOrderProperties, WellFoundedInduction, TLAPS

FrameType == [type : Types, next : Nat \ {0}]

\* the frame f is in the call of u
Calls(f, u) ==
    /\ f.next \in DOMAIN Successors(f.type)
    /\ Counts(f.type, f.next)
    /\ Successors(f.type)[f.next] = u

\* all that t requires among its successors before the n-th is numbered
PassedUpTo(t, n) ==
    \A k \in DOMAIN Successors(t) :
        k < n /\ Counts(t, k) => Successors(t)[k] \in Elements(reversedOrder)

(* The activations of topologicalOrder: a path of calls from the root, of  *)
(* different types without a number, which are those in `stack'; and each  *)
(* has the successors before its current one numbered.                     *)
TypesOfWalk ==
    /\ program \in ProgramType
    /\ frames \in Seq(FrameType)
    /\ reversedOrder \in Seq(Types)
Path == \A i \in 1 .. Len(frames) - 1 : Calls(frames[i], frames[i + 1].type)
Distinct == \A i, j \in DOMAIN frames : frames[i].type = frames[j].type => i = j
Passed == \A i \in DOMAIN frames : PassedUpTo(frames[i].type, frames[i].next)
Open == \A i \in DOMAIN frames : frames[i].type \notin Elements(reversedOrder)
StackIsFrames == stack = {frames[i].type : i \in DOMAIN frames}
FromRoot == IF frames = <<>>
            THEN RootScope \in Elements(reversedOrder)
            ELSE frames[1].type = RootScope

WalkInv ==
    phase = "order" => Path /\ Distinct /\ Passed /\ Open /\ StackIsFrames /\ FromRoot

\* when the walk is over without an error, it has numbered the scope of the
\* file, and so everything the file requires
OrderIsComplete ==
    phase \in {"reorder", "restrict", "accepted"} => RootScope \in Elements(reversedOrder)

OrderInv == TypesOfWalk /\ WalkInv /\ OrderIsLinear /\ OrderIsComplete

(* The way back: what is printed so far leads from the cycle's end to the  *)
(* successor the innermost activation was about to call, and the end is    *)
(* still among the activations until its line is printed.                  *)
Chain ==
    /\ printed \in Seq(Types \X Types)
    /\ \A i \in DOMAIN printed : printed[i][1] \in Required(printed[i][2])
    /\ \A i \in 1 .. Len(printed) - 1 : printed[i][2] = printed[i + 1][1]

Closed == printed # <<>> /\ printed[Len(printed)][2] = printed[1][1]

Returning ==
    /\ Path
    /\ IF cycleEnd = NoType
       THEN Closed
       ELSE /\ \E i \in DOMAIN frames : frames[i].type = cycleEnd
            /\ printed # <<>> => printed[1][1] = cycleEnd
            /\ Calls(Top, IF printed = <<>> THEN cycleEnd ELSE printed[Len(printed)][2])

ReportInv ==
    /\ Chain
    /\ phase = "order" => printed = <<>> /\ cycleEnd = NoType
    /\ phase = "unwind" => Returning
    /\ phase \notin {"order", "unwind"} => printed = <<>> \/ Closed
-----------------------------------------------------------------------------
(* The successors of a type that count are what it requires.               *)

LEMMA SuccessorsType ==
    ASSUME program \in ProgramType, NEW t \in Types
    PROVE  /\ program.defs[t] \in Seq(Types)
           /\ program.refs[t] \in Seq(References)
           /\ Targets(program.refs[t]) \in Seq(Types)
           /\ Len(Targets(program.refs[t])) = Len(program.refs[t])
           /\ Successors(t) \in Seq(Types)
           /\ Len(Successors(t)) = Len(program.defs[t]) + Len(program.refs[t])
<1>1. program.defs[t] \in Seq(Types) /\ program.refs[t] \in Seq(References)
  BY DEF ProgramType
<1>2. ASSUME NEW i \in 1 .. Len(program.refs[t])
      PROVE  program.refs[t][i].to \in Types
  <2>1. program.refs[t][i] \in References
    BY <1>1
  <2> QED BY <2>1 DEF References
<1>3. DOMAIN program.refs[t] = 1 .. Len(program.refs[t]) /\ Len(program.refs[t]) \in Nat
  BY <1>1
<1> DEFINE g == [i \in 1 .. Len(program.refs[t]) |-> program.refs[t][i].to]
<1>4. Targets(program.refs[t]) = g
  BY <1>3 DEF Targets
<1>5. g \in Seq(Types) /\ Len(g) = Len(program.refs[t])
  BY <1>2, <1>3
<1> HIDE DEF g
<1>6. /\ program.defs[t] \o g \in Seq(Types)
      /\ Len(program.defs[t] \o g) = Len(program.defs[t]) + Len(g)
  <2>1. \A p, q \in Seq(Types) : p \o q \in Seq(Types) /\ Len(p \o q) = Len(p) + Len(q)
    OBVIOUS
  <2> QED BY <1>1, <1>5, <2>1
<1>7. Successors(t) = program.defs[t] \o g
  BY <1>4 DEF Successors
<1>8. Targets(program.refs[t]) \in Seq(Types) /\ Len(Targets(program.refs[t])) = Len(program.refs[t])
  BY <1>4, <1>5
<1>9. Successors(t) \in Seq(Types) /\ Len(Successors(t)) = Len(program.defs[t]) + Len(program.refs[t])
  BY <1>5, <1>6, <1>7
<1> QED BY <1>1, <1>8, <1>9

\* where the n-th successor comes from
LEMMA SuccessorAt ==
    ASSUME program \in ProgramType, NEW t \in Types
    PROVE  /\ \A n \in DOMAIN Successors(t) :
                /\ n <= Len(program.defs[t]) =>
                     n \in DOMAIN program.defs[t] /\ Successors(t)[n] = program.defs[t][n]
                /\ n > Len(program.defs[t]) =>
                     /\ n - Len(program.defs[t]) \in DOMAIN program.refs[t]
                     /\ Successors(t)[n] = program.refs[t][n - Len(program.defs[t])].to
           /\ \A i \in DOMAIN program.defs[t] : i \in DOMAIN Successors(t) /\ i <= Len(program.defs[t])
           /\ \A i \in DOMAIN program.refs[t] :
                /\ Len(program.defs[t]) + i \in DOMAIN Successors(t)
                /\ Len(program.defs[t]) + i > Len(program.defs[t])
                /\ (Len(program.defs[t]) + i) - Len(program.defs[t]) = i
<1> DEFINE d == program.defs[t]
           r == program.refs[t]
           g == Targets(r)
           s == Successors(t)
<1>1. d \in Seq(Types) /\ r \in Seq(References) /\ g \in Seq(Types) /\ Len(g) = Len(r)
  BY SuccessorsType
<1>2. Len(s) = Len(d) + Len(r) /\ s \in Seq(Types)
  BY SuccessorsType
<1>3. s = d \o g
  BY DEF Successors
<1>4. \A i \in DOMAIN r : g[i] = r[i].to
  BY DEF Targets
<1> HIDE DEF d, r, g, s
<1>5. Len(d) \in Nat /\ Len(r) \in Nat
  BY <1>1
<1>6. DOMAIN d = 1 .. Len(d) /\ DOMAIN r = 1 .. Len(r) /\ DOMAIN s = 1 .. (Len(d) + Len(r))
  BY <1>1, <1>2
<1>7. \A n \in DOMAIN s : s[n] = IF n <= Len(d) THEN d[n] ELSE g[n - Len(d)]
  BY <1>1, <1>3, <1>5, <1>6
<1>8. \A n \in DOMAIN s : n <= Len(d) => n \in DOMAIN d /\ s[n] = d[n]
  BY <1>5, <1>6, <1>7
<1>9. ASSUME NEW n \in DOMAIN s, n > Len(d)
      PROVE  n - Len(d) \in DOMAIN r /\ s[n] = r[n - Len(d)].to
  <2>1. n - Len(d) \in DOMAIN r
    BY <1>5, <1>6, <1>9
  <2>2. s[n] = g[n - Len(d)]
    BY <1>5, <1>6, <1>7, <1>9
  <2> QED BY <1>4, <2>1, <2>2
<1>10. \A i \in DOMAIN d : i \in DOMAIN s /\ i <= Len(d)
  BY <1>5, <1>6
<1>11. \A i \in DOMAIN r : Len(d) + i \in DOMAIN s /\ Len(d) + i > Len(d) /\ (Len(d) + i) - Len(d) = i
  BY <1>5, <1>6
<1> QED BY <1>8, <1>9, <1>10, <1>11 DEF d, r, s

LEMMA StrongIsEmbedded ==
    ASSUME NEW t, NEW ref \in References
    PROVE  IsStrong(t, ref) <=> Embeds(t, ref)
<1>1. ref.super \in BOOLEAN
  BY DEF References
<1> QED BY <1>1 DEF IsStrong, Embeds

LEMMA RequiredAreSuccessors ==
    ASSUME program \in ProgramType, NEW t \in Types, NEW u \in Required(t)
    PROVE  \E n \in DOMAIN Successors(t) : Counts(t, n) /\ Successors(t)[n] = u
<1>1. program.defs[t] \in Seq(Types) /\ program.refs[t] \in Seq(References)
  BY SuccessorsType
<1>2. CASE u \in Elements(program.defs[t])
  <2>1. PICK i \in DOMAIN program.defs[t] : program.defs[t][i] = u
    BY <1>2 DEF Elements
  <2>2. i \in DOMAIN Successors(t) /\ i <= Len(program.defs[t]) /\ Successors(t)[i] = u
    BY <2>1, SuccessorAt
  <2>3. ~(i > Len(program.defs[t]))
    BY <1>1, <2>1
  <2> QED BY <2>2, <2>3 DEF Counts
<1>3. CASE u \notin Elements(program.defs[t])
  <2>1. PICK i \in DOMAIN program.refs[t] :
            program.refs[t][i].to = u /\ Embeds(t, program.refs[t][i])
    BY <1>3 DEF Required, Elements
  <2>2. program.refs[t][i] \in References
    BY <1>1, <2>1
  <2>3. IsStrong(t, program.refs[t][i])
    BY <2>1, <2>2, StrongIsEmbedded
  <2> DEFINE n == Len(program.defs[t]) + i
  <2>4. n \in DOMAIN Successors(t) /\ n > Len(program.defs[t]) /\ n - Len(program.defs[t]) = i
    BY <2>1, SuccessorAt
  <2> HIDE DEF n
  <2>5. Successors(t)[n] = u
    BY <2>1, <2>4, SuccessorAt
  <2> QED BY <2>3, <2>4, <2>5 DEF Counts
<1> QED BY <1>2, <1>3

LEMMA CalledIsRequired ==
    ASSUME program \in ProgramType, NEW t \in Types,
           NEW n \in DOMAIN Successors(t), Counts(t, n)
    PROVE  Successors(t)[n] \in Required(t)
<1>1. program.defs[t] \in Seq(Types) /\ program.refs[t] \in Seq(References)
  BY SuccessorsType
<1>2. n \in Nat /\ Len(program.defs[t]) \in Nat
  <2>1. Successors(t) \in Seq(Types)
    BY SuccessorsType
  <2> QED BY <1>1, <2>1
<1>3. CASE n <= Len(program.defs[t])
  <2>1. n \in DOMAIN program.defs[t] /\ Successors(t)[n] = program.defs[t][n]
    BY <1>3, SuccessorAt
  <2> QED BY <2>1 DEF Required, Elements
<1>4. CASE n > Len(program.defs[t])
  <2> DEFINE i == n - Len(program.defs[t])
  <2>1. i \in DOMAIN program.refs[t] /\ Successors(t)[n] = program.refs[t][i].to
    BY <1>4, SuccessorAt
  <2>2. IsStrong(t, program.refs[t][i])
    BY <1>4 DEF Counts
  <2> HIDE DEF i
  <2>3. program.refs[t][i] \in References
    BY <1>1, <2>1
  <2>4. Embeds(t, program.refs[t][i]) /\ program.refs[t][i] \in Elements(program.refs[t])
    BY <2>1, <2>2, <2>3, StrongIsEmbedded DEF Elements
  <2> QED BY <2>1, <2>4 DEF Required
<1> QED BY <1>2, <1>3, <1>4
-----------------------------------------------------------------------------
(* The walk.  No action changes the program, so none changes what the      *)
(* successors of a type are.                                               *)

LEMMA SameSuccessors ==
    ASSUME program' = program
    PROVE  /\ \A t : Successors(t)' = Successors(t)
           /\ \A t, n : Counts(t, n)' = Counts(t, n)
           /\ \A t : Required(t)' = Required(t)
BY DEF Successors, Counts, IsStrong, Required, Embeds

LEMMA TopFacts ==
    ASSUME frames \in Seq(FrameType), frames # <<>>
    PROVE  /\ Len(frames) \in Nat \ {0}
           /\ DOMAIN frames = 1 .. Len(frames)
           /\ Len(frames) \in DOMAIN frames
           /\ Top \in FrameType
           /\ Top.type \in Types /\ Top.next \in Nat \ {0}
           /\ \A i \in DOMAIN frames :
                frames[i] \in FrameType /\ frames[i].type \in Types /\ frames[i].next \in Nat \ {0}
<1>1. Len(frames) \in Nat \ {0} /\ DOMAIN frames = 1 .. Len(frames)
  OBVIOUS
<1>2. \A i \in DOMAIN frames : frames[i] \in FrameType
  OBVIOUS
<1>3. \A x \in FrameType : x.type \in Types /\ x.next \in Nat \ {0}
  BY DEF FrameType
<1> QED BY <1>1, <1>2, <1>3 DEF Top

\* at a successor, the position in the list is a position of the list
LEMMA AtSuccessorFacts ==
    ASSUME TypesOfWalk, AtSuccessor
    PROVE  /\ frames # <<>>
           /\ Top.next \in DOMAIN Successors(Top.type)
           /\ NextSuccessor \in Types
<1>1. frames # <<>>
  BY DEF AtSuccessor, TypesOfWalk
<1>2. Top.type \in Types /\ Top.next \in Nat \ {0}
  BY <1>1, TopFacts DEF TypesOfWalk
<1>3. Successors(Top.type) \in Seq(Types)
  BY <1>2, SuccessorsType DEF TypesOfWalk
<1>4. Top.next \in DOMAIN Successors(Top.type)
  BY <1>2, <1>3 DEF AtSuccessor
<1>5. NextSuccessor \in Types
  BY <1>3, <1>4 DEF NextSuccessor
<1> QED BY <1>1, <1>4, <1>5

\* the frames after the innermost one went on to its next successor
LEMMA AdvancedFacts ==
    ASSUME frames \in Seq(FrameType), frames # <<>>
    PROVE  /\ Advanced \in Seq(FrameType)
           /\ Len(Advanced) = Len(frames)
           /\ \A i \in 1 .. Len(frames) :
                /\ Advanced[i].type = frames[i].type
                /\ i # Len(frames) => Advanced[i].next = frames[i].next
           /\ Advanced[Len(frames)].next = Top.next + 1
<1>1. Len(frames) \in DOMAIN frames /\ DOMAIN frames = 1 .. Len(frames)
  BY TopFacts
<1>2. Advanced = [frames EXCEPT ![Len(frames)] = [frames[Len(frames)] EXCEPT !.next = Top.next + 1]]
  BY <1>1 DEF Advanced, Top
<1>3. Top \in FrameType /\ Top.next + 1 \in Nat \ {0}
  BY TopFacts
<1> DEFINE f == [frames[Len(frames)] EXCEPT !.next = Top.next + 1]
<1>4. f \in FrameType /\ f.type = frames[Len(frames)].type /\ f.next = Top.next + 1
  BY <1>3 DEF Top, FrameType
<1> HIDE DEF f
<1>5. Advanced \in Seq(FrameType) /\ Len(Advanced) = Len(frames)
  BY <1>1, <1>2, <1>4 DEF f
<1>6. \A i \in 1 .. Len(frames) : Advanced[i] = IF i = Len(frames) THEN f ELSE frames[i]
  BY <1>1, <1>2 DEF f
<1> QED BY <1>1, <1>4, <1>5, <1>6

LEMMA SkipOrder ==
    ASSUME OrderInv, Skip
    PROVE  OrderInv'
<1> DEFINE n == Len(frames)
<1>1. /\ program' = program /\ phase = "order" /\ phase' = phase /\ stack' = stack
      /\ reversedOrder' = reversedOrder
  BY DEF Skip, AtSuccessor
<1>2. TypesOfWalk /\ AtSuccessor /\ frames \in Seq(FrameType) /\ frames # <<>>
  BY AtSuccessorFacts DEF OrderInv, Skip, TypesOfWalk
<1>3. Path /\ Distinct /\ Passed /\ Open /\ StackIsFrames /\ FromRoot
  BY <1>1 DEF OrderInv, WalkInv
<1>4. frames' = Advanced
  BY DEF Skip
<1>5. /\ frames' \in Seq(FrameType) /\ Len(frames') = n
      /\ frames'[n].next = Top.next + 1
  BY <1>2, <1>4, AdvancedFacts
<1>6. \A i \in 1 .. n : frames'[i].type = frames[i].type
  BY <1>2, <1>4, AdvancedFacts
<1>7. \A i \in 1 .. n : i # n => frames'[i].next = frames[i].next
  BY <1>2, <1>4, AdvancedFacts
<1>8. n \in Nat \ {0} /\ DOMAIN frames = 1 .. n /\ DOMAIN frames' = 1 .. n
  BY <1>2, <1>5
<1>9. frames' # <<>>
  BY <1>5, <1>8
<1> HIDE DEF n
<1>10. (\A t : Successors(t)' = Successors(t)) /\ (\A t, k : Counts(t, k)' = Counts(t, k))
  BY <1>1, SameSuccessors
<1>11. TypesOfWalk'
  BY <1>1, <1>2, <1>5 DEF TypesOfWalk
<1>12. Path'
  <2> SUFFICES ASSUME NEW i \in 1 .. n - 1
               PROVE  Calls(frames[i], frames[i + 1].type)'
    BY <1>5 DEF Path
  <2>1. i \in 1 .. n /\ i + 1 \in 1 .. n /\ i # n
    BY <1>8
  <2>2. Calls(frames[i], frames[i + 1].type)
    BY <1>3 DEF Path, n
  <2>3. frames'[i].type = frames[i].type /\ frames'[i].next = frames[i].next
        /\ frames'[i + 1].type = frames[i + 1].type
    BY <1>6, <1>7, <2>1
  <2> QED BY <1>10, <2>2, <2>3 DEF Calls
<1>13. Distinct'
  BY <1>3, <1>6, <1>8 DEF Distinct
<1>14. Open'
  BY <1>1, <1>3, <1>6, <1>8 DEF Open
<1>15. StackIsFrames'
  BY <1>1, <1>3, <1>6, <1>8 DEF StackIsFrames
<1>16. FromRoot'
  <2>1. 1 \in 1 .. n
    BY <1>8
  <2> QED BY <1>2, <1>3, <1>6, <1>9, <2>1 DEF FromRoot
<1>17. ASSUME NEW i \in 1 .. n, NEW k \in DOMAIN Successors(frames[i].type),
              k < frames'[i].next, Counts(frames[i].type, k)
       PROVE  Successors(frames[i].type)[k] \in Elements(reversedOrder)
  <2>1. CASE i # n
    <3>1. k < frames[i].next
      BY <1>7, <1>17, <2>1
    <3> QED BY <1>3, <1>8, <1>17, <3>1 DEF Passed, PassedUpTo
  <2>2. CASE i = n /\ k # Top.next
    <3>1. Successors(frames[i].type) \in Seq(Types)
      <4>1. frames[i].type \in Types
        BY <1>2, <1>8, TopFacts
      <4> QED BY <1>2, <4>1, SuccessorsType DEF TypesOfWalk
    <3>2. k \in Nat
      BY <3>1
    <3>3. k < Top.next + 1 /\ Top.next \in Nat
      BY <1>2, <1>5, <1>17, <2>2, TopFacts
    <3>4. k < Top.next
      BY <2>2, <3>2, <3>3
    <3>5. k < frames[i].next
      BY <2>2, <3>4 DEF Top, n
    <3> QED BY <1>3, <1>8, <1>17, <3>5 DEF Passed, PassedUpTo
  <2>3. CASE i = n /\ k = Top.next
    BY <1>17, <2>3 DEF Skip, NextCounts, NextSuccessor, Top, n
  <2> QED BY <2>1, <2>2, <2>3
<1>18. Passed'
  <2> SUFFICES ASSUME NEW i \in 1 .. n
               PROVE  PassedUpTo(frames[i].type, frames[i].next)'
    BY <1>8 DEF Passed
  <2>1. frames'[i].type = frames[i].type
    BY <1>6
  <2> QED BY <1>1, <1>10, <1>17, <2>1 DEF PassedUpTo
<1>19. OrderIsLinear' /\ OrderIsComplete'
  BY <1>1, SameSuccessors DEF OrderInv, OrderIsLinear, OrderIsComplete
<1> QED BY <1>11, <1>12, <1>13, <1>14, <1>15, <1>16, <1>18, <1>19 DEF OrderInv, WalkInv

LEMMA DescendOrder ==
    ASSUME OrderInv, Descend
    PROVE  OrderInv'
<1> DEFINE n == Len(frames)
           u == NextSuccessor
<1>1. /\ program' = program /\ phase = "order" /\ phase' = phase /\ stack' = stack \cup {u}
      /\ reversedOrder' = reversedOrder /\ u \notin stack /\ u \notin Elements(reversedOrder)
  BY DEF Descend, AtSuccessor
<1>2. TypesOfWalk /\ AtSuccessor /\ frames \in Seq(FrameType) /\ frames # <<>>
  BY AtSuccessorFacts DEF OrderInv, Descend, TypesOfWalk
<1>3. Path /\ Distinct /\ Passed /\ Open /\ StackIsFrames /\ FromRoot
  BY <1>1 DEF OrderInv, WalkInv
<1>4. u \in Types /\ Calls(frames[n], u)
  BY <1>2, AtSuccessorFacts DEF Calls, Descend, NextCounts, NextSuccessor, Top
<1> HIDE DEF u
<1>5. Frame(u) \in FrameType /\ Frame(u).type = u /\ Frame(u).next = 1
  BY <1>4 DEF Frame, FrameType
<1>6. frames' = Append(frames, Frame(u))
  BY DEF Descend, u
<1>7. n \in Nat \ {0} /\ DOMAIN frames = 1 .. n
  BY <1>2
<1>8. frames' \in Seq(FrameType) /\ Len(frames') = n + 1
  BY <1>2, <1>5, <1>6
<1>9. frames'[n + 1] = Frame(u)
  BY <1>2, <1>5, <1>6
<1>10. \A i \in 1 .. n : frames'[i] = frames[i]
  BY <1>2, <1>5, <1>6
<1>11. DOMAIN frames' = 1 .. n + 1 /\ frames' # <<>>
  BY <1>7, <1>8
<1> HIDE DEF n
<1>12. (\A t : Successors(t)' = Successors(t)) /\ (\A t, k : Counts(t, k)' = Counts(t, k))
  BY <1>1, SameSuccessors
<1>13. TypesOfWalk'
  BY <1>1, <1>2, <1>8 DEF TypesOfWalk
<1>14. Path'
  <2> SUFFICES ASSUME NEW i \in 1 .. n
               PROVE  Calls(frames[i], frames[i + 1].type)'
    BY <1>7, <1>8 DEF Path
  <2>1. frames'[i] = frames[i]
    BY <1>10
  <2>2. Calls(frames[i], frames'[i + 1].type)
    <3>1. CASE i = n
      BY <1>4, <1>5, <1>9, <3>1
    <3>2. CASE i # n
      <4>1. i \in 1 .. n - 1 /\ i + 1 \in 1 .. n
        BY <1>7, <3>2
      <4>2. frames'[i + 1] = frames[i + 1]
        BY <1>10, <4>1
      <4> QED BY <1>3, <4>1, <4>2 DEF Path, n
    <3> QED BY <3>1, <3>2
  <2> QED BY <1>12, <2>1, <2>2 DEF Calls
<1>15. \A i \in 1 .. n + 1 : i \in 1 .. n \/ i = n + 1
  BY <1>7
<1>16. \A i \in 1 .. n : frames[i].type # u
  BY <1>1, <1>3, <1>7 DEF StackIsFrames
<1>17. Distinct'
  BY <1>3, <1>5, <1>7, <1>9, <1>10, <1>11, <1>15, <1>16 DEF Distinct
<1>18. Open'
  BY <1>1, <1>3, <1>5, <1>7, <1>9, <1>10, <1>11, <1>15 DEF Open
<1>19. StackIsFrames'
  <2>1. \A i \in 1 .. n + 1 : frames'[i].type \in stack'
    BY <1>1, <1>3, <1>5, <1>7, <1>9, <1>10, <1>15 DEF StackIsFrames
  <2>2. ASSUME NEW x \in stack' PROVE \E i \in 1 .. n + 1 : frames'[i].type = x
    <3>1. CASE x = u
      <4>1. n + 1 \in 1 .. n + 1
        BY <1>7
      <4> QED BY <1>5, <1>9, <3>1, <4>1
    <3>2. CASE x \in stack
      <4>1. PICK i \in 1 .. n : frames[i].type = x
        BY <1>3, <1>7, <3>2 DEF StackIsFrames
      <4>2. i \in 1 .. n + 1
        BY <1>7
      <4> QED BY <1>10, <4>1, <4>2
    <3> QED BY <1>1, <2>2, <3>1, <3>2
  <2> QED BY <1>11, <2>1, <2>2 DEF StackIsFrames
<1>20. FromRoot'
  <2>1. 1 \in 1 .. n
    BY <1>7
  <2> QED BY <1>2, <1>3, <1>10, <1>11, <2>1 DEF FromRoot
<1>21. Passed'
  <2> SUFFICES ASSUME NEW i \in 1 .. n + 1
               PROVE  PassedUpTo(frames[i].type, frames[i].next)'
    BY <1>11 DEF Passed
  <2>1. CASE i \in 1 .. n
    <3>1. frames'[i] = frames[i] /\ PassedUpTo(frames[i].type, frames[i].next)
      BY <1>3, <1>7, <1>10, <2>1 DEF Passed
    <3> QED BY <1>1, <1>12, <3>1 DEF PassedUpTo
  <2>2. CASE i = n + 1
    <3>1. frames'[i].type = u /\ frames'[i].next = 1
      BY <1>5, <1>9, <2>2
    <3>2. Successors(u) \in Seq(Types)
      BY <1>2, <1>4, SuccessorsType DEF TypesOfWalk
    <3>3. \A k \in DOMAIN Successors(u) : ~(k < 1)
      BY <3>2
    <3> QED BY <1>12, <3>1, <3>3 DEF PassedUpTo
  <2> QED BY <1>15, <2>1, <2>2
<1>22. OrderIsLinear' /\ OrderIsComplete'
  BY <1>1, SameSuccessors DEF OrderInv, OrderIsLinear, OrderIsComplete
<1> QED BY <1>13, <1>14, <1>17, <1>18, <1>19, <1>20, <1>21, <1>22 DEF OrderInv, WalkInv

\* the frames after the innermost one returned and its caller went on
Returned == [Below EXCEPT ![Len(frames) - 1].next = @ + 1]

LEMMA BelowFacts ==
    ASSUME frames \in Seq(FrameType), frames # <<>>
    PROVE  /\ Below \in Seq(FrameType)
           /\ Len(Below) = Len(frames) - 1
           /\ \A i \in 1 .. Len(frames) - 1 : Below[i] = frames[i]
<1>1. Len(frames) \in Nat \ {0} /\ \A i \in 1 .. Len(frames) : frames[i] \in FrameType
  OBVIOUS
<1>2. Len(frames) - 1 \in Nat /\ \A i \in 1 .. Len(frames) - 1 : i \in 1 .. Len(frames)
  BY <1>1
<1>3. Below = [i \in 1 .. Len(frames) - 1 |-> frames[i]]
  BY <1>1, <1>2 DEF Below
<1>4. \A i \in 1 .. Len(frames) - 1 : frames[i] \in FrameType
  BY <1>1, <1>2
<1> QED BY <1>2, <1>3, <1>4

LEMMA ReturnedFacts ==
    ASSUME frames \in Seq(FrameType), frames # <<>>, Len(frames) # 1
    PROVE  /\ Returned \in Seq(FrameType)
           /\ Len(Returned) = Len(frames) - 1
           /\ \A i \in 1 .. Len(frames) - 1 :
                /\ Returned[i].type = frames[i].type
                /\ i # Len(frames) - 1 => Returned[i].next = frames[i].next
           /\ Returned[Len(frames) - 1].next = frames[Len(frames) - 1].next + 1
<1> DEFINE m == Len(frames) - 1
           f == [frames[m] EXCEPT !.next = frames[m].next + 1]
<1>1. m \in Nat \ {0} /\ m \in 1 .. m /\ m \in DOMAIN frames
  <2>1. Len(frames) \in Nat \ {0} /\ DOMAIN frames = 1 .. Len(frames)
    BY TopFacts
  <2> QED BY <2>1
<1>2. Below \in Seq(FrameType) /\ Len(Below) = m /\ \A i \in 1 .. m : Below[i] = frames[i]
  BY BelowFacts
<1> HIDE DEF m
<1>3. Below[m] = frames[m]
  BY <1>1, <1>2
<1>4. Returned = [Below EXCEPT ![m] = f]
  BY <1>1, <1>2, <1>3 DEF Returned, m
<1>5. frames[m] \in FrameType /\ frames[m].next + 1 \in Nat \ {0}
  BY <1>1, TopFacts
<1>6. f \in FrameType /\ f.type = frames[m].type /\ f.next = frames[m].next + 1
  BY <1>5 DEF FrameType
<1> HIDE DEF f
<1>7. Returned \in Seq(FrameType) /\ Len(Returned) = m
  BY <1>1, <1>2, <1>4, <1>6
<1>8. \A i \in 1 .. m : Returned[i] = IF i = m THEN f ELSE frames[i]
  BY <1>1, <1>2, <1>4
<1> QED BY <1>1, <1>6, <1>7, <1>8 DEF m

\* the type that is numbered has all it requires numbered
LEMMA TopIsReady ==
    ASSUME OrderInv, Complete
    PROVE  \A u \in Required(Top.type) : u \in Elements(reversedOrder)
<1> DEFINE n == Len(frames)
<1>1. phase = "order" /\ frames \in Seq(FrameType) /\ program \in ProgramType
      /\ frames # <<>> /\ Passed
  BY DEF OrderInv, WalkInv, Complete, TypesOfWalk
<1>2. Top.type \in Types /\ Top.next \in Nat /\ n \in DOMAIN frames
  BY <1>1, TopFacts
<1>3. Successors(Top.type) \in Seq(Types)
  BY <1>1, <1>2, SuccessorsType
<1>4. \A k \in DOMAIN Successors(Top.type) : k < Top.next
  BY <1>2, <1>3 DEF Complete
<1>5. PassedUpTo(Top.type, Top.next)
  BY <1>1, <1>2 DEF Passed, Top
<1> QED BY <1>1, <1>2, <1>4, <1>5, RequiredAreSuccessors DEF PassedUpTo

\* a type without a number, all of whose requirements have one, may be next
LEMMA AppendedIsLinear ==
    ASSUME NEW t \in Types, reversedOrder \in Seq(Types), OrderIsLinear,
           reversedOrder' = Append(reversedOrder, t), program' = program,
           t \notin Elements(reversedOrder),
           \A u \in Required(t) : u \in Elements(reversedOrder)
    PROVE  /\ OrderIsLinear'
           /\ Elements(reversedOrder') = Elements(reversedOrder) \cup {t}
<1> DEFINE m == Len(reversedOrder)
<1>1. m \in Nat /\ DOMAIN reversedOrder = 1 .. m
  OBVIOUS
<1>2. /\ reversedOrder' \in Seq(Types) /\ Len(reversedOrder') = m + 1
      /\ reversedOrder'[m + 1] = t
  OBVIOUS
<1>3. \A i \in 1 .. m : reversedOrder'[i] = reversedOrder[i]
  OBVIOUS
<1>4. DOMAIN reversedOrder' = 1 .. m + 1
  BY <1>1, <1>2
<1> HIDE DEF m
<1>5. \A i \in 1 .. m + 1 : i \in 1 .. m \/ i = m + 1
  BY <1>1
<1>6. \A s : Required(s)' = Required(s)
  BY SameSuccessors
<1>7. ASSUME NEW j \in 1 .. m, NEW u \in Required(reversedOrder[j])
      PROVE  \E i \in 1 .. j - 1 : reversedOrder'[i] = u
  <2>1. PICK i \in 1 .. j - 1 : reversedOrder[i] = u
    BY <1>1, <1>7 DEF OrderIsLinear
  <2>2. i \in 1 .. m
    BY <1>1, <1>7, <2>1
  <2> QED BY <1>3, <2>1, <2>2
<1>8. ASSUME NEW u \in Required(t)
      PROVE  \E i \in 1 .. (m + 1) - 1 : reversedOrder'[i] = u
  <2>1. PICK i \in 1 .. m : reversedOrder[i] = u
    BY <1>1, <1>8 DEF Elements
  <2>2. i \in 1 .. (m + 1) - 1
    BY <1>1
  <2> QED BY <1>3, <2>1, <2>2
<1>9. ASSUME NEW j \in 1 .. m + 1, NEW u \in Required(reversedOrder'[j])
      PROVE  \E i \in 1 .. j - 1 : reversedOrder'[i] = u
  <2>1. CASE j \in 1 .. m
    BY <1>3, <1>7, <1>9, <2>1
  <2>2. CASE j = m + 1
    BY <1>2, <1>8, <1>9, <2>2
  <2> QED BY <1>5, <2>1, <2>2
<1>10. \A i \in 1 .. m : reversedOrder[i] # t
  BY <1>1 DEF Elements
<1>11. ASSUME NEW i \in 1 .. m + 1, NEW j \in 1 .. m + 1, reversedOrder'[i] = reversedOrder'[j]
       PROVE  i = j
  <2>1. \A k, l \in 1 .. m : reversedOrder[k] = reversedOrder[l] => k = l
    BY <1>1 DEF OrderIsLinear
  <2> QED BY <1>2, <1>3, <1>5, <1>10, <1>11, <2>1
<1>12. OrderIsLinear'
  BY <1>4, <1>6, <1>9, <1>11 DEF OrderIsLinear
<1>13. Elements(reversedOrder') = Elements(reversedOrder) \cup {t}
  <2>1. \A i \in 1 .. m + 1 : reversedOrder'[i] \in Elements(reversedOrder) \cup {t}
    BY <1>1, <1>2, <1>3, <1>5 DEF Elements
  <2>2. \A x \in Elements(reversedOrder) : \E i \in 1 .. m : reversedOrder[i] = x
    BY <1>1 DEF Elements
  <2>3. \A i \in 1 .. m : i \in 1 .. m + 1
    BY <1>1
  <2>4. m + 1 \in 1 .. m + 1
    BY <1>1
  <2>5. \A x \in Elements(reversedOrder) \cup {t} : \E i \in 1 .. m + 1 : reversedOrder'[i] = x
    BY <1>2, <1>3, <2>2, <2>3, <2>4
  <2>6. Elements(reversedOrder') = {reversedOrder'[i] : i \in 1 .. m + 1}
    BY <1>4 DEF Elements
  <2>7. \A x \in Elements(reversedOrder') : x \in Elements(reversedOrder) \cup {t}
    BY <2>1, <2>6, Zenon
  <2>8. \A x \in Elements(reversedOrder) \cup {t} : x \in Elements(reversedOrder')
    BY <2>5, <2>6, Zenon
  <2> QED BY <2>7, <2>8, Zenon
<1> QED BY <1>12, <1>13

LEMMA CompleteOrder ==
    ASSUME OrderInv, Complete
    PROVE  OrderInv'
<1> DEFINE n == Len(frames)
           t == Top.type
<1>1. /\ program' = program /\ phase = "order" /\ phase' = phase /\ stack' = stack \ {t}
      /\ reversedOrder' = Append(reversedOrder, t)
  BY DEF Complete
<1>2. TypesOfWalk /\ frames \in Seq(FrameType) /\ frames # <<>> /\ reversedOrder \in Seq(Types)
      /\ OrderIsLinear
  BY DEF OrderInv, Complete, TypesOfWalk
<1>3. Path /\ Distinct /\ Passed /\ Open /\ StackIsFrames /\ FromRoot
  BY <1>1 DEF OrderInv, WalkInv
<1>4. n \in Nat \ {0} /\ DOMAIN frames = 1 .. n /\ n \in DOMAIN frames /\ t \in Types
      /\ t = frames[n].type
  BY <1>2, TopFacts DEF Top
<1>5. t \notin Elements(reversedOrder)
  BY <1>3, <1>4 DEF Open
<1>6. OrderIsLinear' /\ Elements(reversedOrder') = Elements(reversedOrder) \cup {t}
  BY <1>1, <1>2, <1>4, <1>5, TopIsReady, AppendedIsLinear
<1>7. OrderIsComplete'
  BY <1>1 DEF OrderIsComplete
<1>8. reversedOrder' \in Seq(Types)
  BY <1>1, <1>2, <1>4
<1>9. frames' = IF n = 1 THEN <<>> ELSE Returned
  BY DEF Complete, Returned
<1> HIDE DEF n, t
<1>10. CASE n = 1
  <2>1. frames' = <<>>
    BY <1>9, <1>10
  <2>2. frames' \in Seq(FrameType) /\ Len(frames') = 0 /\ DOMAIN frames' = {}
    BY <2>1
  <2>3. stack' = {}
    BY <1>1, <1>3, <1>4, <1>10 DEF StackIsFrames
  <2>4. RootScope \in Elements(reversedOrder')
    BY <1>2, <1>3, <1>4, <1>6, <1>10 DEF FromRoot
  <2>5. Path' /\ Distinct' /\ Passed' /\ Open' /\ StackIsFrames' /\ FromRoot'
    BY <2>1, <2>2, <2>3, <2>4 DEF Path, Distinct, Passed, Open, StackIsFrames, FromRoot
  <2> QED BY <1>1, <1>2, <1>6, <1>7, <1>8, <2>2, <2>5 DEF OrderInv, WalkInv, TypesOfWalk
<1>11. CASE n # 1
  <2> DEFINE m == n - 1
  <2>1. m \in Nat \ {0} /\ m \in 1 .. m /\ m \in 1 .. n
    BY <1>4, <1>11
  <2>2. \A i \in 1 .. m : i \in 1 .. n /\ i # n
    BY <1>4, <1>11
  <2>3. frames' = Returned
    BY <1>9, <1>11
  <2>4. frames' \in Seq(FrameType) /\ Len(frames') = m
    BY <1>2, <1>11, <2>3, ReturnedFacts DEF n
  <2>5. \A i \in 1 .. m : frames'[i].type = frames[i].type
    BY <1>2, <1>11, <2>3, ReturnedFacts DEF n
  <2>6. \A i \in 1 .. m : i # m => frames'[i].next = frames[i].next
    BY <1>2, <1>11, <2>3, ReturnedFacts DEF n
  <2>7. frames'[m].next = frames[m].next + 1
    BY <1>2, <1>11, <2>3, ReturnedFacts DEF n
  <2>8. Calls(frames[m], t)
    <3>1. m + 1 = n
      BY <1>4
    <3>2. Calls(frames[m], frames[m + 1].type)
      BY <1>3, <2>1 DEF Path, n
    <3> QED BY <1>4, <3>1, <3>2
  <2> HIDE DEF m
  <2>9. DOMAIN frames' = 1 .. m /\ frames' # <<>>
    BY <2>1, <2>4
  <2>10. (\A s : Successors(s)' = Successors(s)) /\ (\A s, k : Counts(s, k)' = Counts(s, k))
    BY <1>1, SameSuccessors
  <2>11. TypesOfWalk'
    BY <1>1, <1>2, <1>8, <2>4 DEF TypesOfWalk
  <2>12. Path'
    <3> SUFFICES ASSUME NEW i \in 1 .. m - 1
                 PROVE  Calls(frames[i], frames[i + 1].type)'
      BY <2>4 DEF Path
    <3>1. i \in 1 .. m /\ i + 1 \in 1 .. m /\ i # m
      BY <2>1
    <3>2. i \in 1 .. n - 1
      BY <1>4, <3>1 DEF m
    <3>3. Calls(frames[i], frames[i + 1].type)
      BY <1>3, <3>2 DEF Path, n
    <3>4. /\ frames'[i].type = frames[i].type /\ frames'[i].next = frames[i].next
          /\ frames'[i + 1].type = frames[i + 1].type
      BY <2>5, <2>6, <3>1
    <3> QED BY <2>10, <3>3, <3>4 DEF Calls
  <2>13. \A i \in 1 .. m : frames[i].type # t
    BY <1>3, <1>4, <2>2 DEF Distinct
  <2>14. Distinct'
    BY <1>3, <1>4, <2>2, <2>5, <2>9 DEF Distinct
  <2>15. Open'
    BY <1>3, <1>4, <1>6, <2>2, <2>5, <2>9, <2>13 DEF Open
  <2>16. StackIsFrames'
    <3>1. \A i \in 1 .. m : frames'[i].type \in stack'
      BY <1>1, <1>3, <1>4, <2>2, <2>5, <2>13 DEF StackIsFrames
    <3>2. ASSUME NEW x \in stack' PROVE \E i \in 1 .. m : frames'[i].type = x
      <4>1. PICK i \in 1 .. n : frames[i].type = x
        BY <1>1, <1>3, <1>4, <3>2 DEF StackIsFrames
      <4>2. i # n
        BY <1>1, <1>4, <3>2, <4>1
      <4>3. i \in 1 .. m
        BY <1>4, <4>1, <4>2 DEF m
      <4> QED BY <2>5, <4>1, <4>3
    <3> QED BY <2>9, <3>1, <3>2 DEF StackIsFrames
  <2>17. FromRoot'
    <3>1. 1 \in 1 .. m
      BY <2>1
    <3> QED BY <1>2, <1>3, <2>5, <2>9, <3>1 DEF FromRoot
  <2>18. ASSUME NEW i \in 1 .. m, NEW k \in DOMAIN Successors(frames[i].type),
                k < frames'[i].next, Counts(frames[i].type, k)
         PROVE  Successors(frames[i].type)[k] \in Elements(reversedOrder')
    <3>1. i \in DOMAIN frames
      BY <1>4, <2>2
    <3>2. CASE k < frames[i].next
      BY <1>3, <1>6, <2>18, <3>1, <3>2 DEF Passed, PassedUpTo
    <3>3. CASE ~(k < frames[i].next)
      <4>1. i = m
        BY <2>6, <2>18, <3>3
      <4>2. frames[i].type \in Types /\ frames[i].next \in Nat
        BY <1>2, <3>1, TopFacts
      <4>3. Successors(frames[i].type) \in Seq(Types)
        BY <1>2, <4>2, SuccessorsType DEF TypesOfWalk
      <4>4. k \in Nat /\ k < frames[i].next + 1
        BY <2>7, <2>18, <4>1, <4>3
      <4>5. k = frames[i].next
        BY <3>3, <4>2, <4>4
      <4> QED BY <1>6, <2>8, <4>1, <4>5 DEF Calls
    <3> QED BY <3>2, <3>3
  <2>19. Passed'
    <3> SUFFICES ASSUME NEW i \in 1 .. m
                 PROVE  PassedUpTo(frames[i].type, frames[i].next)'
      BY <2>9 DEF Passed
    <3>1. frames'[i].type = frames[i].type
      BY <2>5
    <3> QED BY <2>10, <2>18, <3>1 DEF PassedUpTo
  <2> QED BY <1>6, <1>7, <2>11, <2>12, <2>14, <2>15, <2>16, <2>17, <2>19 DEF OrderInv, WalkInv
<1> QED BY <1>10, <1>11

\* the actions of the later phases leave the walk as it is
LEMMA UnchangedOrder ==
    ASSUME OrderInv, UNCHANGED <<program, frames, reversedOrder>>, phase' # "order",
           phase' \in {"reorder", "restrict", "accepted"} =>
               RootScope \in Elements(reversedOrder)
    PROVE  OrderInv'
<1>1. OrderIsLinear'
  BY SameSuccessors DEF OrderInv, OrderIsLinear
<1>2. TypesOfWalk' /\ WalkInv' /\ OrderIsComplete'
  BY DEF OrderInv, TypesOfWalk, WalkInv, OrderIsComplete
<1> QED BY <1>1, <1>2 DEF OrderInv

LEMMA UnwindOrder ==
    ASSUME OrderInv, Unwind
    PROVE  OrderInv'
<1>1. /\ program' = program /\ reversedOrder' = reversedOrder /\ frames' = Below
      /\ phase = "unwind" /\ phase' = phase /\ frames # <<>>
  BY DEF Unwind
<1>2. frames' \in Seq(FrameType)
  BY <1>1, BelowFacts DEF OrderInv, TypesOfWalk
<1>3. TypesOfWalk'
  BY <1>1, <1>2 DEF OrderInv, TypesOfWalk
<1>4. OrderIsLinear'
  BY <1>1, SameSuccessors DEF OrderInv, OrderIsLinear
<1>5. WalkInv' /\ OrderIsComplete'
  BY <1>1 DEF WalkInv, OrderIsComplete
<1> QED BY <1>3, <1>4, <1>5 DEF OrderInv

LEMMA InitOrder == Init => OrderInv
<1> SUFFICES ASSUME Init PROVE OrderInv
  OBVIOUS
<1>1. Frame(RootScope) \in FrameType /\ Frame(RootScope).type = RootScope /\ Frame(RootScope).next = 1
  BY RootAssumption DEF Frame, FrameType
<1>2. frames = <<Frame(RootScope)>> /\ reversedOrder = <<>> /\ stack = {RootScope} /\ phase = "order"
  BY DEF Init
<1>3. frames \in Seq(FrameType) /\ DOMAIN frames = {1} /\ Len(frames) = 1 /\ frames # <<>>
      /\ frames[1] = Frame(RootScope)
  BY <1>1, <1>2
<1>4. Elements(reversedOrder) = {} /\ reversedOrder \in Seq(Types) /\ DOMAIN reversedOrder = {}
  BY <1>2 DEF Elements
<1>5. program \in ProgramType
  BY ProgramsAssumption DEF Init
<1>6. Successors(RootScope) \in Seq(Types)
  BY <1>5, RootAssumption, SuccessorsType
<1>7. \A k \in DOMAIN Successors(RootScope) : ~(k < 1)
  BY <1>6
<1>8. Passed
  BY <1>1, <1>3, <1>7 DEF Passed, PassedUpTo
<1>9. Path /\ Distinct /\ Open /\ StackIsFrames /\ FromRoot
  BY <1>1, <1>2, <1>3, <1>4 DEF Path, Distinct, Open, StackIsFrames, FromRoot
<1> QED BY <1>2, <1>3, <1>4, <1>5, <1>8, <1>9
     DEF OrderInv, TypesOfWalk, WalkInv, OrderIsLinear, OrderIsComplete

LEMMA StepOrder == OrderInv /\ [Next]_vars => OrderInv'
<1> SUFFICES ASSUME OrderInv, [Next]_vars PROVE OrderInv'
  OBVIOUS
<1>1. CASE Skip
  BY <1>1, SkipOrder
<1>2. CASE Descend
  BY <1>2, DescendOrder
<1>3. CASE FindCycle
  BY <1>3, UnchangedOrder DEF FindCycle
<1>4. CASE Complete
  BY <1>4, CompleteOrder
<1>5. CASE Unwind
  BY <1>5, UnwindOrder
<1>6. CASE Reject
  BY <1>6, UnchangedOrder DEF Reject, walk
<1>7. CASE StartReorder
  BY <1>7, UnchangedOrder DEF StartReorder, walk, OrderInv, WalkInv, FromRoot
<1>8. CASE PassOver
  BY <1>8, UnchangedOrder DEF PassOver, walk, OrderInv, OrderIsComplete
<1>9. CASE KeepOrder
  BY <1>9, UnchangedOrder DEF KeepOrder, walk, OrderInv, OrderIsComplete
<1>10. CASE Sort
  BY <1>10, UnchangedOrder DEF Sort, walk, OrderInv, OrderIsComplete
<1>11. CASE StartRestrict
  BY <1>11, UnchangedOrder DEF StartRestrict, walk, OrderInv, OrderIsComplete
<1>12. CASE CheckForward
  BY <1>12, UnchangedOrder DEF CheckForward, walk, OrderInv, OrderIsComplete
<1>13. CASE Accept
  BY <1>13, UnchangedOrder DEF Accept, walk, OrderInv, OrderIsComplete
<1>14. CASE UNCHANGED vars
  <2>1. UNCHANGED <<program, phase, frames, stack, reversedOrder>>
    BY <1>14 DEF vars, walk
  <2>2. (\A t : Successors(t)' = Successors(t)) /\ (\A t, k : Counts(t, k)' = Counts(t, k))
        /\ (\A t : Required(t)' = Required(t))
    BY <2>1, SameSuccessors
  <2>3. TypesOfWalk' /\ OrderIsLinear' /\ OrderIsComplete'
    BY <2>1, <2>2 DEF OrderInv, TypesOfWalk, OrderIsLinear, OrderIsComplete
  <2>4. ASSUME phase = "order"
        PROVE  Path' /\ Distinct' /\ Passed' /\ Open' /\ StackIsFrames' /\ FromRoot'
    <3>1. Path /\ Distinct /\ Passed /\ Open /\ StackIsFrames /\ FromRoot
      BY <2>4 DEF OrderInv, WalkInv
    <3>2. Path' /\ Passed'
      BY <2>1, <2>2, <3>1 DEF Path, Calls, Passed, PassedUpTo
    <3> QED BY <2>1, <3>1, <3>2 DEF Distinct, Open, StackIsFrames, FromRoot
  <2> QED BY <2>1, <2>3, <2>4 DEF OrderInv, WalkInv
<1> QED BY <1>1, <1>2, <1>3, <1>4, <1>5, <1>6, <1>7, <1>8, <1>9, <1>10, <1>11, <1>12, <1>13, <1>14
     DEF Next

\* On every program, Type::topologicalOrder gives each type at most one
\* index, larger than those of all it requires; if it succeeds, the scope
\* of the file has an index.
THEOREM OrderInvHolds == Spec => []OrderInv
<1> QED BY InitOrder, StepOrder, PTL DEF Spec

\* The numbers that topologicalOrder gives are a topological order of the
\* types, whatever the program.
THEOREM OrderIsLinearHolds == Spec => []OrderIsLinear
<1>1. OrderInv => OrderIsLinear
  BY DEF OrderInv
<1> QED BY <1>1, OrderInvHolds, PTL
-----------------------------------------------------------------------------
(* The report.                                                             *)

\* a line is appended that goes on from the last one
LEMMA AppendedToChain ==
    ASSUME Chain, NEW u \in Types, NEW t \in Types, u \in Required(t),
           printed # <<>> => printed[Len(printed)][2] = u,
           printed' = Append(printed, <<u, t>>), program' = program
    PROVE  /\ Chain'
           /\ printed' # <<>>
           /\ printed'[Len(printed')][2] = t
           /\ printed'[1][1] = IF printed = <<>> THEN u ELSE printed[1][1]
<1> DEFINE m == Len(printed)
           line == <<u, t>>
<1>1. printed \in Seq(Types \X Types) /\ m \in Nat /\ DOMAIN printed = 1 .. m
      /\ (printed = <<>> <=> m = 0)
  BY DEF Chain
<1>2. line \in Types \X Types /\ line[1] = u /\ line[2] = t
  OBVIOUS
<1>3. printed' = Append(printed, line)
  OBVIOUS
<1> HIDE DEF line
<1>4. /\ printed' \in Seq(Types \X Types) /\ Len(printed') = m + 1 /\ printed'[m + 1] = line
      /\ DOMAIN printed' = 1 .. m + 1 /\ printed' # <<>>
  BY <1>1, <1>2, <1>3
<1>5. \A i \in 1 .. m : printed'[i] = printed[i]
  BY <1>1, <1>2, <1>3
<1> HIDE DEF m
<1>6. \A i \in 1 .. m + 1 : i \in 1 .. m \/ i = m + 1
  BY <1>1
<1>7. \A s : Required(s)' = Required(s)
  BY SameSuccessors
<1>8. \A i \in 1 .. m : printed[i][1] \in Required(printed[i][2])
  BY <1>1 DEF Chain
<1>9. \A i \in 1 .. m + 1 : printed'[i][1] \in Required(printed'[i][2])
  <2>1. ASSUME NEW i \in 1 .. m + 1
        PROVE  printed'[i][1] \in Required(printed'[i][2])
    <3>1. CASE i \in 1 .. m
      BY <1>5, <1>8, <3>1
    <3>2. CASE i = m + 1
      <4>1. printed'[i][1] = u /\ printed'[i][2] = t
        BY <1>2, <1>4, <3>2
      <4> QED BY <4>1
    <3> QED BY <1>6, <2>1, <3>1, <3>2
  <2> QED BY <2>1
<1>10. ASSUME NEW i \in 1 .. (m + 1) - 1
       PROVE  printed'[i][2] = printed'[i + 1][1]
  <2>1. i \in 1 .. m /\ m # 0 /\ i \in Nat
    BY <1>1
  <2>2. CASE i = m
    <3>1. printed[m][2] = u
      BY <1>1, <2>1 DEF m
    <3> QED BY <1>2, <1>4, <1>5, <2>1, <2>2, <3>1
  <2>3. CASE i # m
    <3>1. i \in 1 .. m - 1 /\ i + 1 \in 1 .. m
      BY <1>1, <2>1, <2>3
    <3>2. printed[i][2] = printed[i + 1][1]
      BY <3>1 DEF Chain, m
    <3> QED BY <1>5, <2>1, <3>1, <3>2
  <2> QED BY <2>2, <2>3
<1>11. Chain'
  BY <1>4, <1>7, <1>9, <1>10 DEF Chain
<1>12. printed'[Len(printed')][2] = t
  BY <1>2, <1>4
<1>13. printed'[1][1] = IF printed = <<>> THEN u ELSE printed[1][1]
  <2>1. CASE m = 0
    BY <1>1, <1>2, <1>4, <2>1
  <2>2. CASE m # 0
    <3>1. 1 \in 1 .. m
      BY <1>1, <2>2
    <3> QED BY <1>1, <1>5, <2>2, <3>1
  <2> QED BY <2>1, <2>2
<1> QED BY <1>4, <1>11, <1>12, <1>13

\* an error is found: its end is among the activations, and the innermost
\* one is in the call of it
LEMMA FindCycleReport ==
    ASSUME OrderInv, ReportInv, FindCycle
    PROVE  ReportInv'
<1>1. /\ program' = program /\ frames' = frames /\ printed' = printed
      /\ phase = "order" /\ phase' = "unwind" /\ cycleEnd' = NextSuccessor
      /\ AtSuccessor /\ NextCounts /\ NextSuccessor \in stack
  BY DEF FindCycle, AtSuccessor
<1>2. TypesOfWalk /\ Path /\ StackIsFrames
  BY <1>1 DEF OrderInv, WalkInv
<1>3. Chain /\ printed = <<>>
  BY <1>1 DEF ReportInv
<1>4. frames # <<>> /\ Top.next \in DOMAIN Successors(Top.type) /\ NextSuccessor \in Types
  BY <1>1, <1>2, AtSuccessorFacts
<1>5. Calls(Top, NextSuccessor)
  BY <1>1, <1>4 DEF Calls, NextCounts, NextSuccessor
<1>6. NextSuccessor # NoType
  BY <1>4, NoTypeAssumption
<1>7. \E i \in DOMAIN frames : frames[i].type = NextSuccessor
  BY <1>1, <1>2 DEF StackIsFrames
<1>8. (\A s : Successors(s)' = Successors(s)) /\ (\A s, k : Counts(s, k)' = Counts(s, k))
      /\ (\A s : Required(s)' = Required(s))
  BY <1>1, SameSuccessors
<1>9. \A f, u : Calls(f, u)' = Calls(f, u)
  BY <1>8 DEF Calls
<1>10. Path' /\ Top' = Top
  BY <1>1, <1>2, <1>9 DEF Path, Top
<1>11. Chain'
  BY <1>1, <1>3, <1>8 DEF Chain
<1>12. Returning'
  BY <1>1, <1>3, <1>5, <1>6, <1>7, <1>9, <1>10 DEF Returning
<1> QED BY <1>1, <1>11, <1>12 DEF ReportInv

LEMMA UnwindReport ==
    ASSUME OrderInv, ReportInv, Unwind
    PROVE  ReportInv'
<1> DEFINE n == Len(frames)
<1>1. /\ program' = program /\ frames' = Below /\ phase = "unwind" /\ phase' = phase
      /\ printed' = (IF cycleEnd = NoType
                     THEN printed
                     ELSE Append(printed, <<NextSuccessor, Top.type>>))
      /\ cycleEnd' = (IF cycleEnd = Top.type THEN NoType ELSE cycleEnd)
      /\ frames # <<>>
  BY DEF Unwind
<1>2. TypesOfWalk /\ frames \in Seq(FrameType) /\ program \in ProgramType /\ Chain /\ Returning
  BY <1>1 DEF OrderInv, ReportInv, TypesOfWalk
<1>3. n \in Nat \ {0} /\ DOMAIN frames = 1 .. n /\ Top = frames[n] /\ Top.type \in Types
  BY <1>1, <1>2, TopFacts DEF Top
<1>4. /\ Below \in Seq(FrameType) /\ Len(Below) = n - 1
      /\ \A i \in 1 .. n - 1 : Below[i] = frames[i]
  BY <1>1, <1>2, BelowFacts
<1>5. (\A s : Successors(s)' = Successors(s)) /\ (\A s, k : Counts(s, k)' = Counts(s, k))
      /\ (\A s : Required(s)' = Required(s))
  BY <1>1, SameSuccessors
<1>6. \A f, u : Calls(f, u)' = Calls(f, u)
  BY <1>5 DEF Calls
<1>7. \A i \in 1 .. n - 1 : Calls(frames[i], frames[i + 1].type)
  BY <1>2 DEF Returning, Path
<1> HIDE DEF n
<1>8. Path'
  <2> SUFFICES ASSUME NEW i \in 1 .. (n - 1) - 1
               PROVE  Calls(Below[i], Below[i + 1].type)
    BY <1>1, <1>4, <1>6 DEF Path
  <2>1. i \in 1 .. n - 1 /\ i + 1 \in 1 .. n - 1
    BY <1>3
  <2> QED BY <1>4, <1>7, <2>1
<1>9. CASE cycleEnd = NoType
  <2>1. printed' = printed /\ cycleEnd' = NoType /\ Closed
    BY <1>1, <1>2, <1>9 DEF Returning
  <2>2. Chain' /\ Closed'
    BY <1>2, <1>5, <2>1 DEF Chain, Closed
  <2> QED BY <1>1, <1>8, <2>1, <2>2 DEF ReportInv, Returning
<1>10. CASE cycleEnd # NoType
  <2> DEFINE u == IF printed = <<>> THEN cycleEnd ELSE printed[Len(printed)][2]
  <2>1. /\ \E i \in DOMAIN frames : frames[i].type = cycleEnd
        /\ printed # <<>> => printed[1][1] = cycleEnd
        /\ Calls(Top, u)
    BY <1>2, <1>10 DEF Returning
  <2>2. NextSuccessor = u /\ Top.next \in DOMAIN Successors(Top.type) /\ Counts(Top.type, Top.next)
    BY <2>1 DEF Calls, NextSuccessor
  <2>3. u \in Required(Top.type)
    BY <1>2, <1>3, <2>2, CalledIsRequired DEF NextSuccessor
  <2>4. u \in Types
    <3>1. Successors(Top.type) \in Seq(Types)
      BY <1>2, <1>3, SuccessorsType
    <3>2. Successors(Top.type)[Top.next] \in Types
      BY <2>2, <3>1
    <3> QED BY <2>2, <3>2 DEF NextSuccessor
  <2>5. printed # <<>> => printed[Len(printed)][2] = u
    OBVIOUS
  <2>6. printed = <<>> => u = cycleEnd
    OBVIOUS
  <2> HIDE DEF u
  <2>7. printed' = Append(printed, <<u, Top.type>>)
    BY <1>1, <1>10, <2>2
  <2>8. /\ Chain' /\ printed' # <<>> /\ printed'[Len(printed')][2] = Top.type
        /\ printed'[1][1] = cycleEnd
    BY <1>1, <1>2, <1>3, <2>1, <2>3, <2>4, <2>5, <2>6, <2>7, AppendedToChain
  <2>9. CASE cycleEnd = Top.type
    <3>1. cycleEnd' = NoType /\ Closed'
      BY <1>1, <2>8, <2>9 DEF Closed
    <3> QED BY <1>1, <1>8, <2>8, <3>1 DEF ReportInv, Returning
  <2>10. CASE cycleEnd # Top.type
    <3>1. cycleEnd' = cycleEnd
      BY <1>1, <2>10
    <3>2. PICK i \in 1 .. n : frames[i].type = cycleEnd
      BY <1>3, <2>1
    <3>3. i # n
      BY <1>3, <2>10, <3>2
    <3>4. i \in 1 .. n - 1 /\ n - 1 \in 1 .. n - 1 /\ (n - 1) + 1 = n
      BY <1>3, <3>2, <3>3
    <3>5. DOMAIN frames' = 1 .. n - 1
      BY <1>1, <1>4
    <3>6. \E k \in DOMAIN frames' : frames'[k].type = cycleEnd
      BY <1>1, <1>4, <3>2, <3>4, <3>5
    <3>7. Top' = frames[n - 1]
      BY <1>1, <1>4, <3>4 DEF Top
    <3>8. Calls(frames[n - 1], Top.type)
      BY <1>3, <1>7, <3>4
    <3>9. Calls(Top, Top.type)' <=> Calls(Top', Top'.type)
      BY <1>6
    <3>10. Returning'
      <4>1. Calls(Top', Top.type)
        BY <3>7, <3>8
      <4>2. printed'[Len(printed')][2] = Top.type /\ printed' # <<>>
        BY <2>8
      <4> QED BY <1>6, <1>8, <1>10, <2>8, <3>1, <3>6, <4>1, <4>2 DEF Returning
    <3> QED BY <1>1, <2>8, <3>10 DEF ReportInv
  <2> QED BY <2>9, <2>10
<1> QED BY <1>9, <1>10

\* a step that prints nothing and stays on the same side of the error
LEMMA UnprintedReport ==
    ASSUME ReportInv, program' = program, printed' = printed,
           \/ phase = "order" /\ cycleEnd' = cycleEnd /\ phase' # "unwind"
           \/ phase = "unwind" /\ frames = <<>> /\ phase' \notin {"order", "unwind"}
           \/ phase \notin {"order", "unwind"} /\ phase' \notin {"order", "unwind"}
    PROVE  ReportInv'
<1>1. Chain'
  BY SameSuccessors DEF ReportInv, Chain
<1>2. Closed' = Closed
  BY DEF Closed
<1>3. CASE phase = "order" /\ cycleEnd' = cycleEnd /\ phase' # "unwind"
  BY <1>1, <1>3 DEF ReportInv
<1>4. CASE phase = "unwind" /\ frames = <<>> /\ phase' \notin {"order", "unwind"}
  <2>1. Closed
    BY <1>4 DEF ReportInv, Returning
  <2> QED BY <1>1, <1>2, <1>4, <2>1 DEF ReportInv
<1>5. CASE phase \notin {"order", "unwind"} /\ phase' \notin {"order", "unwind"}
  BY <1>1, <1>2, <1>5 DEF ReportInv
<1> QED BY <1>3, <1>4, <1>5

LEMMA InitReport == Init => ReportInv
<1> SUFFICES ASSUME Init PROVE ReportInv
  OBVIOUS
<1>1. printed = <<>> /\ cycleEnd = NoType /\ phase = "order"
  BY DEF Init
<1>2. printed \in Seq(Types \X Types) /\ Len(printed) = 0 /\ DOMAIN printed = {}
  BY <1>1
<1>3. Chain
  BY <1>2 DEF Chain
<1> QED BY <1>1, <1>3 DEF ReportInv

LEMMA StepReport == OrderInv /\ ReportInv /\ [Next]_vars => ReportInv'
<1> SUFFICES ASSUME OrderInv, ReportInv, [Next]_vars PROVE ReportInv'
  OBVIOUS
<1>1. CASE Skip
  BY <1>1, UnprintedReport DEF Skip, AtSuccessor
<1>2. CASE Descend
  BY <1>2, UnprintedReport DEF Descend, AtSuccessor
<1>3. CASE FindCycle
  BY <1>3, FindCycleReport
<1>4. CASE Complete
  BY <1>4, UnprintedReport DEF Complete
<1>5. CASE Unwind
  BY <1>5, UnwindReport
<1>6. CASE Reject
  BY <1>6, UnprintedReport DEF Reject, walk
<1>7. CASE StartReorder
  BY <1>7, UnprintedReport DEF StartReorder, walk
<1>8. CASE PassOver
  BY <1>8, UnprintedReport DEF PassOver, walk
<1>9. CASE KeepOrder
  BY <1>9, UnprintedReport DEF KeepOrder, walk
<1>10. CASE Sort
  BY <1>10, UnprintedReport DEF Sort, walk
<1>11. CASE StartRestrict
  BY <1>11, UnprintedReport DEF StartRestrict, walk
<1>12. CASE CheckForward
  BY <1>12, UnprintedReport DEF CheckForward, walk
<1>13. CASE Accept
  BY <1>13, UnprintedReport DEF Accept, walk
<1>14. CASE UNCHANGED vars
  <2>1. UNCHANGED <<program, phase, frames, cycleEnd, printed>>
    BY <1>14 DEF vars, walk
  <2>2. CASE phase = "unwind"
    <3>1. (\A s : Successors(s)' = Successors(s)) /\ (\A s, k : Counts(s, k)' = Counts(s, k))
          /\ (\A s : Required(s)' = Required(s))
      BY <2>1, SameSuccessors
    <3>2. \A f, u : Calls(f, u)' = Calls(f, u)
      BY <3>1 DEF Calls
    <3>3. Chain /\ Returning
      BY <2>2 DEF ReportInv
    <3>4. Path' /\ Top' = Top
      BY <2>1, <3>2, <3>3 DEF Path, Returning, Top
    <3>5. Returning'
      BY <2>1, <3>2, <3>3, <3>4 DEF Returning, Closed
    <3>6. Chain'
      BY <2>1, <3>1, <3>3 DEF Chain
    <3> QED BY <2>1, <2>2, <3>5, <3>6 DEF ReportInv
  <2>3. CASE phase # "unwind"
    BY <2>1, <2>3, UnprintedReport
  <2> QED BY <2>2, <2>3
<1> QED BY <1>1, <1>2, <1>3, <1>4, <1>5, <1>6, <1>7, <1>8, <1>9, <1>10, <1>11, <1>12, <1>13, <1>14
     DEF Next

\* What topologicalOrder prints when it refuses a program is a cycle of it.
THEOREM PrintedIsCycleHolds == Spec => []PrintedIsCycle
<1>1. ReportInv => PrintedIsCycle
  BY DEF ReportInv, Chain, Closed, PrintedIsCycle
<1>2. Init => OrderInv /\ ReportInv
  BY InitOrder, InitReport
<1>3. (OrderInv /\ ReportInv) /\ [Next]_vars => (OrderInv /\ ReportInv)'
  BY StepOrder, StepReport
<1> QED BY <1>1, <1>2, <1>3, PTL DEF Spec

-----------------------------------------------------------------------------
(* The scopes.  What is sorted is computed by recursion: induction over a  *)
(* set of numbers shows what comes out.                                    *)

\* A set that has 0 and, with each number, the next one, has every number.
LEMMA SetInduction ==
  ASSUME NEW S, 0 \in S, \A n \in Nat : n \in S => n + 1 \in S
  PROVE \A n \in Nat : n \in S
<1> SUFFICES ASSUME NEW m \in Nat, m \notin S PROVE FALSE
  OBVIOUS
<1> DEFINE less == OpToRel(<, Nat)
           out == Nat \ S
<1>1. IsWellFoundedOn(less, Nat)
  BY NatLessThanWellFounded
<1>2. \A a, b \in Nat : a < b => <<a, b>> \in less
  BY DEF OpToRel
<1>3. out \subseteq Nat /\ out # {}
  OBVIOUS
<1> HIDE DEF less
<1>4. PICK x \in out : \A y \in out : ~(<<y, x>> \in less)
  <2> HIDE DEF out
  <2> QED BY <1>1, <1>3, WFMin
<1>5. x \in Nat /\ x # 0 /\ x - 1 \in Nat /\ x - 1 < x
  OBVIOUS
<1>6. x - 1 \notin out
  BY <1>2, <1>4, <1>5
<1>7. (x - 1) + 1 = x
  BY <1>5
<1> QED BY <1>5, <1>6, <1>7

\* f[n] are those among the first n elements of s that are in E, for n up to k
Picks(f, s, E, k) ==
    f = [n \in 0 .. k |-> IF n = 0 THEN <<>>
                         ELSE IF s[n] \in E THEN Append(f[n - 1], s[n]) ELSE f[n - 1]]

\* What such a function is at each place.
LEMMA PickedAt ==
    ASSUME NEW f, NEW s, NEW E, NEW k, Picks(f, s, E, k), NEW n \in 0 .. k
    PROVE  f[n] = IF n = 0 THEN <<>>
                  ELSE IF s[n] \in E THEN Append(f[n - 1], s[n]) ELSE f[n - 1]
BY DEF Picks

\* One that is known so far goes on by one element.
LEMMA LongerPicks ==
    ASSUME NEW T, NEW s \in Seq(T), NEW E, NEW k \in Nat, k + 1 <= Len(s),
           \E f : Picks(f, s, E, k)
    PROVE  \E f : Picks(f, s, E, k + 1)
<1>1. PICK f : Picks(f, s, E, k)
  OBVIOUS
<1> DEFINE g == [n \in 0 .. (k + 1) |-> IF n <= k THEN f[n]
                                       ELSE IF s[k + 1] \in E THEN Append(f[k], s[k + 1]) ELSE f[k]]
<1>2. ASSUME NEW n \in 0 .. (k + 1)
      PROVE  g[n] = IF n = 0 THEN <<>> ELSE IF s[n] \in E THEN Append(g[n - 1], s[n]) ELSE g[n - 1]
  <2>1. CASE n <= k
    <3>1. n \in 0 .. k /\ g[n] = f[n]
      BY <2>1
    <3>2. n # 0 => g[n - 1] = f[n - 1]
      BY <2>1
    <3> QED BY <1>1, <3>1, <3>2 DEF Picks
  <2>2. CASE n = k + 1
    <3>1. n # 0 /\ g[n - 1] = f[k] /\ g[n] = IF s[n] \in E THEN Append(f[k], s[n]) ELSE f[k]
      BY <2>2
    <3> QED BY <3>1
  <2> QED BY <2>1, <2>2
<1>3. g = [n \in 0 .. (k + 1) |-> g[n]]
  OBVIOUS
<1> HIDE DEF g
<1>4. Picks(g, s, E, k + 1)
  BY <1>2, <1>3 DEF Picks
<1> QED BY <1>4

\* So there is one for the whole of a sequence.
LEMMA SomePick ==
    ASSUME NEW T, NEW s \in Seq(T), NEW E
    PROVE  \E f : Picks(f, s, E, Len(s))
<1> DEFINE S == {k \in Nat : k <= Len(s) => \E f : Picks(f, s, E, k)}
<1>1. 0 \in S
  <2>1. Picks([n \in 0 .. 0 |-> <<>>], s, E, 0)
    BY DEF Picks
  <2> QED BY <2>1
<1>2. ASSUME NEW k \in Nat, k \in S PROVE k + 1 \in S
  BY <1>2, LongerPicks
<1> HIDE DEF S
<1>3. \A k \in Nat : k \in S
  BY <1>1, <1>2, SetInduction
<1>4. Len(s) \in S /\ Len(s) <= Len(s)
  BY <1>3
<1> QED BY <1>4 DEF S

\* Among(s, E), the sorted types of a scope, is a sequence of the elements of s in E.
LEMMA AmongFacts ==
    ASSUME NEW T, NEW s \in Seq(T), NEW E
    PROVE  /\ Among(s, E) \in Seq(T)
           /\ Elements(Among(s, E)) = Elements(s) \cap E
<1> DEFINE first[n \in 0 .. Len(s)] ==
            IF n = 0 THEN <<>>
            ELSE IF s[n] \in E THEN Append(first[n - 1], s[n]) ELSE first[n - 1]
<1>1. Among(s, E) = first[Len(s)]
  BY DEF Among
<1>2. \E f : f = [n \in 0 .. Len(s) |->
                     IF n = 0 THEN <<>>
                     ELSE IF s[n] \in E THEN Append(f[n - 1], s[n]) ELSE f[n - 1]]
  BY SomePick DEF Picks
<1>3. first = [n \in 0 .. Len(s) |->
                  IF n = 0 THEN <<>>
                  ELSE IF s[n] \in E THEN Append(first[n - 1], s[n]) ELSE first[n - 1]]
  BY <1>2 DEF first
<1> HIDE DEF first
<1>4. /\ first[0] = <<>>
      /\ \A n \in 1 .. Len(s) :
            first[n] = IF s[n] \in E THEN Append(first[n - 1], s[n]) ELSE first[n - 1]
  <2>1. Picks(first, s, E, Len(s))
    BY <1>3 DEF Picks
  <2>2. \A n \in 0 .. Len(s) :
           first[n] = IF n = 0 THEN <<>>
                      ELSE IF s[n] \in E THEN Append(first[n - 1], s[n]) ELSE first[n - 1]
    BY <2>1, PickedAt
  <2>3. Len(s) \in Nat /\ 0 \in 0 .. Len(s) /\ \A n \in 1 .. Len(s) : n \in 0 .. Len(s) /\ n # 0
    OBVIOUS
  <2> QED BY <2>2, <2>3
<1> DEFINE S == {k \in Nat : k <= Len(s) =>
                    first[k] \in Seq(T) /\ Elements(first[k]) = {s[i] : i \in 1 .. k} \cap E}
<1>5. 0 \in S
  <2>1. first[0] \in Seq(T) /\ Elements(first[0]) = {}
    BY <1>4 DEF Elements
  <2>2. {s[i] : i \in 1 .. 0} = {}
    OBVIOUS
  <2> QED BY <2>1, <2>2
<1>6. ASSUME NEW k \in Nat, k \in S PROVE k + 1 \in S
  <2> SUFFICES ASSUME k + 1 <= Len(s)
               PROVE  /\ first[k + 1] \in Seq(T)
                      /\ Elements(first[k + 1]) = {s[i] : i \in 1 .. (k + 1)} \cap E
    OBVIOUS
  <2>1. first[k] \in Seq(T) /\ Elements(first[k]) = {s[i] : i \in 1 .. k} \cap E
    BY <1>6
  <2>2. s[k + 1] \in T /\ k + 1 \in 1 .. Len(s)
    OBVIOUS
  <2>3. first[k + 1] = IF s[k + 1] \in E THEN Append(first[k], s[k + 1]) ELSE first[k]
    BY <1>4, <2>2
  <2>4. {s[i] : i \in 1 .. (k + 1)} = {s[i] : i \in 1 .. k} \cup {s[k + 1]}
    OBVIOUS
  <2>5. \A q \in Seq(T), x \in T : Append(q, x) \in Seq(T) /\ Elements(Append(q, x)) = Elements(q) \cup {x}
    <3> SUFFICES ASSUME NEW q \in Seq(T), NEW x \in T
                 PROVE  Elements(Append(q, x)) = Elements(q) \cup {x}
      OBVIOUS
    <3>1. /\ DOMAIN Append(q, x) = 1 .. (Len(q) + 1) /\ DOMAIN q = 1 .. Len(q) /\ Len(q) \in Nat
          /\ \A i \in 1 .. Len(q) : Append(q, x)[i] = q[i]
          /\ Append(q, x)[Len(q) + 1] = x
      OBVIOUS
    <3>2. \A i \in 1 .. (Len(q) + 1) : i \in 1 .. Len(q) \/ i = Len(q) + 1
      BY <3>1
    <3> QED BY <3>1, <3>2 DEF Elements
  <2> QED BY <2>1, <2>2, <2>3, <2>4, <2>5
<1> HIDE DEF S
<1>7. \A k \in Nat : k \in S
  BY <1>5, <1>6, SetInduction
<1>8. Len(s) \in Nat /\ Len(s) \in S /\ DOMAIN s = 1 .. Len(s)
  BY <1>7
<1>9. first[Len(s)] \in Seq(T) /\ Elements(first[Len(s)]) = {s[i] : i \in 1 .. Len(s)} \cap E
  BY <1>8 DEF S
<1> QED BY <1>1, <1>8, <1>9 DEF Elements

(* The scopes and the passes over them: what a scope knows by name is      *)
(* where it is, and the pass visits types of the program only.             *)
ScopesInv ==
    /\ IsNested(program)
    /\ phase \in Phases \ {"threw"}
    /\ stack \subseteq Types /\ cycleEnd \in Types \cup {NoType}
    /\ mTypes \in [Types -> Seq(Types)]
    /\ \A t \in Types : Elements(mTypes[t]) = Elements(program.defs[t])
    /\ typeIndex = [t \in Types |-> Indexed(mTypes[t])]
    /\ orderChanged \subseteq Types
    /\ pending \in Seq(Types) /\ visited \subseteq Types

\* a scope of the file that has types is numbered once its root scope is: else it would be
\* inside a scope that is not, and so on
LEMMA ScopesAreNumbered ==
    ASSUME OrderInv, IsNested(program), RootScope \in Elements(reversedOrder)
    PROVE  \A t \in Enclosing(program) : t \in Elements(reversedOrder)
<1> DEFINE ts == {t \in Enclosing(program) : t \notin Elements(reversedOrder)}
<1>1. ASSUME NEW t \in ts, ts # {} PROVE program.parent[t] \in ts
  <2>1. PICK scope \in Enclosing(program) \cup {RootScope} :
          program.parent[t] = scope /\ t \in Elements(program.defs[scope])
    BY DEF IsNested
  <2>2. t \in Required(scope)
    BY <2>1 DEF Required
  <2>3. scope \notin Elements(reversedOrder)
    <3> SUFFICES ASSUME scope \in Elements(reversedOrder) PROVE FALSE
      OBVIOUS
    <3>1. PICK j \in DOMAIN reversedOrder : reversedOrder[j] = scope
      BY DEF Elements
    <3>2. \E i \in 1 .. j - 1 : reversedOrder[i] = t
      BY <2>2, <3>1 DEF OrderInv, OrderIsLinear
    <3>3. DOMAIN reversedOrder = 1 .. Len(reversedOrder) /\ Len(reversedOrder) \in Nat
      BY DEF OrderInv, TypesOfWalk
    <3>4. t \in Elements(reversedOrder)
      BY <3>2, <3>3 DEF Elements
    <3> QED BY <3>4
  <2> QED BY <2>1, <2>3
<1>2. ts \in SUBSET Enclosing(program)
  OBVIOUS
<1> HIDE DEF ts
<1>3. ts = {}
  BY <1>1, <1>2 DEF IsNested
<1> QED BY <1>3 DEF ts

\* so the types of a scope that is sorted are
LEMMA SortedAreNumbered ==
    ASSUME OrderInv, ScopesInv, phase = "reorder", NEW t \in Types,
           program.stage[t] # "COMPLETED", ~InOrder(t)
    PROVE  ~Unnumbered(t)
<1>1. program.stage[t] = "POST_PARSE" /\ program.defs[t] \in Seq(Types)
  BY DEF OrderInv, TypesOfWalk, ProgramType
<1>2. mTypes[t] \in Seq(Types) /\ Len(mTypes[t]) >= 2
  BY DEF ScopesInv, InOrder
<1>3. mTypes[t][1] \in Elements(mTypes[t])
  BY <1>2 DEF Elements
<1>4. Elements(mTypes[t]) = Elements(program.defs[t])
  BY DEF ScopesInv
<1>5. program.defs[t] # <<>>
  <2>1. \A s : s = <<>> => Elements(s) = {}
    BY DEF Elements
  <2> QED BY <1>3, <1>4, <2>1
<1>6. t \in Elements(reversedOrder)
  BY <1>1, <1>5, ScopesAreNumbered DEF Enclosing, OrderInv, OrderIsComplete, ScopesInv
<1>7. PICK j \in DOMAIN reversedOrder : reversedOrder[j] = t
  BY <1>6 DEF Elements
<1>8. DOMAIN reversedOrder = 1 .. Len(reversedOrder) /\ Len(reversedOrder) \in Nat
  BY DEF OrderInv, TypesOfWalk
<1>9. ASSUME NEW u \in Elements(program.defs[t]) PROVE u \in Elements(reversedOrder)
  <2>1. \E i \in 1 .. j - 1 : reversedOrder[i] = u
    BY <1>7, <1>9 DEF OrderInv, OrderIsLinear, Required
  <2> QED BY <1>8, <2>1 DEF Elements
<1> QED BY <1>4, <1>9 DEF Unnumbered

\* What Type::recursivePass goes on with are types.
LEMMA FollowTypes ==
    ASSUME program \in ProgramType, mTypes' \in [Types -> Seq(Types)],
           pending \in Seq(Types), pending # <<>>, visited \subseteq Types, Follow(Head(pending))
    PROVE  pending' \in Seq(Types) /\ visited' \subseteq Types
<1> DEFINE t == Head(pending)
<1>1. t \in Types /\ Tail(pending) \in Seq(Types)
  OBVIOUS
<1>2. mTypes'[t] \in Seq(Types) /\ Targets(program.refs[t]) \in Seq(Types)
  BY <1>1, SuccessorsType
<1>3. visited' = visited \cup {t} /\ pending' = mTypes'[t] \o Targets(program.refs[t]) \o Tail(pending)
  BY DEF Follow
<1> HIDE DEF t
<1>4. \A p, q \in Seq(Types) : p \o q \in Seq(Types)
  OBVIOUS
<1> DEFINE a == mTypes'[t]
           b == Targets(program.refs[t])
           c == Tail(pending)
<1>5. a \in Seq(Types) /\ b \in Seq(Types) /\ c \in Seq(Types)
  BY <1>1, <1>2
<1>6. pending' = a \o b \o c
  BY <1>3
<1> HIDE DEF a, b, c
<1>7. a \o b \in Seq(Types)
  BY <1>4, <1>5
<1>8. (a \o b) \o c \in Seq(Types)
  BY <1>4, <1>5, <1>7
<1> QED BY <1>1, <1>3, <1>6, <1>8

\* Scope::topologicalReorder finds each type of the scope numbered and keeps them all.
LEMMA SortScopes ==
    ASSUME OrderInv, ScopesInv, Sort
    PROVE  ScopesInv'
<1> DEFINE t == Head(pending)
<1>1. /\ phase = "reorder" /\ pending # <<>> /\ ~PassedOver(t) /\ ~InOrder(t)
      /\ phase' = IF Unnumbered(t) THEN "threw" ELSE phase
      /\ mTypes' = [mTypes EXCEPT ![t] = SortedTypes(t)]
      /\ typeIndex' = [typeIndex EXCEPT ![t] = Indexed(SortedTypes(t))]
      /\ orderChanged' = orderChanged \cup {t}
      /\ program' = program /\ stack' = stack /\ cycleEnd' = cycleEnd
      /\ Follow(t)
  BY DEF Sort, walk
<1>2. /\ mTypes \in [Types -> Seq(Types)] /\ pending \in Seq(Types) /\ visited \subseteq Types
      /\ typeIndex = [u \in Types |-> Indexed(mTypes[u])]
      /\ \A u \in Types : Elements(mTypes[u]) = Elements(program.defs[u])
      /\ program \in ProgramType /\ reversedOrder \in Seq(Types)
  BY DEF ScopesInv, OrderInv, TypesOfWalk
<1>3. t \in Types
  BY <1>1, <1>2
<1>4. ~Unnumbered(t)
  BY <1>1, <1>3, SortedAreNumbered DEF PassedOver
<1>5. SortedTypes(t) \in Seq(Types) /\ Elements(SortedTypes(t)) = Elements(mTypes[t])
  <2> DEFINE E == Elements(mTypes[t])
  <2>1. SortedTypes(t) = Among(reversedOrder, E)
    BY DEF SortedTypes
  <2>2. E \subseteq Elements(reversedOrder)
    BY <1>4 DEF Unnumbered
  <2> HIDE DEF E
  <2>3. /\ Among(reversedOrder, E) \in Seq(Types)
        /\ Elements(Among(reversedOrder, E)) = E \cap Elements(reversedOrder)
    BY <1>2, AmongFacts
  <2>4. SortedTypes(t) \in Seq(Types) /\ Elements(SortedTypes(t)) = E
    BY <2>1, <2>2, <2>3
  <2> QED BY <2>4 DEF E
<1>6. mTypes' \in [Types -> Seq(Types)]
  BY <1>1, <1>2, <1>5
<1>7. \A u \in Types : mTypes'[u] = IF u = t THEN SortedTypes(t) ELSE mTypes[u]
  BY <1>1, <1>2, <1>3
<1>8. typeIndex' = [u \in Types |-> Indexed(mTypes'[u])]
  BY <1>1, <1>2, <1>3, <1>7
<1>9. \A u \in Types : Elements(mTypes'[u]) = Elements(program'.defs[u])
  BY <1>1, <1>2, <1>5, <1>7
<1>10. pending' \in Seq(Types) /\ visited' \subseteq Types
  BY <1>1, <1>2, <1>6, FollowTypes
<1>11. /\ IsNested(program') /\ phase' \in Phases \ {"threw"}
       /\ stack' \subseteq Types /\ cycleEnd' \in Types \cup {NoType}
       /\ orderChanged' \subseteq Types
  BY <1>1, <1>3, <1>4 DEF ScopesInv, Phases
<1> HIDE DEF t
<1> QED BY <1>6, <1>8, <1>9, <1>10, <1>11 DEF ScopesInv

\* The steps that leave the scopes alone.
LEMMA OtherScopes ==
    ASSUME ScopesInv, program' = program, UNCHANGED scopes,
           phase' \in Phases \ {"threw"},
           stack' \subseteq Types, cycleEnd' \in Types \cup {NoType},
           pending' \in Seq(Types), visited' \subseteq Types
    PROVE  ScopesInv'
<1>1. mTypes' = mTypes /\ typeIndex' = typeIndex /\ orderChanged' = orderChanged
  BY DEF scopes
<1> QED BY <1>1 DEF ScopesInv

\* Every step of the passes leaves the scopes sound.
LEMMA StepScopes == OrderInv /\ ScopesInv /\ [Next]_vars => ScopesInv'
<1> SUFFICES ASSUME OrderInv, ScopesInv, [Next]_vars PROVE ScopesInv'
  OBVIOUS
<1>1. /\ TypesOfWalk /\ program \in ProgramType
      /\ phase \in Phases \ {"threw"}
      /\ stack \subseteq Types /\ cycleEnd \in Types \cup {NoType}
      /\ mTypes \in [Types -> Seq(Types)]
      /\ pending \in Seq(Types) /\ visited \subseteq Types
  BY DEF OrderInv, TypesOfWalk, ScopesInv
<1>2. CASE Skip
  BY <1>1, <1>2, OtherScopes DEF Skip, pass
<1>3. CASE Descend
  <2>1. NextSuccessor \in Types
    BY <1>1, <1>3, AtSuccessorFacts DEF Descend
  <2> QED BY <1>1, <1>3, <2>1, OtherScopes DEF Descend, pass
<1>4. CASE FindCycle
  <2>1. NextSuccessor \in Types
    BY <1>1, <1>4, AtSuccessorFacts DEF FindCycle
  <2> QED BY <1>1, <1>4, <2>1, OtherScopes DEF FindCycle, pass, Phases
<1>5. CASE Complete
  BY <1>1, <1>5, OtherScopes DEF Complete, pass
<1>6. CASE Unwind
  BY <1>1, <1>6, OtherScopes DEF Unwind, pass
<1>7. CASE Reject
  BY <1>1, <1>7, OtherScopes DEF Reject, walk, pass, Phases
<1>8. CASE StartReorder
  <2>1. <<RootScope>> \in Seq(Types)
    BY RootAssumption
  <2> QED BY <1>1, <1>8, <2>1, OtherScopes DEF StartReorder, walk, Phases
<1>9. CASE StartRestrict
  <2>1. <<RootScope>> \in Seq(Types)
    BY RootAssumption
  <2> QED BY <1>1, <1>9, <2>1, OtherScopes DEF StartRestrict, walk, Phases
<1>10. CASE PassOver
  <2>1. Tail(pending) \in Seq(Types)
    BY <1>1, <1>10 DEF PassOver
  <2> QED BY <1>1, <1>10, <2>1, OtherScopes DEF PassOver, walk
<1>11. CASE KeepOrder
  <2>1. pending' \in Seq(Types) /\ visited' \subseteq Types
    BY <1>1, <1>11, FollowTypes DEF KeepOrder, scopes
  <2> QED BY <1>1, <1>11, <2>1, OtherScopes DEF KeepOrder, walk
<1>12. CASE Sort
  BY <1>12, SortScopes
<1>13. CASE CheckForward
  <2>1. pending' \in Seq(Types) /\ visited' \subseteq Types
    BY <1>1, <1>13, FollowTypes DEF CheckForward, scopes
  <2> QED BY <1>1, <1>13, <2>1, OtherScopes DEF CheckForward, walk, Phases
<1>14. CASE Accept
  BY <1>1, <1>14, OtherScopes DEF Accept, walk, pass, Phases
<1>15. CASE UNCHANGED vars
  BY <1>1, <1>15, OtherScopes DEF vars, walk, pass
<1> QED BY <1>2, <1>3, <1>4, <1>5, <1>6, <1>7, <1>8, <1>9, <1>10, <1>11, <1>12, <1>13, <1>14, <1>15
     DEF Next

\* The scopes are sound as the parser leaves them.
LEMMA InitScopes == Init => ScopesInv
<1> SUFFICES ASSUME Init PROVE ScopesInv
  OBVIOUS
<1>1. program \in ProgramType /\ IsNested(program)
  BY ProgramsAssumption DEF Init
<1>2. mTypes = program.defs /\ program.defs \in [Types -> Seq(Types)]
  BY <1>1 DEF Init, ProgramType
<1> QED BY <1>1, <1>2, RootAssumption DEF Init, ScopesInv, Phases

\* Every variable has its type, the sort of a scope finds a number for each of its types, and
\* a scope finds each type under its name in whatever order they are (Scope::topologicalReorder).
THEOREM ScopesAreKnownHolds == Spec => []ScopesAreKnown
<1>1. OrderInv /\ ReportInv /\ ScopesInv => ScopesAreKnown
  <2> SUFFICES ASSUME OrderInv, ReportInv, ScopesInv PROVE ScopesAreKnown
    OBVIOUS
  <2>1. TypeOK
    BY DEF OrderInv, TypesOfWalk, FrameType, ReportInv, Chain, ScopesInv, TypeOK
  <2>2. KeysAreKnown
    BY DEF ScopesInv, KeysAreKnown
  <2>3. LookupFindsItself
    <3> SUFFICES ASSUME NEW t \in Types, NEW u \in Elements(mTypes[t])
                 PROVE  u \in DOMAIN typeIndex[t] /\ mTypes[t][typeIndex[t][u]] = u
      BY DEF LookupFindsItself
    <3>1. typeIndex[t] = Indexed(mTypes[t])
      BY DEF ScopesInv
    <3>2. \E i \in DOMAIN mTypes[t] : mTypes[t][i] = u
      BY DEF Elements
    <3> QED BY <3>1, <3>2 DEF Indexed
  <2> QED BY <2>1, <2>2, <2>3 DEF ScopesAreKnown
<1>2. Init => OrderInv /\ ReportInv /\ ScopesInv
  BY InitOrder, InitReport, InitScopes
<1>3. (OrderInv /\ ReportInv /\ ScopesInv) /\ [Next]_vars => (OrderInv /\ ReportInv /\ ScopesInv)'
  BY StepOrder, StepReport, StepScopes
<1> QED BY <1>1, <1>2, <1>3, PTL DEF Spec
=============================================================================
