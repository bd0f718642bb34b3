---------------------- MODULE ConstantExpressionProofs ----------------------
(***************************************************************************)
(* What is proved of constant expressions, for all widths that meet        *)
(* WidthAssumption and all programs that meet ProgramsAssumption.          *)
(*                                                                         *)
(* After the rules of kinds come three invariants, each of which the next  *)
(* one needs: AcyclicInv (the walk of checkAcyclic), GraphInv (the graph   *)
(* of expressions that all passes work on) and OrderInv (what each pass    *)
(* leaves to the next one).  Two more rest on them: NamesInv (what a plain *)
(* name means) and, after the arithmetic that it needs, ValueInv (what     *)
(* expressions are evaluated to).                                          *)
(***************************************************************************)
EXTENDS ConstantExpressionProperties, FiniteSetTheorems, TLAPS

(* The kind to which the operands of an operator are converted is the one  *)
(* of the documented rules; so "should not reach here"                     *)
(* (ConstantExpression.cpp:90) is right, because the fourth rule, the      *)
(* unsigned counterpart, never applies.                                    *)
THEOREM ConversionIsDocumented ==
    ASSUME NEW k \in Kinds, NEW l \in Kinds
    PROVE  usualArithmeticConversion(k, l) = Common(k, l)
  BY WidthAssumption, SMTT(60)
     DEF usualArithmeticConversion, Common, Greater, Rank, Kinds, SignedKinds, DocumentedRank

(* Promotion is the documented one as well.                                *)
THEOREM PromotionIsDocumented ==
    ASSUME NEW k \in Kinds
    PROVE  integralPromotion(k) = PromotedTo(k)
  BY WidthAssumption, SMTT(60)
     DEF integralPromotion, PromotedTo, Rank, Kinds, SignedKinds, DocumentedRank
-----------------------------------------------------------------------------
(* checkAcyclic.                                                           *)

FrameType == [expr : Expressions, next : Nat \ {0}]
Deps(e) == ToSet(Dependencies(e))

\* what has been visited and left: everything in it is known to be acyclic
Finished == visited \ stack

\* the activation f waits for a call for e
Awaits(f, e) ==
    f.next \in DOMAIN Dependencies(f.expr) /\ Dependencies(f.expr)[f.next] = e

(* The activations: a path of calls, of different expressions, which are   *)
(* those on the stack; each has its earlier dependencies done.             *)
Path == \A i \in 1 .. Len(frames) - 1 : Awaits(frames[i], frames[i + 1].expr)
Distinct == \A i, j \in DOMAIN frames : frames[i].expr = frames[j].expr => i = j
StackIsFrames == stack = {frames[i].expr : i \in DOMAIN frames}
DoneUpTo(e, n) == \A k \in DOMAIN Dependencies(e) : k < n => Dependencies(e)[k] \in Finished
Passed == \A i \in DOMAIN frames : DoneUpTo(frames[i].expr, frames[i].next)

\* what is done depends on nothing else, and not on itself
Settled == \A e \in Finished : Deps(e) \subseteq Finished
NoCircle == ~HasCircle(Finished)

WalkInv ==
    phase = "checkAcyclic" => Path /\ Distinct /\ StackIsFrames /\ Passed /\ Settled /\ NoCircle
StackIsEmpty == phase \in ToSet(Phases) \ {"checkAcyclic"} => stack = {}
Verdict == phase \in {"cyclic", "cycle end"} => HasCircle(visited)

AcyclicInv == WalkInv /\ StackIsEmpty /\ Verdict

-----------------------------------------------------------------------------
\* a circle is a set in which everything depends on something in it
LEMMA CircleIsClosed ==
    ASSUME NEW es
    PROVE  HasCircle(es) <=>
             \E circle \in SUBSET es :
                 circle # {} /\ \A e \in circle : \E d \in circle : d \in Deps(e)
<1>1. ASSUME NEW circle \in SUBSET es, circle # {},
             \A e \in circle : \E d \in circle : d \in Deps(e)
      PROVE  circle \in SUBSET {e \in es : Dependencies(e) # <<>>}
  <2> SUFFICES ASSUME NEW e \in circle
               PROVE  Dependencies(e) # <<>>
    OBVIOUS
  <2>1. PICK d : d \in Deps(e)
    BY <1>1
  <2> QED BY <2>1 DEF Deps, ToSet
<1>2. ASSUME NEW circle \in SUBSET {e \in es : Dependencies(e) # <<>>}
      PROVE  circle \in SUBSET es
  OBVIOUS
<1> QED BY <1>1, <1>2 DEF HasCircle, Deps

LEMMA DependenciesType ==
    ASSUME GraphOK, NEW e \in Expressions
    PROVE  /\ Len(Dependencies(e)) \in Nat
           /\ DOMAIN Dependencies(e) = 1 .. Len(Dependencies(e))
<1> DEFINE S == Expressions \cup {constExpr(exprs[e].ref)}
<1>1. exprs[e].args \in Seq(Expressions)
  BY DEF GraphOK
<1>2. exprs[e].args \in Seq(S)
  BY <1>1
<1>3. <<constExpr(exprs[e].ref)>> \in Seq(S) /\ <<>> \in Seq(S)
  OBVIOUS
<1> HIDE DEF S
<1>4. \A s, t \in Seq(S) : s \o t \in Seq(S)
  OBVIOUS
<1>5. Dependencies(e) \in Seq(S)
  BY <1>2, <1>3, <1>4 DEF Dependencies
<1> QED BY <1>5

LEMMA FrameFacts ==
    ASSUME GraphOK
    PROVE  /\ frames \in Seq(FrameType)
           /\ Len(frames) \in Nat
           /\ DOMAIN frames = 1 .. Len(frames)
           /\ \A i \in DOMAIN frames : frames[i].expr \in Expressions /\ frames[i].next \in Nat \ {0}
           /\ frames # <<>> => Len(frames) \in DOMAIN frames
<1>1. frames \in Seq(FrameType)
  BY DEF GraphOK, FrameType
<1>2. \A x \in FrameType : x.expr \in Expressions /\ x.next \in Nat \ {0}
  BY DEF FrameType
<1>3. Len(frames) \in Nat /\ DOMAIN frames = 1 .. Len(frames)
  BY <1>1
<1>4. \A i \in DOMAIN frames : frames[i] \in FrameType
  BY <1>1
<1>5. frames # <<>> => Len(frames) \in DOMAIN frames
  BY <1>1
<1> QED BY <1>1, <1>2, <1>3, <1>4, <1>5

\* where the next call comes from
LEMMA CallFacts ==
    ASSUME GraphOK, AtRoot \/ AtDependency, frames # <<>>
    PROVE  Awaits(frames[Len(frames)], Called)
<1>1. Len(frames) \in DOMAIN frames
  BY FrameFacts
<1>2. Top.expr \in Expressions /\ Top.next \in Nat \ {0}
  BY <1>1, FrameFacts DEF Top, Last
<1>3. Top.next <= Len(Dependencies(Top.expr))
  BY DEF Calls, AtRoot, AtDependency
<1>4. Top.next \in DOMAIN Dependencies(Top.expr)
  BY <1>2, <1>3, DependenciesType
<1>5. Called = Dependencies(Top.expr)[Top.next]
  BY DEF Called
<1> QED BY <1>4, <1>5 DEF Awaits, Top, Last

\* no pass over the graph changes it
LEMMA SameDependencies ==
    ASSUME exprs' = exprs, values' = values
    PROVE  /\ \A e : Dependencies(e)' = Dependencies(e)
           /\ \A e : Deps(e)' = Deps(e)
           /\ \A es : HasCircle(es)' = HasCircle(es)
<1>1. \A e : Dependencies(e)' = Dependencies(e)
  BY DEF Dependencies, constExpr
<1> QED BY <1>1 DEF Deps, HasCircle

\* the activations after a return
LEMMA ReturnFacts ==
    ASSUME NEW callers \in Seq(FrameType), ReturnTo(callers)
    PROVE  /\ frames' \in Seq(FrameType)
           /\ Len(frames') = Len(callers)
           /\ DOMAIN frames' = 1 .. Len(callers)
           /\ \A i \in 1 .. Len(callers) :
                /\ frames'[i].expr = callers[i].expr
                /\ frames'[i].next = IF i = Len(callers) THEN callers[i].next + 1 ELSE callers[i].next
<1>1. CASE callers = <<>>
  <2>1. frames' = <<>>
    BY <1>1 DEF ReturnTo
  <2> QED BY <1>1, <2>1
<1>2. CASE callers # <<>>
  <2> DEFINE n == Len(callers)
             f == [callers[n] EXCEPT !.next = callers[n].next + 1]
  <2>1. n \in Nat \ {0} /\ DOMAIN callers = 1 .. n /\ n \in DOMAIN callers
    BY <1>2
  <2>2. frames' = [callers EXCEPT ![n] = f]
    BY <1>2, <2>1 DEF ReturnTo
  <2>3. callers[n] \in FrameType
    BY <2>1
  <2>4. f \in FrameType /\ f.expr = callers[n].expr /\ f.next = callers[n].next + 1
    BY <2>3 DEF FrameType
  <2> HIDE DEF f, n
  <2>5. frames' \in Seq(FrameType) /\ Len(frames') = Len(callers) /\ DOMAIN frames' = 1 .. n
    BY <2>1, <2>2, <2>4 DEF n
  <2>6. \A i \in 1 .. n : frames'[i] = IF i = n THEN f ELSE callers[i]
    BY <2>1, <2>2
  <2> QED BY <2>4, <2>5, <2>6 DEF n
<1> QED BY <1>1, <1>2

LEMMA PhaseNames ==
    /\ Len(Phases) = 6 /\ DOMAIN Phases = 1 .. 6
    /\ ToSet(Phases) = {"resolveInheritance", "lookup", "checkAcyclic", "validate", "evaluate",
                        "complete"}
    /\ \A n \in DOMAIN Phases : Phases[n] \in ToSet(Phases)
<1>1. /\ Phases[1] = "resolveInheritance" /\ Phases[2] = "lookup" /\ Phases[3] = "checkAcyclic"
      /\ Phases[4] = "validate" /\ Phases[5] = "evaluate" /\ Phases[6] = "complete"
      /\ Len(Phases) = 6 /\ DOMAIN Phases = 1 .. 6
  BY DEF Phases
<1>2. ToSet(Phases) = {Phases[n] : n \in 1 .. 6}
  BY <1>1 DEF ToSet
<1>3. \A n \in 1 .. 6 : n = 1 \/ n = 2 \/ n = 3 \/ n = 4 \/ n = 5 \/ n = 6
  OBVIOUS
<1>4. 1 \in 1 .. 6 /\ 2 \in 1 .. 6 /\ 3 \in 1 .. 6 /\ 4 \in 1 .. 6 /\ 5 \in 1 .. 6 /\ 6 \in 1 .. 6
  OBVIOUS
<1>5. ToSet(Phases) = {Phases[1], Phases[2], Phases[3], Phases[4], Phases[5], Phases[6]}
  BY <1>2, <1>3, <1>4
<1> QED BY <1>1, <1>2, <1>5

-----------------------------------------------------------------------------
(* The steps of checkAcyclic.                                              *)

LEMMA VisitInv ==
    ASSUME GraphOK, GraphOK', AcyclicInv, CheckAcyclic
    PROVE  AcyclicInv'
<1> DEFINE n == Len(frames)
           u == Called
<1>1. /\ phase = "checkAcyclic" /\ phase' = phase /\ exprs' = exprs /\ values' = values
      /\ u \notin stack /\ u \notin visited
      /\ stack' = stack \cup {u} /\ visited' = visited \cup {u}
      /\ frames' = Append(frames, [expr |-> u, next |-> 1])
  BY DEF CheckAcyclic, Calls, Enter, program
<1>2. Path /\ Distinct /\ StackIsFrames /\ Passed /\ Settled /\ NoCircle
  BY <1>1 DEF AcyclicInv, WalkInv
<1>3. frames \in Seq(FrameType) /\ n \in Nat /\ DOMAIN frames = 1 .. n
  BY FrameFacts
<1>4. frames # <<>> => Awaits(frames[n], u)
  BY CallFacts DEF CheckAcyclic, Calls
<1>5. \A e : Dependencies(e)' = Dependencies(e)
  BY <1>1, SameDependencies
<1>6. (\A e : Deps(e)' = Deps(e)) /\ (\A es : HasCircle(es)' = HasCircle(es))
  BY <1>1, SameDependencies
<1>7. Finished' = Finished
  BY <1>1 DEF Finished
<1> DEFINE f == [expr |-> u, next |-> 1]
<1>8. f.expr = u /\ f.next = 1
  OBVIOUS
<1> HIDE DEF u, n, f
<1>9. frames' = Append(frames, f)
  BY <1>1 DEF f
<1>10. Len(frames') = n + 1 /\ DOMAIN frames' = 1 .. (n + 1)
  BY <1>3, <1>9 DEF n
<1>11. (\A i \in 1 .. n : frames'[i] = frames[i]) /\ frames'[n + 1] = f
  BY <1>3, <1>9 DEF n
<1>12. \A i \in 1 .. n : frames[i].expr # u
  BY <1>1, <1>2, <1>3 DEF StackIsFrames
<1>13. \A i \in 1 .. (n + 1) : i \in 1 .. n \/ i = n + 1
  BY <1>3
<1>14. Path'
  <2> SUFFICES ASSUME NEW i \in 1 .. n
               PROVE  Awaits(frames[i], frames[i + 1].expr)'
    BY <1>3, <1>10 DEF Path
  <2>1. CASE i = n
    <3>1. frames # <<>>
      BY <1>3, <2>1 DEF n
    <3>2. frames'[i] = frames[n] /\ frames'[i + 1].expr = u
      BY <1>8, <1>11, <2>1
    <3> QED BY <1>4, <1>5, <3>1, <3>2 DEF Awaits
  <2>2. CASE i # n
    <3>1. i \in 1 .. n - 1 /\ i + 1 \in 1 .. n
      BY <1>3, <2>2
    <3>2. Awaits(frames[i], frames[i + 1].expr)
      BY <1>2, <3>1 DEF Path, n
    <3>3. frames'[i] = frames[i] /\ frames'[i + 1] = frames[i + 1]
      BY <1>11, <3>1
    <3> QED BY <1>5, <3>2, <3>3 DEF Awaits
  <2> QED BY <2>1, <2>2
<1>15. Distinct'
  <2> SUFFICES ASSUME NEW i \in 1 .. (n + 1), NEW j \in 1 .. (n + 1),
                      frames'[i].expr = frames'[j].expr
               PROVE  i = j
    BY <1>10 DEF Distinct
  <2>1. CASE i \in 1 .. n /\ j \in 1 .. n
    BY <1>2, <1>3, <1>11, <2>1 DEF Distinct
  <2>2. CASE i = n + 1 /\ j \in 1 .. n
    BY <1>8, <1>11, <1>12, <2>2
  <2>3. CASE i \in 1 .. n /\ j = n + 1
    BY <1>8, <1>11, <1>12, <2>3
  <2> QED BY <1>13, <2>1, <2>2, <2>3
<1>16. StackIsFrames'
  <2>1. stack' \subseteq {frames'[i].expr : i \in 1 .. (n + 1)}
    <3>1. n + 1 \in 1 .. (n + 1) /\ \A i \in 1 .. n : i \in 1 .. (n + 1)
      BY <1>3
    <3>2. ASSUME NEW e \in stack
          PROVE  \E i \in 1 .. (n + 1) : e = frames'[i].expr
      BY <1>2, <1>3, <1>11, <3>1 DEF StackIsFrames
    <3>3. u = frames'[n + 1].expr
      BY <1>8, <1>11
    <3> QED BY <1>1, <3>1, <3>2, <3>3 DEF u
  <2>2. ASSUME NEW i \in 1 .. (n + 1)
        PROVE  frames'[i].expr \in stack'
    BY <1>1, <1>2, <1>3, <1>8, <1>11, <1>13 DEF StackIsFrames, u
  <2> QED BY <1>10, <2>1, <2>2 DEF StackIsFrames
<1>17. Passed'
  <2> SUFFICES ASSUME NEW i \in 1 .. (n + 1)
               PROVE  DoneUpTo(frames[i].expr, frames[i].next)'
    BY <1>10 DEF Passed
  <2>1. CASE i \in 1 .. n
    <3>1. DoneUpTo(frames[i].expr, frames[i].next) /\ frames'[i] = frames[i]
      BY <1>2, <1>3, <1>11, <2>1 DEF Passed
    <3> QED BY <1>5, <1>7, <3>1 DEF DoneUpTo
  <2>2. CASE i = n + 1
    <3>1. u \in Expressions'
      <4>1. u \in visited'
        BY <1>1 DEF u
      <4> QED BY <4>1 DEF GraphOK
    <3>2. DOMAIN Dependencies(u) = 1 .. Len(Dependencies(u)) /\ Len(Dependencies(u)) \in Nat
      BY <1>1, <3>1, DependenciesType DEF Expressions
    <3>3. \A k \in DOMAIN Dependencies(u) : ~(k < 1)
      BY <3>2
    <3>4. frames'[i].expr = u /\ frames'[i].next = 1
      BY <1>8, <1>11, <2>2
    <3> QED BY <1>5, <3>3, <3>4 DEF DoneUpTo
  <2> QED BY <1>13, <2>1, <2>2
<1>18. Settled' /\ NoCircle'
  BY <1>2, <1>6, <1>7 DEF Settled, NoCircle
<1>19. StackIsEmpty' /\ Verdict'
  BY <1>1 DEF StackIsEmpty, Verdict
<1> QED BY <1>14, <1>15, <1>16, <1>17, <1>18, <1>19 DEF AcyclicInv, WalkInv

\* what a return to the outermost m activations keeps
LEMMA ReturnKeeps ==
    ASSUME GraphOK, Path, Distinct, Passed, exprs' = exprs, values' = values,
           Finished \subseteq Finished',
           NEW m \in 0 .. Len(frames),
           Len(frames') = m, DOMAIN frames' = 1 .. m,
           \A i \in 1 .. m :
                /\ frames'[i].expr = frames[i].expr
                /\ frames'[i].next = IF i = m THEN frames[i].next + 1 ELSE frames[i].next,
           NEW d \in Finished', m > 0 => Awaits(frames[m], d)
    PROVE  Path' /\ Distinct' /\ Passed'
<1>1. /\ Len(frames) \in Nat /\ DOMAIN frames = 1 .. Len(frames)
      /\ \A i \in DOMAIN frames : frames[i].expr \in Expressions /\ frames[i].next \in Nat \ {0}
  BY FrameFacts
<1>2. m \in Nat /\ \A i \in 1 .. m : i \in DOMAIN frames
  BY <1>1
<1>3. \A e : Dependencies(e)' = Dependencies(e)
  BY SameDependencies
<1>4. Path'
  <2> SUFFICES ASSUME NEW i \in 1 .. m - 1
               PROVE  Awaits(frames[i], frames[i + 1].expr)'
    BY DEF Path
  <2>1. i \in 1 .. Len(frames) - 1 /\ i \in 1 .. m /\ i + 1 \in 1 .. m /\ i # m
    BY <1>1, <1>2
  <2>2. Awaits(frames[i], frames[i + 1].expr)
    BY <2>1 DEF Path
  <2>3. /\ frames'[i].expr = frames[i].expr /\ frames'[i].next = frames[i].next
        /\ frames'[i + 1].expr = frames[i + 1].expr
    BY <2>1
  <2> QED BY <1>3, <2>2, <2>3 DEF Awaits
<1>5. Distinct'
  BY <1>2 DEF Distinct
<1>6. Passed'
  <2> SUFFICES ASSUME NEW i \in 1 .. m, NEW k \in DOMAIN Dependencies(frames[i].expr),
                      k < frames'[i].next
               PROVE  Dependencies(frames[i].expr)[k] \in Finished'
    BY <1>3 DEF Passed, DoneUpTo
  <2>1. k < frames[i].next => Dependencies(frames[i].expr)[k] \in Finished'
    BY <1>2 DEF Passed, DoneUpTo
  <2>2. CASE i = m /\ k = frames[i].next
    <3>1. m > 0
      BY <1>2
    <3> QED BY <2>2, <3>1 DEF Awaits
  <2>3. CASE ~(i = m /\ k = frames[i].next)
    <3>1. frames[i].expr \in Expressions /\ frames[i].next \in Nat
      BY <1>1, <1>2
    <3>2. k \in Nat
      BY <3>1, DependenciesType
    <3>3. k < frames[i].next
      BY <2>3, <3>1, <3>2
    <3> QED BY <2>1, <3>3
  <2> QED BY <2>2, <2>3
<1> QED BY <1>4, <1>5, <1>6

LEMMA VisitedInv ==
    ASSUME GraphOK, AcyclicInv, CheckedBefore
    PROVE  AcyclicInv'
<1>1. /\ phase = "checkAcyclic" /\ phase' = phase /\ exprs' = exprs /\ values' = values
      /\ Called \notin stack /\ Called \in visited
      /\ stack' = stack /\ visited' = visited /\ ReturnTo(frames)
  BY DEF CheckedBefore, Calls, program
<1>2. Path /\ Distinct /\ StackIsFrames /\ Passed /\ Settled /\ NoCircle
  BY <1>1 DEF AcyclicInv, WalkInv
<1>3. frames \in Seq(FrameType) /\ Len(frames) \in Nat /\ DOMAIN frames = 1 .. Len(frames)
  BY FrameFacts
<1>4. frames # <<>> => Awaits(frames[Len(frames)], Called)
  BY CallFacts DEF CheckedBefore, Calls
<1>5. (\A e : Deps(e)' = Deps(e)) /\ (\A es : HasCircle(es)' = HasCircle(es))
  BY <1>1, SameDependencies
<1>6. Finished' = Finished /\ Called \in Finished
  BY <1>1 DEF Finished
<1>7. /\ Len(frames') = Len(frames) /\ DOMAIN frames' = 1 .. Len(frames)
      /\ \A i \in 1 .. Len(frames) :
           /\ frames'[i].expr = frames[i].expr
           /\ frames'[i].next = IF i = Len(frames) THEN frames[i].next + 1 ELSE frames[i].next
  BY <1>1, <1>3, ReturnFacts
<1>8. Path' /\ Distinct' /\ Passed'
  <2>1. Len(frames) > 0 => Awaits(frames[Len(frames)], Called)
    BY <1>4
  <2>2. Len(frames) \in 0 .. Len(frames)
    BY <1>3
  <2> QED BY <1>1, <1>2, <1>6, <1>7, <2>1, <2>2, ReturnKeeps
<1>9. StackIsFrames'
  BY <1>1, <1>2, <1>3, <1>7 DEF StackIsFrames
<1>10. Settled' /\ NoCircle'
  BY <1>2, <1>5, <1>6 DEF Settled, NoCircle
<1>11. StackIsEmpty' /\ Verdict'
  BY <1>1 DEF StackIsEmpty, Verdict
<1> QED BY <1>8, <1>9, <1>10, <1>11 DEF AcyclicInv, WalkInv

\* an expression all of whose dependencies are done closes no circle
LEMMA NoNewCircle ==
    ASSUME Settled, NoCircle, NEW e, e \notin Finished, Deps(e) \subseteq Finished
    PROVE  ~HasCircle(Finished \cup {e})
<1> SUFFICES ASSUME NEW circle \in SUBSET (Finished \cup {e}), circle # {},
                    \A c \in circle : \E d \in circle : d \in Deps(c)
             PROVE  FALSE
  BY CircleIsClosed
<1> DEFINE rest == circle \ {e}
<1>1. rest \in SUBSET Finished
  OBVIOUS
<1>2. rest # {}
  <2>1. PICK c \in circle : TRUE
    OBVIOUS
  <2>2. CASE c = e
    <3>1. PICK d \in circle : d \in Deps(e)
      BY <2>1, <2>2
    <3> QED BY <3>1
  <2> QED BY <2>1, <2>2
<1>3. ASSUME NEW c \in rest
      PROVE  \E d \in rest : d \in Deps(c)
  <2>1. PICK d \in circle : d \in Deps(c)
    OBVIOUS
  <2>2. d \in Finished
    BY <1>1, <2>1 DEF Settled
  <2> QED BY <2>1, <2>2
<1>4. HasCircle(Finished)
  <2> HIDE DEF rest
  <2> QED BY <1>1, <1>2, <1>3, CircleIsClosed
<1> QED BY <1>4 DEF NoCircle

LEMMA LeaveInv ==
    ASSUME GraphOK, AcyclicInv, LeaveAcyclic
    PROVE  AcyclicInv'
<1> DEFINE n == Len(frames)
           e == Top.expr
<1>1. /\ phase = "checkAcyclic" /\ phase' = phase /\ exprs' = exprs /\ values' = values
      /\ frames # <<>> /\ Top.next > Len(Dependencies(e))
      /\ stack' = stack \ {e} /\ visited' = visited /\ ReturnTo(Front(frames))
  BY DEF LeaveAcyclic, Leaves, program
<1>2. Path /\ Distinct /\ StackIsFrames /\ Passed /\ Settled /\ NoCircle
  BY <1>1 DEF AcyclicInv, WalkInv
<1>3. /\ frames \in Seq(FrameType) /\ n \in Nat \ {0} /\ DOMAIN frames = 1 .. n /\ n \in DOMAIN frames
      /\ \A i \in DOMAIN frames : frames[i].expr \in Expressions /\ frames[i].next \in Nat \ {0}
  BY <1>1, FrameFacts
<1>4. (\A x : Deps(x)' = Deps(x)) /\ (\A es : HasCircle(es)' = HasCircle(es))
  BY <1>1, SameDependencies
<1>5. e = frames[n].expr /\ Top.next = frames[n].next
  BY DEF Top, Last
<1> HIDE DEF n, e
<1>6. e \in stack /\ e \in visited
  BY <1>2, <1>3, <1>5 DEF StackIsFrames, GraphOK
<1>7. Finished' = Finished \cup {e} /\ e \notin Finished
  BY <1>1, <1>6 DEF Finished
<1>8. Deps(e) \subseteq Finished
  <2> SUFFICES ASSUME NEW k \in DOMAIN Dependencies(e)
               PROVE  Dependencies(e)[k] \in Finished
    BY DEF Deps, ToSet
  <2>1. e \in Expressions /\ frames[n].next \in Nat
    BY <1>3, <1>5
  <2>2. k \in 1 .. Len(Dependencies(e)) /\ Len(Dependencies(e)) \in Nat
    BY <2>1, DependenciesType
  <2>3. k < frames[n].next
    BY <1>1, <1>5, <2>1, <2>2
  <2> QED BY <1>2, <1>3, <1>5, <2>3 DEF Passed, DoneUpTo
<1>9. /\ Front(frames) \in Seq(FrameType) /\ Len(Front(frames)) = n - 1
      /\ \A i \in 1 .. n - 1 : Front(frames)[i] = frames[i]
  <2>1. Front(frames) = SubSeq(frames, 1, n - 1)
    BY DEF Front, n
  <2> QED BY <1>3, <2>1 DEF n
<1>10. /\ Len(frames') = n - 1 /\ DOMAIN frames' = 1 .. n - 1
       /\ \A i \in 1 .. n - 1 :
            /\ frames'[i].expr = frames[i].expr
            /\ frames'[i].next = IF i = n - 1 THEN frames[i].next + 1 ELSE frames[i].next
  BY <1>1, <1>9, ReturnFacts
<1>11. Path' /\ Distinct' /\ Passed'
  <2>1. n - 1 > 0 => Awaits(frames[n - 1], e)
    <3> SUFFICES ASSUME n - 1 > 0
                 PROVE  Awaits(frames[n - 1], e)
      OBVIOUS
    <3>1. n - 1 \in 1 .. n - 1 /\ (n - 1) + 1 = n
      BY <1>3
    <3> QED BY <1>2, <1>5, <3>1 DEF Path, n
  <2>2. n - 1 \in 0 .. Len(frames)
    BY <1>3 DEF n
  <2>3. e \in Finished' /\ Finished \subseteq Finished'
    BY <1>7
  <2> QED BY <1>1, <1>2, <1>10, <2>1, <2>2, <2>3, ReturnKeeps
<1>12. StackIsFrames'
  <2>1. \A i \in 1 .. n : i \in 1 .. n - 1 \/ i = n
    BY <1>3
  <2>2. \A i \in 1 .. n - 1 : i \in 1 .. n /\ i # n
    BY <1>3
  <2>3. \A i \in 1 .. n - 1 : frames[i].expr # e
    BY <1>2, <1>3, <1>5, <2>2 DEF Distinct
  <2>4. stack' = {frames[i].expr : i \in 1 .. n - 1}
    BY <1>1, <1>2, <1>3, <1>5, <2>1, <2>2, <2>3 DEF StackIsFrames
  <2> QED BY <1>10, <2>4 DEF StackIsFrames
<1>13. Settled'
  BY <1>2, <1>4, <1>7, <1>8 DEF Settled
<1>14. NoCircle'
  BY <1>2, <1>4, <1>7, <1>8, NoNewCircle DEF NoCircle
<1>15. StackIsEmpty' /\ Verdict'
  BY <1>1 DEF StackIsEmpty, Verdict
<1> QED BY <1>11, <1>12, <1>13, <1>14, <1>15 DEF AcyclicInv, WalkInv

\* a circle among some expressions is one among more
LEMMA CircleInMore ==
    ASSUME NEW es, NEW fs, es \subseteq fs, HasCircle(es)
    PROVE  HasCircle(fs)
<1>1. PICK circle \in SUBSET es :
          circle # {} /\ \A e \in circle : \E d \in circle : d \in Deps(e)
  BY CircleIsClosed
<1>2. circle \in SUBSET fs
  OBVIOUS
<1> QED BY <1>1, <1>2, CircleIsClosed

\* where the innermost activation depends on the expression of one of them, those from that
\* one on are a circle
LEMMA PathCircle ==
    ASSUME GraphOK, Path, NEW j \in DOMAIN frames,
           frames[j].expr \in Deps(frames[Len(frames)].expr)
    PROVE  HasCircle({frames[i].expr : i \in DOMAIN frames})
<1> DEFINE n == Len(frames)
<1>1. n \in Nat /\ DOMAIN frames = 1 .. n /\ j \in 1 .. n
  BY FrameFacts
<1>2. frames[j].expr \in Deps(frames[n].expr)
  OBVIOUS
<1> HIDE DEF n
<1> DEFINE circle == {frames[i].expr : i \in j .. n}
           all == {frames[i].expr : i \in DOMAIN frames}
<1>3. circle \in SUBSET all
  <2>1. \A i \in j .. n : i \in DOMAIN frames
    BY <1>1
  <2> QED BY <2>1
<1>4. circle # {}
  <2>1. n \in j .. n
    BY <1>1
  <2> QED BY <2>1
<1>5. ASSUME NEW i \in j .. n
      PROVE  \E d \in circle : d \in Deps(frames[i].expr)
  <2>1. CASE i = n
    <3>1. frames[j].expr \in circle
      BY <1>1
    <3> QED BY <1>2, <2>1, <3>1
  <2>2. CASE i # n
    <3>1. i \in 1 .. n - 1 /\ i + 1 \in j .. n
      BY <1>1, <2>2
    <3>2. Awaits(frames[i], frames[i + 1].expr)
      BY <3>1 DEF Path, n
    <3>3. frames[i + 1].expr \in Deps(frames[i].expr)
      BY <3>2 DEF Awaits, Deps, ToSet
    <3> QED BY <3>1, <3>3
  <2> QED BY <2>1, <2>2
<1>6. \A c \in circle : \E d \in circle : d \in Deps(c)
  BY <1>5
<1> HIDE DEF circle, all
<1>7. HasCircle(all)
  BY <1>3, <1>4, <1>6, CircleIsClosed
<1> QED BY <1>7 DEF all

\* the expression found again is that of an activation
LEMMA FoundInv ==
    ASSUME GraphOK, AcyclicInv, FindCycle
    PROVE  AcyclicInv'
<1>1. /\ phase = "checkAcyclic" /\ exprs' = exprs /\ values' = values /\ visited' = visited
      /\ Called \in stack /\ phase' \in {"cyclic", "cycle end"}
  BY DEF FindCycle, Calls, End, program, walk
<1>2. Path /\ StackIsFrames
  BY <1>1 DEF AcyclicInv, WalkInv
<1>3. PICK j \in DOMAIN frames : frames[j].expr = Called
  BY <1>1, <1>2 DEF StackIsFrames
<1>4. frames # <<>>
  BY <1>3, FrameFacts
<1>5. Awaits(frames[Len(frames)], Called)
  BY <1>4, CallFacts DEF FindCycle, Calls
<1>6. Called \in Deps(frames[Len(frames)].expr)
  BY <1>5 DEF Awaits, Deps, ToSet
<1>7. HasCircle(stack)
  <2>1. HasCircle({frames[i].expr : i \in DOMAIN frames})
    BY <1>2, <1>3, <1>6, PathCircle
  <2> QED BY <1>2, <2>1 DEF StackIsFrames
<1>8. HasCircle(visited)
  BY <1>7, CircleInMore DEF GraphOK
<1>9. Verdict'
  BY <1>1, <1>8, SameDependencies DEF Verdict
<1>10. WalkInv' /\ StackIsEmpty'
  BY <1>1, PhaseNames DEF WalkInv, StackIsEmpty
<1> QED BY <1>9, <1>10 DEF AcyclicInv

\* a pass begins with nothing visited
LEMMA NextPhaseInv ==
    ASSUME GraphOK, AcyclicInv, NextPhase
    PROVE  AcyclicInv'
<1>1. frames = <<>> /\ frames' = <<>> /\ visited' = {} /\ stack' = stack
  BY DEF NextPhase
<1>2. PICK n \in DOMAIN Phases : phase = Phases[n] /\ phase' \in {"accepted"} \cup ToSet(Phases)
  <2>1. PICK n \in DOMAIN Phases :
            /\ phase = Phases[n]
            /\ \/ n < Len(Phases) /\ phase' = Phases[n + 1]
               \/ phase' = Phases[1]
               \/ phase' = "accepted"
    BY DEF NextPhase, Follows, End
  <2>2. 1 \in DOMAIN Phases /\ (n < Len(Phases) => n + 1 \in DOMAIN Phases)
    BY PhaseNames
  <2>3. phase' \in {"accepted"} \cup ToSet(Phases)
    BY <2>1, <2>2, PhaseNames
  <2> QED BY <2>1, <2>3
<1>3. stack = {}
  <2>1. CASE phase = "checkAcyclic"
    BY <1>1, <2>1 DEF AcyclicInv, WalkInv, StackIsFrames
  <2>2. CASE phase # "checkAcyclic"
    BY <1>2, <2>2, PhaseNames DEF AcyclicInv, StackIsEmpty
  <2> QED BY <2>1, <2>2
<1>4. Path' /\ Distinct' /\ Passed' /\ StackIsFrames'
  BY <1>1, <1>3 DEF Path, Distinct, Passed, StackIsFrames
<1>5. Finished' = {}
  BY <1>1 DEF Finished
<1>6. Settled' /\ NoCircle'
  BY <1>5 DEF Settled, NoCircle, HasCircle
<1>7. Verdict'
  BY <1>2, PhaseNames DEF Verdict
<1>8. StackIsEmpty'
  BY <1>1, <1>3 DEF StackIsEmpty
<1> QED BY <1>4, <1>6, <1>7, <1>8 DEF AcyclicInv, WalkInv

\* the other passes use no stack and end in other ways
LEMMA OtherPassInv ==
    ASSUME AcyclicInv,
           phase \in ToSet(Phases) \ {"checkAcyclic"},
           phase' \in {phase, "unknown identifier", "invalid", "trap"},
           stack' = stack
    PROVE  AcyclicInv'
<1>1. phase' # "checkAcyclic" /\ phase' \notin {"cyclic", "cycle end"}
  BY PhaseNames
<1>2. stack = {}
  BY DEF AcyclicInv, StackIsEmpty
<1> QED BY <1>1, <1>2 DEF AcyclicInv, WalkInv, StackIsEmpty, Verdict

LEMMA StutterInv ==
    ASSUME AcyclicInv, UNCHANGED vars
    PROVE  AcyclicInv'
<1>1. /\ phase' = phase /\ frames' = frames /\ visited' = visited /\ stack' = stack
      /\ exprs' = exprs /\ values' = values
  BY DEF vars, program, pass, walk
<1>2. /\ \A e : Dependencies(e)' = Dependencies(e)
      /\ \A e : Deps(e)' = Deps(e)
      /\ \A es : HasCircle(es)' = HasCircle(es)
  BY <1>1, SameDependencies
<1>3. Finished' = Finished
  BY <1>1 DEF Finished
<1>4. Path' = Path /\ Distinct' = Distinct /\ StackIsFrames' = StackIsFrames
  BY <1>1, <1>2 DEF Path, Awaits, Distinct, StackIsFrames
<1>5. Passed' = Passed /\ Settled' = Settled /\ NoCircle' = NoCircle
  BY <1>1, <1>2, <1>3 DEF Passed, DoneUpTo, Settled, NoCircle
<1> QED BY <1>1, <1>2, <1>4, <1>5 DEF AcyclicInv, WalkInv, StackIsEmpty, Verdict

LEMMA NextInv ==
    ASSUME GraphOK, GraphOK', AcyclicInv, [Next]_vars
    PROVE  AcyclicInv'
<1>1. CASE NextPhase
  BY <1>1, NextPhaseInv
<1>2. CASE CheckAcyclic
  BY <1>2, VisitInv
<1>3. CASE CheckedBefore
  BY <1>3, VisitedInv
<1>4. CASE FindCycle
  BY <1>4, FoundInv
<1>5. CASE LeaveAcyclic
  BY <1>5, LeaveInv
<1>6. CASE UNCHANGED vars
  BY <1>6, StutterInv
<1>7. CASE Terminated
  BY <1>7, StutterInv DEF Terminated
<1>8. ASSUME Autofill \/ KeepExplicit
      PROVE  phase = "resolveInheritance" /\ phase' = phase /\ stack' = stack
  BY <1>8 DEF Autofill, KeepExplicit, walk
<1>9. ASSUME PassOver \/ Leave
      PROVE  phase \in Passes /\ phase' = phase /\ stack' = stack
  BY <1>9 DEF PassOver, Leave, Calls, Leaves
<1>10. ASSUME LookUp \/ FailLookup
       PROVE  /\ phase = "lookup" /\ phase' \in {phase, "unknown identifier"}
              /\ stack' = stack
  BY <1>10 DEF LookUp, FailLookup, Calls, End, walk
<1>11. ASSUME Validate \/ FailValidate
       PROVE  phase = "validate" /\ phase' \in {phase, "invalid"} /\ stack' = stack
  BY <1>11 DEF Validate, FailValidate, Calls, End, walk
<1>12. ASSUME Descend \/ Evaluate \/ IsEvaluated \/ Trap
       PROVE  phase = "evaluate" /\ phase' \in {phase, "trap"} /\ stack' = stack
  BY <1>12 DEF Descend, Evaluate, IsEvaluated, Trap, Calls, Leaves, End, walk
<1>13. ASSUME setPostParseCompleted
       PROVE  phase = "complete" /\ phase' = phase /\ stack' = stack
  BY <1>13 DEF setPostParseCompleted, Calls
<1>14. Passes \subseteq ToSet(Phases) \ {"checkAcyclic"}
  BY PhaseNames DEF Passes
<1>15. ASSUME \/ Autofill \/ KeepExplicit \/ PassOver \/ Leave \/ LookUp \/ FailLookup
              \/ Validate \/ FailValidate \/ Descend \/ Evaluate \/ IsEvaluated \/ Trap
              \/ setPostParseCompleted
       PROVE  AcyclicInv'
  <2>1. /\ phase \in ToSet(Phases) \ {"checkAcyclic"}
        /\ phase' \in {phase, "unknown identifier", "invalid", "trap"}
        /\ stack' = stack
    BY <1>8, <1>9, <1>10, <1>11, <1>12, <1>13, <1>14, <1>15, PhaseNames
  <2> QED BY <2>1, OtherPassInv
<1> QED BY <1>1, <1>2, <1>3, <1>4, <1>5, <1>6, <1>7, <1>15 DEF Next

-----------------------------------------------------------------------------
(* What is computed by recursion: induction over a set of numbers.         *)

\* A set that has 0 and, with each number, the next one, has every number: else those up to
\* some m that it has not would be as many without m, each for the next one.
LEMMA SetInduction ==
    ASSUME NEW S, 0 \in S, \A n \in Nat : n \in S => n + 1 \in S
    PROVE  \A n \in Nat : n \in S
<1> SUFFICES ASSUME NEW m \in Nat, m \notin S PROVE FALSE
  OBVIOUS
<1> DEFINE out == {n \in 0 .. m : n \notin S}
           rest == out \ {m}
           before == [n \in out |-> n - 1]
<1>1. IsFiniteSet(out)
  <2>1. IsFiniteSet(0 .. m)
    BY FS_Interval
  <2>2. out \in SUBSET (0 .. m)
    OBVIOUS
  <2> HIDE DEF out
  <2> QED BY <2>1, <2>2, FS_Subset
<1>2. m \in out
  OBVIOUS
<1>3. ASSUME NEW n \in out PROVE n - 1 \in rest
  <2>1. n \in Nat /\ n # 0 /\ n <= m /\ n \notin S
    OBVIOUS
  <2>2. n - 1 \in Nat /\ n - 1 < m /\ (n - 1) + 1 = n
    BY <2>1
  <2>3. n - 1 \notin S
    BY <2>1, <2>2
  <2> QED BY <2>2, <2>3
<1>4. before \in [out -> rest]
  BY <1>3
<1>5. /\ IsFiniteSet(rest)
      /\ Cardinality(rest) = Cardinality(out) - 1
      /\ Cardinality(out) \in Nat
  <2> HIDE DEF out
  <2> QED BY <1>1, <1>2, FS_RemoveElement, FS_CardinalityType
<1>6. Cardinality(rest) < Cardinality(out)
  BY <1>5
<1>7. \A n \in out : before[n] = n - 1 /\ n \in Int
  OBVIOUS
<1> HIDE DEF out, rest, before
<1>8. PICK x, y \in out : x # y /\ before[x] = before[y]
  BY <1>1, <1>4, <1>5, <1>6, FS_PigeonHole
<1> QED BY <1>7, <1>8

\* One step after the other, from b, up to the m-th.
LEMMA SomeIteration ==
    ASSUME NEW D, NEW b \in D, NEW m \in Nat, NEW step \in [1 .. m -> [D -> D]]
    PROVE  \E f \in [0 .. m -> D] : f[0] = b /\ \A n \in 1 .. m : f[n] = step[n][f[n - 1]]
<1> DEFINE Upto(f, k) == /\ f \in [0 .. k -> D] /\ f[0] = b
                         /\ \A n \in 1 .. k : f[n] = step[n][f[n - 1]]
           S == {k \in Nat : k <= m => \E f : Upto(f, k)}
<1>1. 0 \in S
  <2> DEFINE g == [n \in 0 .. 0 |-> b]
  <2>1. g \in [0 .. 0 -> D] /\ g[0] = b /\ \A n \in 1 .. 0 : FALSE
    OBVIOUS
  <2>2. Upto(g, 0)
    BY <2>1
  <2> QED BY <2>2
<1>2. ASSUME NEW k \in Nat, k \in S PROVE k + 1 \in S
  <2> SUFFICES ASSUME k + 1 <= m PROVE \E f : Upto(f, k + 1)
    OBVIOUS
  <2>1. PICK f : Upto(f, k)
    BY <1>2
  <2> DEFINE g == [n \in 0 .. (k + 1) |-> IF n <= k THEN f[n] ELSE step[k + 1][f[k]]]
  <2>2. k + 1 \in 1 .. m /\ k \in 0 .. k /\ f[k] \in D
    BY <2>1
  <2>3. step[k + 1][f[k]] \in D
    BY <2>2
  <2>4. g \in [0 .. (k + 1) -> D]
    BY <2>1, <2>3
  <2>5. g[0] = b
    BY <2>1
  <2>6. ASSUME NEW n \in 1 .. (k + 1) PROVE g[n] = step[n][g[n - 1]]
    <3>1. n \in 0 .. (k + 1) /\ n - 1 \in 0 .. (k + 1) /\ n - 1 \in 0 .. k /\ n - 1 <= k
      OBVIOUS
    <3>2. g[n - 1] = f[n - 1]
      BY <3>1
    <3>3. CASE n <= k
      <4>1. n \in 1 .. k /\ g[n] = f[n]
        BY <3>1, <3>3
      <4> QED BY <2>1, <3>2, <4>1
    <3>4. CASE n = k + 1
      <4>1. g[n] = step[k + 1][f[k]] /\ n - 1 = k
        BY <3>1, <3>4
      <4> QED BY <3>2, <3>4, <4>1
    <3> QED BY <3>3, <3>4
  <2> HIDE DEF g
  <2> QED BY <2>4, <2>5, <2>6
<1> HIDE DEF S
<1>3. \A k \in Nat : k \in S
  BY <1>1, <1>2, SetInduction
<1>4. m \in S /\ m <= m
  BY <1>3
<1> QED BY <1>4 DEF S

\* what starts in D and is led from D to D stays in D
LEMMA StaysIn ==
    ASSUME NEW D, NEW m \in Nat, NEW up, up[0] \in D,
           \A n \in 1 .. m : up[n - 1] \in D => up[n] \in D
    PROVE  \A n \in 0 .. m : up[n] \in D
<1> DEFINE S == {n \in Nat : n <= m => up[n] \in D}
<1>1. 0 \in S
  OBVIOUS
<1>2. ASSUME NEW n \in Nat, n \in S PROVE n + 1 \in S
  <2> SUFFICES ASSUME n + 1 <= m PROVE up[n + 1] \in D
    OBVIOUS
  <2>1. n + 1 \in 1 .. m /\ (n + 1) - 1 = n /\ n <= m
    OBVIOUS
  <2>2. up[n] \in D
    BY <1>2, <2>1
  <2> QED BY <2>1, <2>2
<1> HIDE DEF S
<1>3. \A n \in Nat : n \in S
  BY <1>1, <1>2, SetInduction
<1> QED BY <1>3 DEF S

\* The elements of a concatenation, and of an extension.
LEMMA ConcatElements ==
    ASSUME NEW T, NEW p \in Seq(T), NEW q \in Seq(T)
    PROVE  p \o q \in Seq(T) /\ ToSet(p \o q) = ToSet(p) \cup ToSet(q)
<1>1. /\ p \o q \in Seq(T)
      /\ DOMAIN (p \o q) = 1 .. (Len(p) + Len(q)) /\ Len(p) \in Nat /\ Len(q) \in Nat
      /\ DOMAIN p = 1 .. Len(p) /\ DOMAIN q = 1 .. Len(q)
      /\ \A i \in 1 .. Len(p) : (p \o q)[i] = p[i]
      /\ \A i \in 1 .. Len(q) : (p \o q)[Len(p) + i] = q[i]
  OBVIOUS
<1>2. ASSUME NEW i \in 1 .. (Len(p) + Len(q)) PROVE (p \o q)[i] \in ToSet(p) \cup ToSet(q)
  <2>1. CASE i <= Len(p)
    BY <1>1, <2>1 DEF ToSet
  <2>2. CASE i > Len(p)
    <3>1. i - Len(p) \in 1 .. Len(q) /\ Len(p) + (i - Len(p)) = i
      BY <1>1, <2>2
    <3>2. (p \o q)[i] = q[i - Len(p)]
      BY <1>1, <3>1
    <3> QED BY <1>1, <3>1, <3>2 DEF ToSet
  <2> QED BY <1>1, <2>1, <2>2
<1>3. ASSUME NEW x \in ToSet(p) PROVE x \in ToSet(p \o q)
  <2>1. PICK i \in 1 .. Len(p) : x = p[i]
    BY <1>1 DEF ToSet
  <2>2. i \in 1 .. (Len(p) + Len(q)) /\ (p \o q)[i] = x
    BY <1>1, <2>1
  <2> QED BY <1>1, <2>2 DEF ToSet
<1>4. ASSUME NEW x \in ToSet(q) PROVE x \in ToSet(p \o q)
  <2>1. PICK i \in 1 .. Len(q) : x = q[i]
    BY <1>1 DEF ToSet
  <2>2. Len(p) + i \in 1 .. (Len(p) + Len(q)) /\ (p \o q)[Len(p) + i] = x
    BY <1>1, <2>1
  <2> QED BY <1>1, <2>2 DEF ToSet
<1>5. ToSet(p \o q) \subseteq ToSet(p) \cup ToSet(q)
  BY <1>1, <1>2 DEF ToSet
<1> QED BY <1>1, <1>3, <1>4, <1>5

LEMMA SomeConcat ==
    ASSUME NEW T, NEW ss
    PROVE  ss \in Seq(Seq(T)) =>
             \E f \in [0 .. Len(ss) -> Seq(T)] :
                f[0] = <<>> /\ \A n \in 1 .. Len(ss) : f[n] = f[n - 1] \o ss[n]
<1> DEFINE st == [i \in 1 .. Len(ss) |-> [q \in Seq(T) |-> q \o ss[i]]]
<1>1. ASSUME ss \in Seq(Seq(T))
      PROVE  /\ Len(ss) \in Nat /\ <<>> \in Seq(T)
             /\ \A i \in 1 .. Len(ss) : ss[i] \in Seq(T)
             /\ st \in [1 .. Len(ss) -> [Seq(T) -> Seq(T)]]
  <2>1. \A i \in 1 .. Len(ss) : ss[i] \in Seq(T)
    BY <1>1
  <2> QED BY <1>1, <2>1
<1>2. \A i \in 1 .. Len(ss) : \A q \in Seq(T) : st[i][q] = q \o ss[i]
  OBVIOUS
<1> HIDE DEF st
<1>3. ASSUME NEW D, NEW b \in D, NEW k \in Nat, st \in [1 .. k -> [D -> D]]
      PROVE  \E f \in [0 .. k -> D] : f[0] = b /\ \A n \in 1 .. k : f[n] = st[n][f[n - 1]]
  BY <1>3, SomeIteration
<1>4. ASSUME ss \in Seq(Seq(T))
      PROVE  \E f \in [0 .. Len(ss) -> Seq(T)] :
                f[0] = <<>> /\ \A n \in 1 .. Len(ss) : f[n] = f[n - 1] \o ss[n]
  <2>1. PICK f \in [0 .. Len(ss) -> Seq(T)] :
            f[0] = <<>> /\ \A n \in 1 .. Len(ss) : f[n] = st[n][f[n - 1]]
    <3>1. PICK D, b, k : D = Seq(T) /\ b = <<>> /\ k = Len(ss)
      OBVIOUS
    <3>2. b \in D /\ k \in Nat /\ st \in [1 .. k -> [D -> D]]
      BY <1>1, <1>4, <3>1
    <3>3. \E f \in [0 .. k -> D] : f[0] = b /\ \A n \in 1 .. k : f[n] = st[n][f[n - 1]]
      BY <1>3, <3>2
    <3> QED BY <3>1, <3>3
  <2>2. ASSUME NEW n \in 1 .. Len(ss) PROVE f[n] = f[n - 1] \o ss[n]
    <3>1. n - 1 \in 0 .. Len(ss)
      BY <1>1, <1>4
    <3>2. f[n - 1] \in Seq(T)
      BY <2>1, <3>1
    <3> QED BY <1>2, <2>1, <3>2
  <2> QED BY <2>1, <2>2
<1> QED BY <1>4

\* What FlattenSeq answers is put together one sequence after the other.
LEMMA FlattenSteps ==
    ASSUME NEW T, NEW ss \in Seq(Seq(T))
    PROVE  \E f \in [0 .. Len(ss) -> Seq(T)] :
             /\ f[0] = <<>> /\ \A n \in 1 .. Len(ss) : f[n] = f[n - 1] \o ss[n]
             /\ FlattenSeq(ss) = f[Len(ss)]
<1> DEFINE m == Len(ss)
<1>1. m \in Nat /\ DOMAIN ss = 1 .. m /\ \A i \in 1 .. m : ss[i] \in Seq(T)
  OBVIOUS
<1>2. PICK f \in [0 .. m -> Seq(T)] :
          f[0] = <<>> /\ \A n \in 1 .. m : f[n] = f[n - 1] \o ss[n]
  BY SomeConcat
<1>3. CASE m = 0
  <2>1. FlattenSeq(ss) = ss /\ ss = <<>>
    BY <1>3 DEF FlattenSeq
  <2>2. FlattenSeq(ss) = f[m]
    BY <1>2, <1>3, <2>1
  <2> QED BY <1>2, <2>2
<1>4. CASE m # 0
  <2> DEFINE flatten[i \in 1 .. m] == IF i = 1 THEN ss[i] ELSE flatten[i - 1] \o ss[i]
  <2>1. FlattenSeq(ss) = flatten[m]
    BY <1>4 DEF FlattenSeq
  <2> DEFINE g == [i \in 1 .. m |-> f[i]]
  <2>2. ASSUME NEW i \in 1 .. m PROVE f[i] = f[i - 1] \o ss[i]
    BY <1>2
  <2>3. ASSUME NEW i \in 1 .. m PROVE g[i] = IF i = 1 THEN ss[i] ELSE g[i - 1] \o ss[i]
    <3>1. CASE i = 1
      <4>1. 1 \in 1 .. m /\ ss[1] \in Seq(T) /\ 1 - 1 = 0
        BY <1>1, <3>1
      <4>2. f[1] = <<>> \o ss[1]
        BY <1>2, <2>2, <4>1
      <4>3. \A q \in Seq(T) : <<>> \o q = q
        OBVIOUS
      <4>4. f[1] = ss[1]
        BY <4>1, <4>2, <4>3
      <4> QED BY <3>1, <4>1, <4>4
    <3>2. CASE i # 1
      <4>1. i - 1 \in 1 .. m
        BY <1>1, <3>2
      <4> QED BY <2>2, <3>2, <4>1
    <3> QED BY <3>1, <3>2
  <2>4. g = [i \in 1 .. m |-> IF i = 1 THEN ss[i] ELSE g[i - 1] \o ss[i]]
    <3>1. g = [i \in 1 .. m |-> g[i]]
      OBVIOUS
    <3> HIDE DEF g
    <3> QED BY <2>3, <3>1
  <2>5. \E h : h = [i \in 1 .. m |-> IF i = 1 THEN ss[i] ELSE h[i - 1] \o ss[i]]
    BY <2>4
  <2>6. flatten = [i \in 1 .. m |-> IF i = 1 THEN ss[i] ELSE flatten[i - 1] \o ss[i]]
    BY <2>5 DEF flatten
  <2> HIDE DEF flatten
  <2>7. ASSUME NEW i \in 1 .. m PROVE flatten[i] = IF i = 1 THEN ss[i] ELSE flatten[i - 1] \o ss[i]
    BY <2>6
  <2> DEFINE S == {k \in Nat : k + 1 <= m => flatten[k + 1] = f[k + 1]}
  <2>8. 0 \in S
    <3>1. 1 \in 1 .. m /\ 0 + 1 = 1
      BY <1>1, <1>4
    <3>2. g[1] = f[1] /\ flatten[1] = ss[1] /\ g[1] = ss[1]
      BY <2>3, <2>7, <3>1
    <3> QED BY <3>1, <3>2
  <2>9. ASSUME NEW k \in Nat, k \in S PROVE k + 1 \in S
    <3> SUFFICES ASSUME (k + 1) + 1 <= m PROVE flatten[(k + 1) + 1] = f[(k + 1) + 1]
      OBVIOUS
    <3>1. k + 1 <= m /\ (k + 1) + 1 \in 1 .. m /\ (k + 1) + 1 # 1 /\ ((k + 1) + 1) - 1 = k + 1
      BY <1>1
    <3>2. flatten[k + 1] = f[k + 1]
      BY <2>9, <3>1
    <3>3. PICK i : i = (k + 1) + 1
      OBVIOUS
    <3>4. i \in 1 .. m /\ i # 1 /\ i - 1 = k + 1
      BY <3>1, <3>3
    <3>5. f[i] = f[i - 1] \o ss[i]
      BY <2>2, <3>4
    <3>6. flatten[i] = flatten[i - 1] \o ss[i]
      BY <2>7, <3>4
    <3> QED BY <3>2, <3>3, <3>4, <3>5, <3>6
  <2> HIDE DEF S
  <2>10. \A k \in Nat : k \in S
    BY <2>8, <2>9, SetInduction
  <2>11. m - 1 \in Nat /\ (m - 1) + 1 = m /\ m <= m
    BY <1>1, <1>4
  <2>12. flatten[m] = f[m]
    BY <2>10, <2>11 DEF S
  <2> QED BY <1>2, <2>1, <2>12
<1> QED BY <1>3, <1>4

\* It has the elements of all the sequences.
LEMMA FlattenFacts ==
    ASSUME NEW T, NEW ss \in Seq(Seq(T))
    PROVE  /\ FlattenSeq(ss) \in Seq(T)
           /\ ToSet(FlattenSeq(ss)) = UNION {ToSet(ss[i]) : i \in DOMAIN ss}
<1>1. PICK m : m = Len(ss)
  OBVIOUS
<1>2. m \in Nat /\ DOMAIN ss = 1 .. m /\ \A i \in 1 .. m : ss[i] \in Seq(T)
  BY <1>1
<1>3. PICK f \in [0 .. m -> Seq(T)] :
          /\ f[0] = <<>> /\ \A n \in 1 .. m : f[n] = f[n - 1] \o ss[n]
          /\ FlattenSeq(ss) = f[m]
  BY <1>1, FlattenSteps
<1> DEFINE S == {k \in Nat : k <= m => ToSet(f[k]) = UNION {ToSet(ss[i]) : i \in 1 .. k}}
<1>4. 0 \in S
  <2>1. ToSet(f[0]) = {} /\ 1 .. 0 = {}
    BY <1>3 DEF ToSet
  <2> QED BY <2>1
<1>5. ASSUME NEW k \in Nat, k \in S PROVE k + 1 \in S
  <2> SUFFICES ASSUME k + 1 <= m
               PROVE  ToSet(f[k + 1]) = UNION {ToSet(ss[i]) : i \in 1 .. (k + 1)}
    OBVIOUS
  <2>1. PICK n : n = k + 1
    OBVIOUS
  <2>2. n \in 1 .. m /\ n - 1 = k /\ k \in 0 .. m /\ k <= m
    BY <1>2, <2>1
  <2>3. f[k] \in Seq(T) /\ ss[n] \in Seq(T) /\ f[n] = f[k] \o ss[n]
    BY <1>2, <1>3, <2>2
  <2>4. ToSet(f[k]) = UNION {ToSet(ss[i]) : i \in 1 .. k}
    BY <1>5, <2>2
  <2>5. ToSet(f[n]) = ToSet(f[k]) \cup ToSet(ss[n])
    BY <2>3, ConcatElements
  <2> DEFINE E(i) == ToSet(ss[i])
  <2>6. UNION {ToSet(ss[i]) : i \in 1 .. n} = (UNION {ToSet(ss[i]) : i \in 1 .. k}) \cup ToSet(ss[n])
    <3>1. \A i : i \in 1 .. n <=> i \in 1 .. k \/ i = n
      BY <2>1
    <3> HIDE DEF E
    <3>2. UNION {E(i) : i \in 1 .. n} = (UNION {E(i) : i \in 1 .. k}) \cup E(n)
      BY <3>1
    <3> QED BY <3>2 DEF E
  <2> QED BY <2>1, <2>4, <2>5, <2>6
<1> HIDE DEF S
<1>6. \A k \in Nat : k \in S
  BY <1>4, <1>5, SetInduction
<1>7. m <= m /\ m \in 0 .. m
  BY <1>2
<1>8. ToSet(f[m]) = UNION {ToSet(ss[i]) : i \in 1 .. m}
  BY <1>2, <1>6, <1>7 DEF S
<1> QED BY <1>2, <1>3, <1>7, <1>8

\* It goes by number where each sequence has the pairs of its own number only.
ByNumber(s) == \A i, j \in DOMAIN s : i < j => s[i][1] <= s[j][1]

LEMMA FlattenIsByNumber ==
    ASSUME NEW T, NEW ss \in Seq(Seq(T)),
           \A n \in DOMAIN ss : \A i \in DOMAIN ss[n] : ss[n][i][1] = n
    PROVE  ByNumber(FlattenSeq(ss))
<1>1. PICK m : m = Len(ss)
  OBVIOUS
<1>2. m \in Nat /\ DOMAIN ss = 1 .. m /\ \A i \in 1 .. m : ss[i] \in Seq(T)
  BY <1>1
<1>3. PICK f \in [0 .. m -> Seq(T)] :
          /\ f[0] = <<>> /\ \A n \in 1 .. m : f[n] = f[n - 1] \o ss[n]
          /\ FlattenSeq(ss) = f[m]
  BY <1>1, FlattenSteps
<1> DEFINE S == {k \in Nat : k <= m =>
                    ByNumber(f[k]) /\ \A i \in DOMAIN f[k] : f[k][i][1] \in 0 .. k}
<1>4. 0 \in S
  <2>1. DOMAIN f[0] = {}
    BY <1>3
  <2> QED BY <2>1 DEF ByNumber
<1>5. ASSUME NEW k \in Nat, k \in S PROVE k + 1 \in S
  <2> SUFFICES ASSUME k + 1 <= m
               PROVE  ByNumber(f[k + 1]) /\ \A i \in DOMAIN f[k + 1] : f[k + 1][i][1] \in 0 .. (k + 1)
    OBVIOUS
  <2>1. PICK n, p, q, s : n = k + 1 /\ p = f[k] /\ q = ss[n] /\ s = f[n]
    OBVIOUS
  <2>2. n \in 1 .. m /\ n - 1 = k /\ k \in 0 .. m /\ k <= m
    BY <1>2, <2>1
  <2>3. p \in Seq(T) /\ q \in Seq(T) /\ s = p \o q
    BY <1>2, <1>3, <2>1, <2>2
  <2>4. ByNumber(p) /\ \A i \in DOMAIN p : p[i][1] \in 0 .. k
    BY <1>5, <2>1, <2>2
  <2>5. \A i \in DOMAIN q : q[i][1] = n
    BY <1>2, <2>1, <2>2
  <2>6. /\ DOMAIN s = 1 .. (Len(p) + Len(q)) /\ Len(p) \in Nat /\ Len(q) \in Nat
        /\ DOMAIN p = 1 .. Len(p) /\ DOMAIN q = 1 .. Len(q)
        /\ \A i \in 1 .. Len(p) : s[i] = p[i]
        /\ \A i \in 1 .. Len(q) : s[Len(p) + i] = q[i]
    BY <2>3
  <2>7. ASSUME NEW i \in DOMAIN s
        PROVE  \/ i \in DOMAIN p /\ s[i] = p[i] /\ s[i][1] \in 0 .. k
               \/ i > Len(p) /\ s[i][1] = n
    <3>1. CASE i <= Len(p)
      BY <2>4, <2>6, <3>1
    <3>2. CASE i > Len(p)
      <4>1. i - Len(p) \in 1 .. Len(q) /\ Len(p) + (i - Len(p)) = i
        BY <2>6, <3>2
      <4>2. s[i] = q[i - Len(p)]
        BY <2>6, <4>1
      <4> QED BY <2>5, <2>6, <3>2, <4>1, <4>2
    <3> QED BY <2>6, <3>1, <3>2
  <2>8. \A i \in DOMAIN s : s[i][1] \in 0 .. n
    <3>1. n \in 0 .. n /\ \A x \in 0 .. k : x \in 0 .. n
      BY <2>1
    <3> QED BY <2>7, <3>1
  <2>9. ASSUME NEW i \in DOMAIN s, NEW j \in DOMAIN s, i < j PROVE s[i][1] <= s[j][1]
    <3>1. CASE j \in DOMAIN p
      <4>1. i \in DOMAIN p
        BY <2>6, <2>9, <3>1
      <4> QED BY <2>4, <2>6, <2>9, <3>1, <4>1 DEF ByNumber
    <3>2. CASE j \notin DOMAIN p
      <4>1. s[j][1] = n
        BY <2>7, <3>2
      <4>2. \A x \in 0 .. n : x <= n
        OBVIOUS
      <4> QED BY <2>8, <4>1, <4>2
    <3> QED BY <3>1, <3>2
  <2>10. ByNumber(s)
    BY <2>9 DEF ByNumber
  <2> QED BY <2>1, <2>8, <2>10
<1> HIDE DEF S
<1>6. \A k \in Nat : k \in S
  BY <1>4, <1>5, SetInduction
<1>7. m <= m
  BY <1>2
<1> QED BY <1>2, <1>3, <1>6, <1>7 DEF S

\* A set of numbers has a least one: else none would be in it, one after the other.
LEMMA MinIsIn ==
    ASSUME NEW I \in SUBSET Nat, I # {}
    PROVE  Min(I) \in I
<1> SUFFICES ASSUME \A i \in I : \E j \in I : ~(i <= j)
             PROVE  FALSE
  BY DEF Min
<1> DEFINE S == {n \in Nat : \A i \in I : ~(i <= n)}
<1>1. 0 \in S
  OBVIOUS
<1>2. ASSUME NEW n \in Nat, n \in S PROVE n + 1 \in S
  <2>1. n + 1 \notin I
    BY <1>2
  <2> QED BY <1>2, <2>1
<1> HIDE DEF S
<1>3. \A n \in Nat : n \in S
  BY <1>1, <1>2, SetInduction
<1>4. PICK i \in I : i \in Nat
  OBVIOUS
<1>5. i \in S /\ i <= i
  BY <1>3, <1>4
<1> QED BY <1>5 DEF S

-----------------------------------------------------------------------------
(* What the lookups of types and values answer.                            *)

FileOf(t) == types[t].file
Near(t) == {v \in AllValues : FileOf(v[1]) <= FileOf(t)}
OwnValues(f) == {v \in AllValues : FileOf(v[1]) = f}
ValuesOf(T) == {v \in AllValues : v[1] \in T}

\* types which have what they extend among them
ClosedUp(T) ==
    T \subseteq DOMAIN types /\ \A u \in T : types[u].super # 0 => types[u].super \in T

\* the types are those of the program, and stay
TypesInv ==
    /\ AreTypes(types)
    /\ values \in Seq(Seq(Nat)) /\ Len(values) = Len(types)

LEMMA TypeFacts ==
    ASSUME AreTypes(types)
    PROVE  /\ Len(types) \in Nat /\ Len(types) # 0 /\ DOMAIN types = 1 .. Len(types)
           /\ \A t \in DOMAIN types :
                /\ FileOf(t) \in Nat \ {0}
                /\ types[t].super \in {0} \cup DOMAIN types
                /\ types[t].super # 0 => FileOf(types[t].super) <= FileOf(t)
<1>1. types \in Seq(TypeType(Len(types))) /\ types # <<>>
  BY DEF AreTypes
<1>2. Len(types) \in Nat /\ Len(types) # 0 /\ DOMAIN types = 1 .. Len(types)
  BY <1>1
<1>3. ASSUME NEW t \in DOMAIN types
      PROVE  types[t].file \in Nat \ {0} /\ types[t].super \in 0 .. Len(types)
  <2>1. types[t] \in TypeType(Len(types))
    BY <1>1
  <2> QED BY <2>1 DEF TypeType
<1>4. \A n \in 0 .. Len(types) : n \in {0} \cup 1 .. Len(types)
  BY <1>2
<1> QED BY <1>2, <1>3, <1>4 DEF AreTypes, FileOf

LEMMA ValueFacts ==
    ASSUME TypesInv
    PROVE  /\ DOMAIN values = DOMAIN types
           /\ \A t \in DOMAIN types :
                /\ values[t] \in Seq(Nat) /\ Len(values[t]) \in Nat
                /\ DOMAIN values[t] = 1 .. Len(values[t])
                /\ \A i \in DOMAIN values[t] : values[t][i] \in Nat /\ <<t, i>> \in AllValues
           /\ \A v \in AllValues :
                /\ v = <<v[1], v[2]>> /\ v[1] \in DOMAIN types /\ v[2] \in DOMAIN values[v[1]]
                /\ FileOf(v[1]) \in Nat /\ v \in Nat \X Nat /\ v # NoValue
<1>1. /\ values \in Seq(Seq(Nat)) /\ Len(values) = Len(types)
      /\ Len(types) \in Nat /\ DOMAIN types = 1 .. Len(types)
  BY TypeFacts DEF TypesInv
<1>2. DOMAIN values = DOMAIN types
  BY <1>1
<1>3. \A t \in DOMAIN types : values[t] \in Seq(Nat)
  BY <1>1, <1>2
<1>4. ASSUME NEW s \in Seq(Nat)
      PROVE  Len(s) \in Nat /\ DOMAIN s = 1 .. Len(s) /\ \A i \in DOMAIN s : s[i] \in Nat
  OBVIOUS
<1>5. ASSUME NEW t \in DOMAIN types, NEW i \in DOMAIN values[t]
      PROVE  <<t, i>> \in AllValues
  BY DEF AllValues
<1>6. ASSUME NEW v \in AllValues
      PROVE  /\ v = <<v[1], v[2]>> /\ v[1] \in DOMAIN types /\ v[2] \in DOMAIN values[v[1]]
             /\ FileOf(v[1]) \in Nat /\ v \in Nat \X Nat /\ v # NoValue
  <2>1. PICK t \in DOMAIN types : v \in {t} \X DOMAIN values[t]
    BY DEF AllValues
  <2>2. PICK i \in DOMAIN values[t] : v = <<t, i>>
    BY <2>1
  <2>3. t \in Nat /\ i \in Nat
    BY <1>1, <1>3, <1>4
  <2>4. FileOf(t) \in Nat
    BY TypeFacts DEF TypesInv
  <2> QED BY <2>2, <2>3, <2>4, NoValueAssumption
<1> QED BY <1>2, <1>3, <1>4, <1>5, <1>6

\* a chain goes from its type to others of the same kind
LEMMA ChainStays ==
    ASSUME AreTypes(types), NEW T, ClosedUp(T), NEW t \in T
    PROVE  typeChain(t) \in Seq(T) /\ typeChain(t) # <<>>
<1> DEFINE N == Len(types)
           D == Seq(T) \ {<<>>}
           Longer(s) == IF types[Last(s)].super = 0 THEN s ELSE Append(s, types[Last(s)].super)
           up[n \in 0 .. N] ==
             IF n = 0 THEN <<t>>
             ELSE IF types[Last(up[n - 1])].super = 0 THEN up[n - 1]
             ELSE Append(up[n - 1], types[Last(up[n - 1])].super)
           st == [n \in 1 .. N |-> [s \in D |-> Longer(s)]]
<1>1. N \in Nat
  BY TypeFacts
<1>2. typeChain(t) = up[N]
  BY DEF typeChain
<1>3. ASSUME NEW s \in D PROVE Longer(s) \in D
  <2>1. s \in Seq(T) /\ s # <<>>
    OBVIOUS
  <2>2. Last(s) \in T
    <3>1. Len(s) \in DOMAIN s
      BY <2>1
    <3> QED BY <2>1, <3>1 DEF Last
  <2>3. types[Last(s)].super # 0 => types[Last(s)].super \in T
    BY <2>2 DEF ClosedUp
  <2>4. ASSUME NEW u \in T PROVE Append(s, u) \in Seq(T) /\ Append(s, u) # <<>>
    BY <2>1
  <2> QED BY <2>1, <2>3, <2>4
<1>4. <<t>> \in D
  OBVIOUS
<1> HIDE DEF D
<1>5. st \in [1 .. N -> [D -> D]] /\ \A n \in 1 .. N : \A s \in D : st[n][s] = Longer(s)
  BY <1>3
<1>6. PICK g \in [0 .. N -> D] : g[0] = <<t>> /\ \A n \in 1 .. N : g[n] = st[n][g[n - 1]]
  <2>1. PICK b, k : b = <<t>> /\ k = N
    OBVIOUS
  <2> HIDE DEF st, up, N, Longer
  <2>2. b \in D /\ k \in Nat /\ st \in [1 .. k -> [D -> D]]
    BY <1>1, <1>4, <1>5, <2>1
  <2>3. PICK E, q : E = D /\ q = st
    OBVIOUS
  <2>4. b \in E /\ k \in Nat /\ q \in [1 .. k -> [E -> E]]
    BY <2>2, <2>3
  <2>5. \E g \in [0 .. k -> E] : g[0] = b /\ \A n \in 1 .. k : g[n] = q[n][g[n - 1]]
    BY <2>4, SomeIteration, SMTT(60)
  <2> QED BY <2>1, <2>3, <2>5
<1>7. ASSUME NEW n \in 0 .. N
      PROVE  g[n] = IF n = 0 THEN <<t>> ELSE Longer(g[n - 1])
  <2> HIDE DEF st, up, N, Longer
  <2>1. CASE n = 0
    BY <1>6, <2>1
  <2>2. CASE n # 0
    <3>1. n \in 1 .. N /\ n - 1 \in 0 .. N
      BY <1>1, <2>2
    <3>2. g[n - 1] \in D
      BY <1>6, <3>1
    <3> QED BY <1>5, <1>6, <2>2, <3>1, <3>2
  <2> QED BY <2>1, <2>2
<1>8. g = [n \in 0 .. N |-> IF n = 0 THEN <<t>> ELSE Longer(g[n - 1])]
  <2> HIDE DEF st, up, N, Longer
  <2> QED BY <1>6, <1>7
<1>9. \E h : h = [n \in 0 .. N |-> IF n = 0 THEN <<t>> ELSE Longer(h[n - 1])]
  BY <1>8
<1>10. up = [n \in 0 .. N |-> IF n = 0 THEN <<t>> ELSE Longer(up[n - 1])]
  BY <1>9 DEF up
<1> HIDE DEF up, st, N, Longer
<1>11. up[0] = <<t>> /\ \A n \in 1 .. N : up[n] = Longer(up[n - 1])
  <2>1. ASSUME NEW n \in 0 .. N PROVE up[n] = IF n = 0 THEN <<t>> ELSE Longer(up[n - 1])
    BY <1>10
  <2>2. 0 \in 0 .. N /\ \A n \in 1 .. N : n \in 0 .. N /\ n # 0
    BY <1>1
  <2> QED BY <2>1, <2>2
<1>12. \A n \in 0 .. N : up[n] \in D
  <2>1. up[0] \in D /\ \A n \in 1 .. N : up[n - 1] \in D => up[n] \in D
    BY <1>3, <1>4, <1>11
  <2> QED BY <1>1, <2>1, StaysIn
<1>13. N \in 0 .. N
  BY <1>1
<1>14. up[N] \in Seq(T) /\ up[N] # <<>>
  BY <1>12, <1>13 DEF D
<1> QED BY <1>2, <1>14

LEMMA EnumValuesFacts ==
    ASSUME TypesInv, NEW t \in DOMAIN types, NEW V,
           \A i \in DOMAIN values[t] : <<t, i>> \in V
    PROVE  /\ EnumValues(t) \in Seq(V)
           /\ ToSet(EnumValues(t)) = {<<t, i>> : i \in DOMAIN values[t]}
<1> DEFINE n == Len(values[t])
           s == [i \in 1 .. n |-> <<t, i>>]
<1>1. DOMAIN values[t] = 1 .. n /\ n \in Nat
  BY ValueFacts
<1>2. EnumValues(t) = s
  BY <1>1 DEF EnumValues
<1> HIDE DEF n
<1>3. s \in Seq(V)
  BY <1>1
<1>4. ToSet(s) = {<<t, i>> : i \in 1 .. n}
  BY DEF ToSet
<1> QED BY <1>1, <1>2, <1>3, <1>4

LEMMA ChainValuesStay ==
    ASSUME TypesInv, NEW T, ClosedUp(T), NEW t \in T
    PROVE  ChainValues(t) \in Seq(ValuesOf(T))
<1> DEFINE chain == typeChain(t)
           k == Len(chain)
           V == ValuesOf(T)
           ss == [n \in 1 .. k |-> EnumValues(chain[n])]
<1>1. chain \in Seq(T)
  BY ChainStays DEF TypesInv
<1> HIDE DEF chain
<1>2. k \in Nat /\ DOMAIN chain = 1 .. k /\ \A i \in 1 .. k : chain[i] \in T
  BY <1>1
<1>3. ASSUME NEW n \in 1 .. k PROVE EnumValues(chain[n]) \in Seq(V)
  <2>1. PICK u : u = chain[n]
    OBVIOUS
  <2>2. u \in DOMAIN types /\ u \in T
    BY <1>2, <2>1 DEF ClosedUp
  <2>3. \A i \in DOMAIN values[u] : <<u, i>> \in V
    BY <2>2, ValueFacts DEF ValuesOf
  <2> HIDE DEF V
  <2> QED BY <2>1, <2>2, <2>3, EnumValuesFacts
<1> HIDE DEF k, V
<1>4. ss \in Seq(Seq(V))
  BY <1>2, <1>3
<1>5. ChainValues(t) = FlattenSeq(ss)
  BY <1>2 DEF ChainValues, chain
<1> HIDE DEF ss
<1>6. FlattenSeq(ss) \in Seq(V)
  BY <1>4, FlattenFacts
<1> QED BY <1>5, <1>6 DEF V

\* what is found is a value of the chain
LEMMA LookupStays ==
    ASSUME TypesInv, NEW T, ClosedUp(T), NEW t \in T, NEW name
    PROVE  lookupIdentifier(t, name) \in ValuesOf(T) \cup {NoValue}
<1> DEFINE vs == ChainValues(t)
           I == {i \in 1 .. Len(vs) : Named(vs[i], name)}
<1>1. vs \in Seq(ValuesOf(T)) /\ Len(vs) \in Nat /\ DOMAIN vs = 1 .. Len(vs)
  BY ChainValuesStay
<1> HIDE DEF vs
<1>2. lookupIdentifier(t, name) =
        IF (IF I # {} THEN Min(I) ELSE 0) = 0 THEN NoValue ELSE vs[IF I # {} THEN Min(I) ELSE 0]
  BY DEF lookupIdentifier, SelectInSeq, vs
<1>3. CASE I = {}
  BY <1>2, <1>3
<1>4. CASE I # {}
  <2>1. I \in SUBSET Nat
    OBVIOUS
  <2>2. Min(I) \in I
    <3> HIDE DEF I
    <3> QED BY <1>4, <2>1, MinIsIn
  <2>3. vs[Min(I)] \in ValuesOf(T)
    BY <1>1, <2>2
  <2> QED BY <1>2, <1>4, <2>2, <2>3
<1> QED BY <1>3, <1>4

\* the value before another is of its chain too
LEMMA PreviousStays ==
    ASSUME TypesInv, NEW T, ClosedUp(T), NEW v \in ValuesOf(T)
    PROVE  Previous(v) \in ValuesOf(T) \cup {NoValue}
<1> DEFINE t == v[1]
           chain == typeChain(t)
           above == Tail(chain)
           I == {i \in 1 .. Len(above) : values[above[i]] # <<>>}
<1>1. /\ t \in T /\ t \in DOMAIN types /\ v[2] \in DOMAIN values[t]
      /\ DOMAIN values[t] = 1 .. Len(values[t]) /\ Len(values[t]) \in Nat
      /\ \A i \in DOMAIN values[t] : <<t, i>> \in AllValues
  BY ValueFacts DEF ValuesOf
<1>2. chain \in Seq(T) /\ chain # <<>>
  BY <1>1, ChainStays DEF TypesInv
<1>3. Previous(v) =
        IF v[2] > 1 THEN <<t, v[2] - 1>>
        ELSE IF (IF I # {} THEN Min(I) ELSE 0) = 0 THEN NoValue
        ELSE <<above[IF I # {} THEN Min(I) ELSE 0],
               Len(values[above[IF I # {} THEN Min(I) ELSE 0]])>>
  BY DEF Previous, SelectInSeq, superTypeChain
<1> HIDE DEF t, chain
<1>4. CASE v[2] > 1
  <2>1. v[2] - 1 \in DOMAIN values[t]
    BY <1>1, <1>4
  <2>2. <<t, v[2] - 1>> \in AllValues /\ t \in T
    BY <1>1, <2>1
  <2>3. <<t, v[2] - 1>> \in ValuesOf(T)
    BY <2>2 DEF ValuesOf
  <2> QED BY <1>3, <1>4, <2>3 DEF t
<1>5. CASE ~(v[2] > 1) /\ I = {}
  BY <1>3, <1>5
<1>6. CASE ~(v[2] > 1) /\ I # {}
  <2>1. Min(I) \in I
    <3>1. I \in SUBSET Nat
      OBVIOUS
    <3> HIDE DEF I
    <3> QED BY <1>6, <3>1, MinIsIn
  <2>2. PICK i \in 1 .. Len(above) : i = Min(I) /\ values[above[i]] # <<>>
    BY <2>1
  <2>3. above[i] = chain[i + 1] /\ i + 1 \in DOMAIN chain /\ i # 0
    <3>1. ASSUME NEW S, NEW s \in Seq(S), s # <<>>
          PROVE  /\ Len(Tail(s)) = Len(s) - 1 /\ Len(s) \in Nat /\ DOMAIN s = 1 .. Len(s)
                 /\ \A j \in 1 .. Len(s) - 1 : Tail(s)[j] = s[j + 1]
      BY <3>1
    <3>2. /\ Len(above) = Len(chain) - 1 /\ Len(chain) \in Nat /\ DOMAIN chain = 1 .. Len(chain)
          /\ \A j \in 1 .. Len(chain) - 1 : above[j] = chain[j + 1]
      BY <1>2, <3>1
    <3> HIDE DEF I, above
    <3> QED BY <2>2, <3>2
  <2>4. PICK u : u = above[i]
    OBVIOUS
  <2>5. u \in T /\ u \in DOMAIN types /\ values[u] # <<>>
    <3>1. chain[i + 1] \in T
      BY <1>2, <2>3
    <3> HIDE DEF I, above
    <3> QED BY <2>2, <2>3, <2>4, <3>1 DEF ClosedUp
  <2>6. <<u, Len(values[u])>> \in AllValues
    <3>1. /\ values[u] \in Seq(Nat) /\ Len(values[u]) \in Nat
          /\ DOMAIN values[u] = 1 .. Len(values[u])
          /\ \A j \in DOMAIN values[u] : <<u, j>> \in AllValues
      BY <2>5, ValueFacts
    <3>2. Len(values[u]) # 0
      BY <2>5, <3>1
    <3>3. Len(values[u]) \in DOMAIN values[u]
      BY <3>1, <3>2
    <3> QED BY <3>1, <3>3
  <2>7. <<u, Len(values[u])>> \in ValuesOf(T)
    BY <2>5, <2>6 DEF ValuesOf
  <2>8. Previous(v) = <<u, Len(values[u])>>
    <3> HIDE DEF I, above
    <3> QED BY <1>3, <1>6, <2>2, <2>3, <2>4
  <2> QED BY <2>7, <2>8
<1> QED BY <1>4, <1>5, <1>6

\* the types of a file and of those before it
LEMMA NearIsClosed ==
    ASSUME TypesInv, NEW t \in DOMAIN types
    PROVE  LET T == {u \in DOMAIN types : FileOf(u) <= FileOf(t)}
           IN ClosedUp(T) /\ t \in T /\ ValuesOf(T) = Near(t)
<1>1. /\ \A u \in DOMAIN types : FileOf(u) \in Nat /\ types[u].super \in {0} \cup DOMAIN types
      /\ \A u \in DOMAIN types : types[u].super # 0 => FileOf(types[u].super) <= FileOf(u)
  BY TypeFacts DEF TypesInv
<1>2. PICK f \in Nat : f = FileOf(t)
  BY <1>1
<1> DEFINE T == {u \in DOMAIN types : FileOf(u) <= f}
<1>3. ASSUME NEW u \in T, types[u].super # 0 PROVE types[u].super \in T
  <2>1. PICK w : w = types[u].super
    OBVIOUS
  <2>2. w \in DOMAIN types /\ FileOf(w) <= FileOf(u)
    BY <1>1, <1>3, <2>1
  <2>3. FileOf(u) <= f /\ FileOf(u) \in Nat /\ FileOf(w) \in Nat
    BY <1>1, <2>2
  <2>4. FileOf(w) <= f
    BY <2>2, <2>3
  <2> QED BY <2>1, <2>2, <2>4
<1>4. t \in T
  BY <1>2
<1>5. ValuesOf(T) = Near(t)
  BY <1>2, ValueFacts DEF ValuesOf, Near
<1> QED BY <1>2, <1>3, <1>4, <1>5 DEF ClosedUp

LEMMA LookupFacts ==
    ASSUME TypesInv, NEW t \in DOMAIN types, NEW name
    PROVE  lookupIdentifier(t, name) \in Near(t) \cup {NoValue}
<1>1. PICK T : T = {u \in DOMAIN types : FileOf(u) <= FileOf(t)}
  OBVIOUS
<1> QED BY <1>1, NearIsClosed, LookupStays

LEMMA PreviousFacts ==
    ASSUME TypesInv, NEW v \in AllValues
    PROVE  Previous(v) \in Near(v[1]) \cup {NoValue}
<1>1. PICK t, T : t = v[1] /\ T = {u \in DOMAIN types : FileOf(u) <= FileOf(t)}
  OBVIOUS
<1>2. t \in DOMAIN types
  BY <1>1, ValueFacts
<1>3. ClosedUp(T) /\ t \in T /\ ValuesOf(T) = Near(t)
  BY <1>1, <1>2, NearIsClosed
<1>4. v \in ValuesOf(T)
  BY <1>1, <1>3 DEF ValuesOf
<1> QED BY <1>1, <1>3, <1>4, PreviousStays

LEMMA FileValuesFacts ==
    ASSUME TypesInv, NEW f
    PROVE  /\ FileValues(f) \in Seq(OwnValues(f))
           /\ ToSet(FileValues(f)) = OwnValues(f)
<1> DEFINE V == OwnValues(f)
           k == Len(types)
           ss == [t \in 1 .. k |-> IF types[t].file = f THEN EnumValues(t) ELSE <<>>]
<1>1. k \in Nat /\ DOMAIN types = 1 .. k
  BY TypeFacts DEF TypesInv
<1>2. FileValues(f) = FlattenSeq(ss)
  BY <1>1 DEF FileValues
<1>3. ASSUME NEW t \in 1 .. k
      PROVE  ss[t] \in Seq(V) /\ ToSet(ss[t]) = {v \in V : v[1] = t}
  <2>1. t \in DOMAIN types
    BY <1>1
  <2>2. CASE FileOf(t) = f
    <3>1. ss[t] = EnumValues(t)
      BY <2>2 DEF FileOf
    <3>2. \A i \in DOMAIN values[t] : <<t, i>> \in V
      BY <2>1, <2>2, ValueFacts DEF OwnValues
    <3>3. {<<t, i>> : i \in DOMAIN values[t]} = {v \in V : v[1] = t}
      <4>1. \A v \in V : v[1] = t => v = <<t, v[2]>> /\ v[2] \in DOMAIN values[t]
        BY ValueFacts DEF OwnValues
      <4> HIDE DEF V
      <4> QED BY <3>2, <4>1
    <3> HIDE DEF V, ss
    <3> QED BY <2>1, <3>1, <3>2, <3>3, EnumValuesFacts
  <2>3. CASE FileOf(t) # f
    <3>1. ss[t] = <<>>
      BY <2>3 DEF FileOf
    <3>2. {v \in V : v[1] = t} = {}
      BY <2>3 DEF OwnValues
    <3>3. <<>> \in Seq(V) /\ ToSet(<<>>) = {}
      BY DEF ToSet
    <3> QED BY <3>1, <3>2, <3>3
  <2> QED BY <2>2, <2>3
<1>4. \A v \in V : v[1] \in 1 .. k
  BY <1>1, ValueFacts DEF OwnValues
<1>5. DOMAIN ss = 1 .. k
  OBVIOUS
<1> HIDE DEF V, k
<1>6. ss \in Seq(Seq(V))
  BY <1>1, <1>3
<1> HIDE DEF ss
<1>7. FlattenSeq(ss) \in Seq(V) /\ ToSet(FlattenSeq(ss)) = UNION {ToSet(ss[i]) : i \in DOMAIN ss}
  BY <1>6, FlattenFacts
<1>8. UNION {ToSet(ss[i]) : i \in 1 .. k} = V
  <2>1. ASSUME NEW v \in V PROVE \E i \in 1 .. k : v \in ToSet(ss[i])
    BY <1>3, <1>4
  <2>2. \A i \in 1 .. k : ToSet(ss[i]) \subseteq V
    BY <1>3
  <2> QED BY <2>1, <2>2
<1> QED BY <1>2, <1>5, <1>7, <1>8 DEF V

\* a pass visits the types of a file in their order
LEMMA FileValuesAreByType ==
    ASSUME TypesInv, NEW f
    PROVE  ByNumber(FileValues(f))
<1> DEFINE k == Len(types)
           ss == [t \in 1 .. k |-> IF types[t].file = f THEN EnumValues(t) ELSE <<>>]
<1>1. k \in Nat /\ DOMAIN types = 1 .. k
  BY TypeFacts DEF TypesInv
<1>2. FileValues(f) = FlattenSeq(ss)
  BY <1>1 DEF FileValues
<1>3. ASSUME NEW t \in 1 .. k
      PROVE  ss[t] \in Seq(AllValues) /\ \A i \in DOMAIN ss[t] : ss[t][i][1] = t
  <2>1. EnumValues(t) \in Seq(AllValues)
    BY <1>1, <1>3, ValueFacts, EnumValuesFacts
  <2>2. \A i \in DOMAIN EnumValues(t) : EnumValues(t)[i][1] = t
    BY DEF EnumValues
  <2>3. <<>> \in Seq(AllValues) /\ DOMAIN <<>> = {}
    OBVIOUS
  <2> QED BY <2>1, <2>2, <2>3
<1>4. DOMAIN ss = 1 .. k
  OBVIOUS
<1>5. PICK V : V = AllValues
  OBVIOUS
<1> HIDE DEF k
<1>6. ss \in Seq(Seq(V))
  BY <1>1, <1>3, <1>5
<1> HIDE DEF ss
<1> QED BY <1>2, <1>3, <1>4, <1>6, FlattenIsByNumber

-----------------------------------------------------------------------------
(* The graph of expressions, whatever pass works on it.                    *)

Fields == {"shape", "op", "args", "enum", "name", "ref", "evaluated", "kind", "value",
           "completed", "owner"}

\* an object that has all fields, and refers to what is there and near
IsExpression(e) ==
    /\ DOMAIN exprs[e] = Fields
    /\ exprs[e].args \in Seq(Expressions)
    /\ exprs[e].owner \in DOMAIN types
    /\ \A i \in DOMAIN exprs[e].args : exprs[exprs[e].args[i]].owner = exprs[e].owner
    /\ exprs[e].enum # 0 =>
         exprs[e].enum \in DOMAIN types /\ FileOf(exprs[e].enum) <= FileOf(exprs[e].owner)
    /\ exprs[e].ref # NoValue => exprs[e].ref \in AllValues /\ FileOf(exprs[e].ref[1]) <= file

ExprsInv == exprs \in Seq(ToSet(exprs)) /\ \A e \in Expressions : IsExpression(e)

\* a value has an expression of its type, at the latest when its file has been filled in
ValuesInv ==
    \A v \in AllValues : constExpr(v) # 0 =>
        constExpr(v) \in Expressions /\ exprs[constExpr(v)].owner = v[1]
Due(v) ==
    \/ FileOf(v[1]) < file
    \/ FileOf(v[1]) = file /\ (phase = "resolveInheritance" => v \notin ToSet(todo))
FilledInv == \A v \in AllValues : Due(v) => constExpr(v) # 0

PassInv ==
    /\ file \in {types[t].file : t \in DOMAIN types}
    /\ phase \in ToSet(Phases) \cup {"accepted"} \cup Failures \cup Aborts
    /\ todo \in Seq(OwnValues(file))
    /\ autofilled \subseteq AllValues

\* the walk is where there are expressions for it
IsNear(e) == e \in Expressions /\ FileOf(exprs[e].owner) <= file
FramesInv ==
    /\ frames \in Seq(FrameType)
    /\ \A i \in DOMAIN frames : IsNear(frames[i].expr)
    /\ frames # <<>> => todo # <<>> /\ phase # "resolveInheritance"
    /\ visited \subseteq Expressions /\ stack \subseteq visited

GraphInv == TypesInv /\ ExprsInv /\ ValuesInv /\ FilledInv /\ PassInv /\ FramesInv

LEMMA GraphInvGivesGraphOK == GraphInv => GraphOK
<1> SUFFICES ASSUME GraphInv PROVE GraphOK
  OBVIOUS
<1>1. \A e \in Expressions : exprs[e].args \in Seq(Expressions) /\ exprs[e].ref \in AllValues \cup {NoValue}
  BY DEF GraphInv, ExprsInv, IsExpression
<1>2. \A v \in AllValues : constExpr(v) \in Expressions \cup {0}
  BY DEF GraphInv, ValuesInv
<1>3. ToSet(todo) \subseteq AllValues
  <2>1. todo \in Seq(OwnValues(file)) /\ OwnValues(file) \subseteq AllValues
    BY DEF GraphInv, PassInv, OwnValues
  <2> QED BY <2>1 DEF ToSet
<1> QED BY <1>1, <1>2, <1>3 DEF GraphOK, GraphInv, PassInv, FramesInv, FrameType

\* what a step replaces in a sequence stays a sequence of its elements
LEMMA SequenceOfOwn ==
    ASSUME NEW s, NEW n \in Nat, DOMAIN s = 1 .. n, s = [i \in 1 .. n |-> s[i]]
    PROVE  s \in Seq(ToSet(s))
<1> DEFINE D == ToSet(s)
           w == [i \in 1 .. n |-> s[i]]
<1>1. \A i \in 1 .. n : s[i] \in D
  BY DEF ToSet
<1> HIDE DEF D
<1>2. w \in Seq(D)
  BY <1>1
<1>3. s = w
  OBVIOUS
<1> HIDE DEF w
<1> QED BY <1>2, <1>3 DEF D

LEMMA ReplacedOne ==
    ASSUME NEW s, s \in Seq(ToSet(s)), NEW e \in DOMAIN s, NEW x
    PROVE  LET u == [s EXCEPT ![e] = x] IN
             /\ u \in Seq(ToSet(u)) /\ DOMAIN u = DOMAIN s /\ u[e] = x
             /\ \A d \in DOMAIN s : d # e => u[d] = s[d]
<1> DEFINE u == [s EXCEPT ![e] = x]
           n == Len(s)
<1>1. DOMAIN s = 1 .. n /\ n \in Nat
  OBVIOUS
<1>2. DOMAIN u = DOMAIN s /\ u[e] = x /\ \A d \in DOMAIN s : d # e => u[d] = s[d]
  OBVIOUS
<1>3. u = [i \in 1 .. n |-> u[i]]
  BY <1>1
<1> HIDE DEF u, n
<1>4. u \in Seq(ToSet(u))
  BY <1>1, <1>2, <1>3, SequenceOfOwn
<1> QED BY <1>2, <1>4 DEF u

\* the passes change no more of an object than what it refers to and its result
SameObjects ==
    /\ UNCHANGED <<types, values, autofilled>>
    /\ exprs' \in Seq(ToSet(exprs')) /\ DOMAIN exprs' = DOMAIN exprs
    /\ \A e \in Expressions :
         /\ DOMAIN exprs'[e] = Fields
         /\ exprs'[e].args = exprs[e].args /\ exprs'[e].owner = exprs[e].owner
         /\ exprs'[e].enum = exprs[e].enum /\ exprs'[e].shape = exprs[e].shape
         /\ exprs'[e].name = exprs[e].name /\ exprs'[e].op = exprs[e].op

LEMMA SameObjectsFacts ==
    ASSUME GraphInv, SameObjects
    PROVE  /\ Expressions' = Expressions /\ AllValues' = AllValues /\ FrameType' = FrameType
           /\ \A t : FileOf(t)' = FileOf(t)
           /\ \A f : OwnValues(f)' = OwnValues(f) /\ FileValues(f)' = FileValues(f)
           /\ \A v : constExpr(v)' = constExpr(v)
           /\ TypesInv' /\ ValuesInv' /\ LastFile' = LastFile
<1>1. types' = types /\ values' = values /\ autofilled' = autofilled
  BY DEF SameObjects
<1>2. Expressions' = Expressions
  BY DEF SameObjects, Expressions
<1>3. AllValues' = AllValues
  BY <1>1 DEF AllValues
<1>4. \A t : FileOf(t)' = FileOf(t)
  BY <1>1 DEF FileOf
<1>5. \A f : OwnValues(f)' = OwnValues(f)
  BY <1>3, <1>4 DEF OwnValues
<1>6. \A f : FileValues(f)' = FileValues(f)
  BY <1>1 DEF FileValues, EnumValues
<1>7. \A v : constExpr(v)' = constExpr(v)
  BY <1>1 DEF constExpr
<1>8. TypesInv'
  BY <1>1 DEF GraphInv, TypesInv, AreTypes, TypeType
<1>9. ValuesInv'
  <2>1. \A e \in Expressions : exprs'[e].owner = exprs[e].owner
    BY DEF SameObjects
  <2> QED BY <1>2, <1>3, <1>7, <2>1 DEF GraphInv, ValuesInv
<1>10. FrameType' = FrameType /\ LastFile' = LastFile
  BY <1>1, <1>2 DEF FrameType, LastFile
<1> QED BY <1>1, <1>2, <1>3, <1>4, <1>5, <1>6, <1>7, <1>8, <1>9, <1>10

LEMMA ProgramStays ==
    ASSUME GraphInv, UNCHANGED program
    PROVE  SameObjects
BY DEF program, SameObjects, GraphInv, ExprsInv, IsExpression, Expressions

\* a reference to a value that is near keeps the graph
LEMMA ExprsStay ==
    ASSUME GraphInv, SameObjects, file' \in Nat, file <= file',
           \A e \in Expressions :
              \/ exprs'[e].ref = exprs[e].ref
              \/ exprs'[e].ref # NoValue => exprs'[e].ref \in AllValues /\ FileOf(exprs'[e].ref[1]) <= file
    PROVE  ExprsInv'
<1>1. /\ Expressions' = Expressions /\ AllValues' = AllValues
      /\ types' = types /\ \A t : FileOf(t)' = FileOf(t)
  BY SameObjectsFacts DEF SameObjects
<1>2. file \in Nat /\ \A v \in AllValues : FileOf(v[1]) \in Nat
  <2>1. \A t \in DOMAIN types : types[t].file \in Nat
    BY TypeFacts DEF GraphInv, TypesInv, FileOf
  <2> QED BY <2>1, ValueFacts DEF GraphInv, PassInv
<1>3. ASSUME NEW e \in Expressions PROVE IsExpression(e)'
  <2>1. IsExpression(e)
    BY DEF GraphInv, ExprsInv
  <2>2. /\ DOMAIN exprs'[e] = Fields
        /\ exprs'[e].args = exprs[e].args /\ exprs'[e].owner = exprs[e].owner
        /\ exprs'[e].enum = exprs[e].enum
    BY DEF SameObjects
  <2>3. \A i \in DOMAIN exprs[e].args : exprs'[exprs[e].args[i]].owner = exprs[exprs[e].args[i]].owner
    <3>1. \A i \in DOMAIN exprs[e].args : exprs[e].args[i] \in Expressions
      BY <2>1 DEF IsExpression
    <3> QED BY <3>1 DEF SameObjects
  <2>4. exprs'[e].ref # NoValue => exprs'[e].ref \in AllValues /\ FileOf(exprs'[e].ref[1]) <= file'
    <3>1. exprs'[e].ref # NoValue => exprs'[e].ref \in AllValues /\ FileOf(exprs'[e].ref[1]) <= file
      BY <2>1 DEF IsExpression
    <3> QED BY <1>2, <3>1
  <2>5. exprs'[e].enum # 0 => exprs'[e].enum \in DOMAIN types /\ FileOf(exprs'[e].enum) <= FileOf(exprs'[e].owner)
    BY <2>1, <2>2 DEF IsExpression
  <2>6. /\ exprs'[e].args \in Seq(Expressions) /\ exprs'[e].owner \in DOMAIN types
        /\ \A i \in DOMAIN exprs'[e].args : exprs'[exprs'[e].args[i]].owner = exprs'[e].owner
    BY <2>1, <2>2, <2>3 DEF IsExpression
  <2> QED BY <1>1, <2>2, <2>4, <2>5, <2>6 DEF IsExpression
<1> QED BY <1>1, <1>3 DEF ExprsInv, SameObjects

\* the value whose expressions a pass is at is of the file
LEMMA TodoFacts ==
    ASSUME GraphInv, todo # <<>>
    PROVE  /\ Head(todo) \in OwnValues(file) /\ Head(todo) \in AllValues
           /\ Tail(todo) \in Seq(OwnValues(file))
           /\ ToSet(todo) \subseteq {Head(todo)} \cup ToSet(Tail(todo))
           /\ scope \in DOMAIN types /\ FileOf(scope) = file
<1>1. ASSUME NEW T, NEW s \in Seq(T), s # <<>>
      PROVE  /\ Head(s) \in T /\ Tail(s) \in Seq(T) /\ Len(Tail(s)) = Len(s) - 1
             /\ Len(s) \in Nat /\ DOMAIN s = 1 .. Len(s) /\ DOMAIN Tail(s) = 1 .. Len(Tail(s))
             /\ s[1] = Head(s) /\ \A i \in 1 .. Len(s) - 1 : Tail(s)[i] = s[i + 1]
  BY <1>1
<1> DEFINE V == OwnValues(file)
<1>2. todo \in Seq(V)
  BY DEF GraphInv, PassInv
<1> HIDE DEF V
<1>3. /\ Head(todo) \in V /\ Tail(todo) \in Seq(V) /\ Len(Tail(todo)) = Len(todo) - 1
      /\ Len(todo) \in Nat /\ DOMAIN todo = 1 .. Len(todo) /\ DOMAIN Tail(todo) = 1 .. Len(Tail(todo))
      /\ todo[1] = Head(todo) /\ \A i \in 1 .. Len(todo) - 1 : Tail(todo)[i] = todo[i + 1]
  BY <1>1, <1>2
<1>4. ASSUME NEW i \in DOMAIN todo, i # 1 PROVE todo[i] \in ToSet(Tail(todo))
  <2>1. i - 1 \in 1 .. Len(todo) - 1 /\ (i - 1) + 1 = i
    BY <1>3, <1>4
  <2>2. i - 1 \in DOMAIN Tail(todo) /\ Tail(todo)[i - 1] = todo[i]
    BY <1>3, <2>1
  <2> QED BY <2>2 DEF ToSet
<1>5. ToSet(todo) \subseteq {Head(todo)} \cup ToSet(Tail(todo))
  BY <1>3, <1>4 DEF ToSet
<1>6. scope \in DOMAIN types /\ FileOf(scope) = file /\ Head(todo) \in AllValues
  <2>1. Head(todo) \in AllValues /\ FileOf(Head(todo)[1]) = file
    BY <1>3 DEF V, OwnValues
  <2> QED BY <2>1, ValueFacts DEF GraphInv, scope
<1> QED BY <1>3, <1>5, <1>6 DEF V

\* a value of this file or an earlier one has an expression of its type
LEMMA NearValueFacts ==
    ASSUME GraphInv, phase # "resolveInheritance", NEW v \in AllValues, FileOf(v[1]) <= file
    PROVE  constExpr(v) \in Expressions /\ exprs[constExpr(v)].owner = v[1]
<1>1. FileOf(v[1]) \in Nat /\ \A t \in DOMAIN types : FileOf(t) \in Nat
  BY ValueFacts, TypeFacts DEF GraphInv, TypesInv
<1>2. file \in Nat
  BY <1>1 DEF GraphInv, PassInv, FileOf
<1>3. Due(v)
  BY <1>1, <1>2 DEF Due
<1> QED BY <1>3 DEF GraphInv, FilledInv, ValuesInv

\* a dependency is an operand, of the same type, or what a reference leads to
LEMMA DependencyFacts ==
    ASSUME GraphInv, NEW e \in Expressions, NEW d \in Deps(e)
    PROVE  \/ d \in Expressions /\ exprs[d].owner = exprs[e].owner
           \/ exprs[e].ref # NoValue /\ d = constExpr(exprs[e].ref)
<1>1. PICK args, r, D : args = exprs[e].args /\ r = constExpr(exprs[e].ref) /\ D = Expressions \cup {r}
  OBVIOUS
<1>2. args \in Seq(Expressions) /\ \A i \in DOMAIN args : exprs[args[i]].owner = exprs[e].owner
  BY <1>1 DEF GraphInv, ExprsInv, IsExpression
<1>3. \A x \in ToSet(args) : x \in Expressions /\ exprs[x].owner = exprs[e].owner
  BY <1>2 DEF ToSet
<1>4. args \in Seq(D) /\ <<r>> \in Seq(D) /\ <<>> \in Seq(D)
  BY <1>1, <1>2
<1>5. ToSet(<<r>>) = {r} /\ ToSet(<<>>) = {}
  BY DEF ToSet
<1>6. Dependencies(e) = args \o (IF exprs[e].ref = NoValue THEN <<>> ELSE <<r>>)
  BY <1>1 DEF Dependencies
<1>7. /\ ToSet(args \o <<r>>) = ToSet(args) \cup {r}
      /\ ToSet(args \o <<>>) = ToSet(args)
  <2>1. \A s \in Seq(D) : ToSet(args \o s) = ToSet(args) \cup ToSet(s)
    BY <1>4, ConcatElements
  <2> QED BY <1>4, <1>5, <2>1
<1>8. Deps(e) = ToSet(args \o (IF exprs[e].ref = NoValue THEN <<>> ELSE <<r>>))
  BY <1>6 DEF Deps
<1>9. d \in ToSet(args) \/ (exprs[e].ref # NoValue /\ d = r)
  <2>1. CASE exprs[e].ref = NoValue
    BY <1>7, <1>8, <2>1
  <2>2. CASE exprs[e].ref # NoValue
    BY <1>7, <1>8, <2>2
  <2> QED BY <2>1, <2>2
<1> QED BY <1>1, <1>3, <1>9

\* what the next call is for is there
LEMMA CalledIsNear ==
    ASSUME GraphInv, AtRoot \/ AtDependency, phase # "resolveInheritance"
    PROVE  IsNear(Called)
<1>1. ASSUME NEW v \in AllValues, FileOf(v[1]) <= file
      PROVE  IsNear(constExpr(v))
  BY <1>1, NearValueFacts DEF IsNear
<1>2. CASE frames = <<>>
  <2>1. todo # <<>> /\ Called = constExpr(Head(todo))
    BY <1>2 DEF AtRoot, AtDependency, Called
  <2>2. Head(todo) \in AllValues /\ FileOf(Head(todo)[1]) = file
    BY <2>1, TodoFacts DEF OwnValues
  <2>3. file <= file
    <3>1. \A v \in AllValues : FileOf(v[1]) \in Nat
      BY ValueFacts DEF GraphInv
    <3> QED BY <2>2, <3>1
  <2> QED BY <1>1, <2>1, <2>2, <2>3
<1>3. CASE frames # <<>>
  <2>1. PICK f, d : f = frames[Len(frames)] /\ d = Called
    OBVIOUS
  <2>2. Awaits(f, d)
    BY <1>3, <2>1, GraphInvGivesGraphOK, CallFacts
  <2>3. IsNear(f.expr)
    <3>1. Len(frames) \in DOMAIN frames
      BY <1>3, GraphInvGivesGraphOK, FrameFacts
    <3> QED BY <2>1, <3>1 DEF GraphInv, FramesInv
  <2>4. d \in Deps(f.expr)
    BY <2>2 DEF Awaits, Deps, ToSet
  <2>5. CASE d \in Expressions /\ exprs[d].owner = exprs[f.expr].owner
    BY <2>1, <2>3, <2>5 DEF IsNear
  <2>6. CASE exprs[f.expr].ref # NoValue /\ d = constExpr(exprs[f.expr].ref)
    <3>1. exprs[f.expr].ref \in AllValues /\ FileOf(exprs[f.expr].ref[1]) <= file
      BY <2>3, <2>6 DEF GraphInv, ExprsInv, IsExpression, IsNear
    <3> QED BY <1>1, <2>1, <2>6, <3>1
  <2> QED BY <2>3, <2>4, <2>5, <2>6, DependencyFacts DEF IsNear
<1> QED BY <1>2, <1>3

-----------------------------------------------------------------------------
(* The steps keep the graph.                                               *)

Running == ToSet(Phases) \ {"resolveInheritance"}
Ended == {"accepted"} \cup Failures \cup Aborts

LEMMA RunningNames ==
    /\ Running = {"lookup", "checkAcyclic", "validate", "evaluate", "complete"}
    /\ "resolveInheritance" \notin Running \cup Ended
    /\ Running \cap Ended = {}
    /\ Passes \subseteq Running
BY PhaseNames DEF Running, Ended, Failures, Aborts, Passes

\* while a pass walks, or stops, every value that is due stays so
LEMMA PassStays ==
    ASSUME GraphInv, SameObjects, file' = file, phase \in Running,
           phase' \in Running \cup Ended,
           todo' = todo \/ (todo # <<>> /\ todo' = Tail(todo))
    PROVE  FilledInv' /\ PassInv'
<1>1. /\ AllValues' = AllValues /\ types' = types /\ autofilled' = autofilled
      /\ \A t : FileOf(t)' = FileOf(t)
      /\ \A v : constExpr(v)' = constExpr(v)
      /\ OwnValues(file') = OwnValues(file)
  BY SameObjectsFacts DEF SameObjects
<1>2. OwnValues(file)' = OwnValues(file)
  BY <1>1, SameObjectsFacts DEF OwnValues
<1>3. phase # "resolveInheritance" /\ phase' # "resolveInheritance"
  BY RunningNames
<1>4. \A v : Due(v)' => Due(v)
  BY <1>1, <1>3 DEF Due
<1>5. FilledInv'
  BY <1>1, <1>4 DEF FilledInv, GraphInv
<1>6. todo' \in Seq(OwnValues(file))
  BY TodoFacts DEF GraphInv, PassInv
<1>7. phase' \in ToSet(Phases) \cup {"accepted"} \cup Failures \cup Aborts
  BY DEF Running, Ended
<1> QED BY <1>1, <1>2, <1>5, <1>6, <1>7 DEF PassInv, GraphInv

LEMMA WalkStays ==
    ASSUME GraphInv, SameObjects, file' = file, phase' # "resolveInheritance",
           todo' = todo, UNCHANGED walk
    PROVE  FramesInv'
<1>1. /\ Expressions' = Expressions /\ FrameType' = FrameType
      /\ \A t : FileOf(t)' = FileOf(t)
      /\ \A e \in Expressions : exprs'[e].owner = exprs[e].owner
  BY SameObjectsFacts DEF SameObjects
<1>2. \A e : IsNear(e) => IsNear(e)'
  BY <1>1 DEF IsNear
<1>3. frames' = frames /\ visited' = visited /\ stack' = stack
  BY DEF walk
<1> QED BY <1>1, <1>2, <1>3 DEF FramesInv, GraphInv

LEMMA EnterKeeps ==
    ASSUME GraphInv, SameObjects, file' = file, phase \in Running, phase' = phase,
           AtRoot \/ AtDependency, Enter, stack' \subseteq visited'
    PROVE  FilledInv' /\ PassInv' /\ FramesInv'
<1> DEFINE u == Called
           f == [expr |-> u, next |-> 1]
           n == Len(frames)
<1>1. /\ Expressions' = Expressions /\ FrameType' = FrameType
      /\ \A t : FileOf(t)' = FileOf(t)
      /\ \A e \in Expressions : exprs'[e].owner = exprs[e].owner
  BY SameObjectsFacts DEF SameObjects
<1>2. \A e : IsNear(e) => IsNear(e)'
  BY <1>1 DEF IsNear
<1>3. IsNear(u)
  BY CalledIsNear, RunningNames
<1>4. frames' = Append(frames, f) /\ visited' = visited \cup {u} /\ todo' = todo
  BY DEF Enter
<1>5. f \in FrameType /\ f.expr = u
  BY <1>3 DEF FrameType, IsNear
<1>6. frames \in Seq(FrameType) /\ n \in Nat /\ DOMAIN frames = 1 .. n
  BY GraphInvGivesGraphOK, FrameFacts
<1> HIDE DEF f, u, n
<1>7. /\ frames' \in Seq(FrameType) /\ DOMAIN frames' = 1 .. (n + 1)
      /\ \A i \in 1 .. n : frames'[i] = frames[i]
      /\ frames'[n + 1] = f
  BY <1>4, <1>5, <1>6 DEF n
<1>8. \A i \in DOMAIN frames' : IsNear(frames'[i].expr)
  <2>1. \A i \in 1 .. (n + 1) : i \in 1 .. n \/ i = n + 1
    BY <1>6
  <2>2. \A i \in 1 .. n : IsNear(frames[i].expr)
    BY <1>6 DEF GraphInv, FramesInv
  <2> QED BY <1>3, <1>5, <1>7, <2>1, <2>2
<1>9. todo # <<>> /\ phase # "resolveInheritance"
  BY RunningNames DEF AtRoot, AtDependency, GraphInv, FramesInv
<1>10. visited' \subseteq Expressions
  BY <1>3, <1>4 DEF GraphInv, FramesInv, IsNear
<1>11. FramesInv'
  BY <1>1, <1>2, <1>4, <1>7, <1>8, <1>9, <1>10 DEF FramesInv
<1> QED BY <1>4, <1>11, PassStays

\* the activations without the innermost one
LEMMA FrontFacts ==
    ASSUME GraphInv, frames # <<>>
    PROVE  /\ Front(frames) \in Seq(FrameType) /\ Len(Front(frames)) = Len(frames) - 1
           /\ DOMAIN Front(frames) = 1 .. Len(frames) - 1
           /\ \A i \in 1 .. Len(frames) - 1 : Front(frames)[i] = frames[i]
<1>1. frames \in Seq(FrameType)
  BY DEF GraphInv, FramesInv
<1> DEFINE n == Len(frames)
<1>2. n \in Nat \ {0} /\ DOMAIN frames = 1 .. n
  BY <1>1
<1>3. Front(frames) = SubSeq(frames, 1, n - 1)
  BY DEF Front
<1> HIDE DEF n
<1>4. /\ Front(frames) \in Seq(FrameType) /\ Len(Front(frames)) = n - 1
      /\ \A i \in 1 .. n - 1 : Front(frames)[i] = frames[i]
  BY <1>1, <1>2, <1>3 DEF n
<1>5. DOMAIN Front(frames) = 1 .. n - 1
  BY <1>4
<1> QED BY <1>4, <1>5 DEF n

LEMMA ReturnKeepsGraph ==
    ASSUME GraphInv, SameObjects, file' = file, phase \in Running, phase' = phase,
           NEW callers, (callers = frames /\ todo # <<>>) \/ (frames # <<>> /\ callers = Front(frames)),
           ReturnTo(callers), visited' = visited, stack' \subseteq stack
    PROVE  FilledInv' /\ PassInv' /\ FramesInv'
<1>1. /\ Expressions' = Expressions /\ FrameType' = FrameType
      /\ \A t : FileOf(t)' = FileOf(t)
      /\ \A e \in Expressions : exprs'[e].owner = exprs[e].owner
  BY SameObjectsFacts DEF SameObjects
<1>2. \A e : IsNear(e) => IsNear(e)'
  BY <1>1 DEF IsNear
<1>3. frames \in Seq(FrameType) /\ Len(frames) \in Nat /\ DOMAIN frames = 1 .. Len(frames)
  BY GraphInvGivesGraphOK, FrameFacts
<1>4. /\ callers \in Seq(FrameType) /\ Len(callers) \in Nat
      /\ \A i \in 1 .. Len(callers) : i \in DOMAIN frames /\ callers[i] = frames[i]
  <2>1. CASE callers = frames
    BY <1>3, <2>1
  <2>2. CASE frames # <<>> /\ callers = Front(frames)
    BY <1>3, <2>2, FrontFacts
  <2> QED BY <2>1, <2>2
<1>5. todo # <<>>
  BY DEF GraphInv, FramesInv
<1>6. /\ frames' \in Seq(FrameType) /\ DOMAIN frames' = 1 .. Len(callers)
      /\ \A i \in 1 .. Len(callers) : frames'[i].expr = callers[i].expr
  BY <1>4, ReturnFacts
<1>7. \A i \in DOMAIN frames' : IsNear(frames'[i].expr)
  BY <1>4, <1>6 DEF GraphInv, FramesInv
<1>8. todo' = todo \/ (todo # <<>> /\ todo' = Tail(todo))
  BY <1>5 DEF ReturnTo
<1>9. frames' # <<>> => todo' # <<>>
  BY <1>5 DEF ReturnTo
<1>10. phase' # "resolveInheritance"
  BY RunningNames
<1>11. FramesInv'
  BY <1>1, <1>2, <1>6, <1>7, <1>9, <1>10 DEF FramesInv, GraphInv
<1> QED BY <1>8, <1>11, PassStays

\* the steps that leave the program as it is
LEMMA WalkKeepsGraph ==
    ASSUME GraphInv,
           \/ PassOver \/ Leave \/ FailLookup
           \/ CheckAcyclic \/ CheckedBefore \/ FindCycle \/ LeaveAcyclic
           \/ Validate \/ FailValidate
           \/ Descend \/ IsEvaluated \/ Trap
    PROVE  GraphInv'
<1>1. UNCHANGED program /\ file' = file
  BY DEF PassOver, Leave, FailLookup, CheckAcyclic, CheckedBefore, FindCycle, LeaveAcyclic,
         Validate, FailValidate, Descend, IsEvaluated, Trap, End
<1>2. SameObjects
  BY <1>1, ProgramStays
<1>3. TypesInv' /\ ValuesInv'
  BY <1>2, SameObjectsFacts
<1>4. ExprsInv'
  <2>1. file' \in Nat /\ file <= file'
    <3>1. \A t \in DOMAIN types : types[t].file \in Nat
      BY TypeFacts DEF GraphInv, TypesInv, FileOf
    <3> QED BY <1>1, <3>1 DEF GraphInv, PassInv
  <2>2. \A e \in Expressions : exprs'[e].ref = exprs[e].ref
    BY <1>1 DEF program
  <2> QED BY <1>2, <2>1, <2>2, ExprsStay
<1>5. ASSUME PassOver
      PROVE  FilledInv' /\ PassInv' /\ FramesInv'
  <2>1. PICK p \in Passes : Calls(p)
    BY <1>5 DEF PassOver
  <2>2. /\ phase \in Running /\ phase' = phase /\ file' = file /\ (AtRoot \/ AtDependency)
        /\ ReturnTo(frames) /\ visited' = visited /\ stack' = stack
    BY <1>5, <2>1, RunningNames DEF PassOver, Calls
  <2>3. todo # <<>>
    BY <2>2 DEF AtRoot, AtDependency, GraphInv, FramesInv
  <2> QED BY <1>2, <2>2, <2>3, ReturnKeepsGraph
<1>6. ASSUME CheckedBefore
      PROVE  FilledInv' /\ PassInv' /\ FramesInv'
  <2>2. /\ phase \in Running /\ phase' = phase /\ file' = file /\ (AtRoot \/ AtDependency)
        /\ ReturnTo(frames) /\ visited' = visited /\ stack' = stack
    BY <1>6, RunningNames DEF CheckedBefore, Calls
  <2>3. todo # <<>>
    BY <2>2 DEF AtRoot, AtDependency, GraphInv, FramesInv
  <2> QED BY <1>2, <2>2, <2>3, ReturnKeepsGraph
<1>7. ASSUME Leave
      PROVE  FilledInv' /\ PassInv' /\ FramesInv'
  <2>1. PICK p \in Passes : Leaves(p)
    BY <1>7 DEF Leave
  <2>2. /\ phase \in Running /\ phase' = phase /\ file' = file /\ frames # <<>>
        /\ ReturnTo(Front(frames)) /\ visited' = visited /\ stack' = stack
    BY <1>7, <2>1, RunningNames DEF Leave, Leaves
  <2> QED BY <1>2, <2>2, ReturnKeepsGraph
<1>8. ASSUME LeaveAcyclic
      PROVE  FilledInv' /\ PassInv' /\ FramesInv'
  <2>2. /\ phase \in Running /\ phase' = phase /\ file' = file /\ frames # <<>>
        /\ ReturnTo(Front(frames)) /\ visited' = visited /\ stack' \subseteq stack
    BY <1>8, RunningNames DEF LeaveAcyclic, Leaves
  <2> QED BY <1>2, <2>2, ReturnKeepsGraph
<1>9. ASSUME IsEvaluated
      PROVE  FilledInv' /\ PassInv' /\ FramesInv'
  <2>2. /\ phase \in Running /\ phase' = phase /\ file' = file /\ frames # <<>>
        /\ ReturnTo(Front(frames)) /\ visited' = visited /\ stack' = stack
    BY <1>9, RunningNames DEF IsEvaluated, Leaves
  <2> QED BY <1>2, <2>2, ReturnKeepsGraph
<1>10. ASSUME CheckAcyclic \/ Validate \/ Descend
       PROVE  FilledInv' /\ PassInv' /\ FramesInv'
  <2>1. /\ phase \in Running /\ phase' = phase /\ file' = file /\ (AtRoot \/ AtDependency) /\ Enter
    BY <1>10, RunningNames DEF CheckAcyclic, Validate, Descend, Calls
  <2>2. stack' \subseteq stack \cup {Called}
    BY <1>10 DEF CheckAcyclic, Validate, Descend
  <2>3. stack' \subseteq visited'
    BY <2>1, <2>2 DEF Enter, GraphInv, FramesInv
  <2> QED BY <1>2, <2>1, <2>3, EnterKeeps
<1>11. ASSUME FailLookup \/ FindCycle \/ FailValidate \/ Trap
       PROVE  FilledInv' /\ PassInv' /\ FramesInv'
  <2>1. /\ phase \in Running /\ file' = file /\ todo' = todo /\ UNCHANGED walk
    BY <1>11, RunningNames DEF FailLookup, FindCycle, FailValidate, Trap, Calls, Leaves, End
  <2>2. phase' \in Ended
    BY <1>11 DEF FailLookup, FindCycle, FailValidate, Trap, End, Ended, Failures, Aborts
  <2> QED BY <1>2, <2>1, <2>2, PassStays, WalkStays, RunningNames
<1> QED BY <1>3, <1>4, <1>5, <1>6, <1>7, <1>8, <1>9, <1>10, <1>11 DEF GraphInv

LEMMA StutterKeepsGraph ==
    ASSUME GraphInv, UNCHANGED vars
    PROVE  GraphInv'
<1>1. /\ types' = types /\ exprs' = exprs /\ values' = values /\ autofilled' = autofilled
      /\ file' = file /\ phase' = phase /\ todo' = todo
      /\ frames' = frames /\ visited' = visited /\ stack' = stack
  BY DEF vars, program, pass, walk
<1>2. SameObjects
  BY <1>1, ProgramStays DEF program
<1>3. /\ Expressions' = Expressions /\ AllValues' = AllValues /\ FrameType' = FrameType
      /\ \A t : FileOf(t)' = FileOf(t)
      /\ \A v : constExpr(v)' = constExpr(v)
      /\ TypesInv' /\ ValuesInv' /\ LastFile' = LastFile
      /\ OwnValues(file)' = OwnValues(file)
  BY <1>1, <1>2, SameObjectsFacts DEF OwnValues
<1>4. ExprsInv'
  BY <1>1, <1>3 DEF GraphInv, ExprsInv, IsExpression
<1>5. FilledInv'
  BY <1>1, <1>3 DEF GraphInv, FilledInv, Due
<1>6. PassInv'
  BY <1>1, <1>3 DEF GraphInv, PassInv
<1>7. FramesInv'
  BY <1>1, <1>3 DEF GraphInv, FramesInv, IsNear
<1> QED BY <1>3, <1>4, <1>5, <1>6, <1>7 DEF GraphInv

\* one object is replaced by one that differs in what a pass may change
LEMMA ReplaceKeepsGraph ==
    ASSUME GraphInv, NEW e \in Expressions, NEW x,
           exprs' = [exprs EXCEPT ![e] = x], UNCHANGED <<types, values, autofilled, file>>,
           DOMAIN x = Fields, x.args = exprs[e].args, x.owner = exprs[e].owner,
           x.enum = exprs[e].enum, x.shape = exprs[e].shape, x.name = exprs[e].name,
           x.op = exprs[e].op,
           \/ x.ref = exprs[e].ref
           \/ x.ref # NoValue => x.ref \in AllValues /\ FileOf(x.ref[1]) <= file
    PROVE  /\ SameObjects /\ TypesInv' /\ ValuesInv' /\ ExprsInv'
           /\ exprs'[e] = x /\ \A d \in Expressions : d # e => exprs'[d] = exprs[d]
<1>1. exprs \in Seq(ToSet(exprs)) /\ \A d \in Expressions : IsExpression(d)
  BY DEF GraphInv, ExprsInv
<1>2. /\ exprs' \in Seq(ToSet(exprs')) /\ DOMAIN exprs' = DOMAIN exprs /\ exprs'[e] = x
      /\ \A d \in DOMAIN exprs : d # e => exprs'[d] = exprs[d]
  <2>1. e \in DOMAIN exprs
    BY DEF Expressions
  <2> QED BY <1>1, <2>1, ReplacedOne
<1>3. ASSUME NEW d \in Expressions
      PROVE  /\ DOMAIN exprs'[d] = Fields
             /\ exprs'[d].args = exprs[d].args /\ exprs'[d].owner = exprs[d].owner
             /\ exprs'[d].enum = exprs[d].enum /\ exprs'[d].shape = exprs[d].shape
             /\ exprs'[d].name = exprs[d].name
  <2>1. CASE d = e
    BY <1>2, <2>1
  <2>2. CASE d # e
    <3>1. exprs'[d] = exprs[d]
      BY <1>2, <2>2 DEF Expressions
    <3> QED BY <1>1, <3>1 DEF IsExpression
  <2> QED BY <2>1, <2>2
<1>4. SameObjects
  BY <1>2, <1>3 DEF SameObjects
<1>5. file \in Nat /\ file <= file
  <2>1. \A t \in DOMAIN types : types[t].file \in Nat
    BY TypeFacts DEF GraphInv, TypesInv, FileOf
  <2> QED BY <2>1 DEF GraphInv, PassInv
<1>6. \A d \in Expressions :
        \/ exprs'[d].ref = exprs[d].ref
        \/ exprs'[d].ref # NoValue => exprs'[d].ref \in AllValues /\ FileOf(exprs'[d].ref[1]) <= file
  BY <1>2 DEF Expressions
<1>7. ExprsInv'
  BY <1>4, <1>5, <1>6, ExprsStay
<1> QED BY <1>2, <1>4, <1>7, SameObjectsFacts DEF Expressions

\* what a name is found to mean is in the file or in one that it imports
LEMMA FoundIsNear ==
    ASSUME GraphInv, IsNear(Called), todo # <<>>
    PROVE  Found(Called) # NoValue => Found(Called) \in AllValues /\ FileOf(Found(Called)[1]) <= file
<1> DEFINE x == exprs[Called]
           t == IF x.enum = 0 THEN scope ELSE x.enum
<1>1. \A u \in DOMAIN types : FileOf(u) \in Nat
  BY TypeFacts DEF GraphInv, TypesInv
<1>2. file \in Nat
  BY <1>1 DEF GraphInv, PassInv, FileOf
<1>3. scope \in DOMAIN types /\ FileOf(scope) = file
  BY TodoFacts
<1>4. x.enum # 0 => x.enum \in DOMAIN types /\ FileOf(x.enum) <= FileOf(x.owner)
  BY DEF GraphInv, ExprsInv, IsExpression, IsNear
<1>5. FileOf(x.owner) <= file /\ FileOf(x.owner) \in Nat
  BY <1>1 DEF GraphInv, ExprsInv, IsExpression, IsNear
<1>6. Found(Called) = lookupIdentifier(t, x.name)
  BY DEF Found
<1> HIDE DEF x
<1>7. t \in DOMAIN types /\ FileOf(t) \in Nat /\ FileOf(t) <= file
  BY <1>1, <1>2, <1>3, <1>4, <1>5
<1> HIDE DEF t
<1>8. lookupIdentifier(t, x.name) \in Near(t) \cup {NoValue}
  BY <1>7, LookupFacts DEF GraphInv
<1>9. \A v \in Near(t) : v \in AllValues /\ FileOf(v[1]) <= file
  <2>1. \A v \in AllValues : FileOf(v[1]) \in Nat
    BY ValueFacts DEF GraphInv
  <2> QED BY <1>2, <1>7, <2>1 DEF Near
<1> QED BY <1>6, <1>8, <1>9

LEMMA LookUpFacts ==
    ASSUME GraphInv, LookUp
    PROVE  /\ Called \in Expressions /\ SameObjects /\ GraphInv'
           /\ \A d \in Expressions : d # Called => exprs'[d] = exprs[d]
           /\ exprs'[Called].evaluated = exprs[Called].evaluated
           /\ exprs'[Called].completed = exprs[Called].completed
           /\ exprs'[Called].kind = exprs[Called].kind /\ exprs'[Called].value = exprs[Called].value
           /\ ~IsUnresolved(Called) => exprs' = exprs
           /\ IsUnresolved(Called) => exprs'[Called].ref = Found(Called)
           /\ exprs'[Called].shape = "reference" => exprs'[Called].ref # NoValue
<1> DEFINE e == Called
           x == IF IsUnresolved(e) THEN [exprs[e] EXCEPT !.ref = Found(e)] ELSE exprs[e]
<1>1. /\ phase \in Running /\ phase' = phase /\ file' = file /\ (AtRoot \/ AtDependency) /\ Enter
      /\ UNCHANGED <<types, values, autofilled, file>> /\ stack' = stack
      /\ IsUnresolved(e) => Found(e) # NoValue
  BY RunningNames DEF LookUp, Calls
<1>2. IsNear(e) /\ todo # <<>>
  BY <1>1, CalledIsNear, RunningNames DEF AtRoot, AtDependency, GraphInv, FramesInv
<1>3. e \in Expressions /\ IsExpression(e)
  BY <1>2 DEF GraphInv, ExprsInv, IsNear
<1>4. exprs' = [exprs EXCEPT ![e] = x]
  <2>1. CASE IsUnresolved(e)
    <3>1. exprs' = [exprs EXCEPT ![e].ref = Found(e)]
      BY <2>1 DEF LookUp
    <3> HIDE DEF e
    <3> QED BY <2>1, <3>1
  <2>2. CASE ~IsUnresolved(e)
    <3>1. exprs' = exprs
      BY <2>2 DEF LookUp
    <3>2. exprs \in Seq(ToSet(exprs))
      BY DEF GraphInv, ExprsInv
    <3>3. exprs = [exprs EXCEPT ![e] = exprs[e]]
      BY <1>3, <3>2 DEF Expressions
    <3> QED BY <2>2, <3>1, <3>3
  <2> QED BY <2>1, <2>2
<1>5. /\ DOMAIN x = Fields /\ x.args = exprs[e].args /\ x.owner = exprs[e].owner
      /\ x.enum = exprs[e].enum /\ x.shape = exprs[e].shape /\ x.name = exprs[e].name
      /\ x.evaluated = exprs[e].evaluated /\ x.completed = exprs[e].completed
      /\ x.op = exprs[e].op /\ x.kind = exprs[e].kind /\ x.value = exprs[e].value
      /\ x.ref = IF IsUnresolved(e) THEN Found(e) ELSE exprs[e].ref
  <2>1. DOMAIN exprs[e] = Fields
    BY <1>3 DEF IsExpression
  <2> HIDE DEF e
  <2> QED BY <2>1 DEF Fields
<1>6. x.shape = "reference" => x.ref # NoValue
  BY <1>1, <1>5 DEF IsUnresolved
<1>7. \/ x.ref = exprs[e].ref
      \/ x.ref # NoValue => x.ref \in AllValues /\ FileOf(x.ref[1]) <= file
  BY <1>2, <1>5, FoundIsNear
<1>8. ~IsUnresolved(e) => exprs' = exprs
  BY DEF LookUp
<1> HIDE DEF e, x
<1>9. /\ SameObjects /\ TypesInv' /\ ValuesInv' /\ ExprsInv'
      /\ exprs'[e] = x /\ \A d \in Expressions : d # e => exprs'[d] = exprs[d]
  BY <1>1, <1>3, <1>4, <1>5, <1>7, ReplaceKeepsGraph
<1>10. stack' \subseteq visited'
  BY <1>1 DEF Enter, GraphInv, FramesInv
<1>11. FilledInv' /\ PassInv' /\ FramesInv'
  BY <1>1, <1>9, <1>10, EnterKeeps
<1> QED BY <1>3, <1>5, <1>6, <1>8, <1>9, <1>11 DEF e, GraphInv

LEMMA EvaluateFacts ==
    ASSUME GraphInv, Evaluate
    PROVE  /\ Top.expr \in Expressions /\ SameObjects /\ GraphInv'
           /\ \A d \in Expressions : d # Top.expr => exprs'[d] = exprs[d]
           /\ exprs'[Top.expr].evaluated
           /\ exprs'[Top.expr].kind = ResultKind(Top.expr)
           /\ exprs'[Top.expr].value = Stored(Result(Top.expr))
           /\ exprs'[Top.expr].ref = exprs[Top.expr].ref
           /\ exprs'[Top.expr].completed = exprs[Top.expr].completed
<1> DEFINE e == Top.expr
           k == ResultKind(e)
           n == Stored(Result(e))
           x == [exprs[e] EXCEPT !.evaluated = TRUE, !.kind = k, !.value = n]
<1>1. /\ phase \in Running /\ phase' = phase /\ file' = file /\ frames # <<>>
      /\ ReturnTo(Front(frames)) /\ visited' = visited /\ stack' = stack
      /\ UNCHANGED <<types, values, autofilled, file>>
      /\ exprs' = [exprs EXCEPT ![e].evaluated = TRUE, ![e].kind = k, ![e].value = n]
  BY RunningNames DEF Evaluate, Leaves
<1>2. e \in Expressions /\ IsExpression(e)
  <2>1. Len(frames) \in DOMAIN frames
    BY <1>1, GraphInvGivesGraphOK, FrameFacts
  <2> QED BY <2>1 DEF GraphInv, FramesInv, ExprsInv, IsNear, Top, Last
<1>3. DOMAIN exprs[e] = Fields
  BY <1>2 DEF IsExpression
<1> HIDE DEF e, k, n
<1>4. /\ DOMAIN x = Fields /\ x.args = exprs[e].args /\ x.owner = exprs[e].owner
      /\ x.enum = exprs[e].enum /\ x.shape = exprs[e].shape /\ x.name = exprs[e].name
      /\ x.evaluated /\ x.completed = exprs[e].completed
      /\ x.ref = exprs[e].ref /\ x.op = exprs[e].op /\ x.kind = k /\ x.value = n
  BY <1>3 DEF Fields
<1>5. exprs' = [exprs EXCEPT ![e] = x]
  BY <1>1, <1>2 DEF Expressions
<1> HIDE DEF x
<1>6. /\ SameObjects /\ TypesInv' /\ ValuesInv' /\ ExprsInv'
      /\ exprs'[e] = x /\ \A d \in Expressions : d # e => exprs'[d] = exprs[d]
  BY <1>1, <1>2, <1>4, <1>5, ReplaceKeepsGraph
<1>7. FilledInv' /\ PassInv' /\ FramesInv'
  BY <1>1, <1>6, ReturnKeepsGraph
<1> QED BY <1>2, <1>4, <1>6, <1>7 DEF e, k, n, GraphInv

LEMMA CompleteFacts ==
    ASSUME GraphInv, setPostParseCompleted
    PROVE  /\ Called \in Expressions /\ SameObjects /\ GraphInv'
           /\ \A d \in Expressions : d # Called => exprs'[d] = exprs[d]
           /\ exprs'[Called].evaluated = exprs[Called].evaluated
           /\ exprs'[Called].ref = exprs[Called].ref
           /\ exprs'[Called].kind = exprs[Called].kind /\ exprs'[Called].value = exprs[Called].value
           /\ exprs'[Called].completed
<1> DEFINE e == Called
           x == [exprs[e] EXCEPT !.completed = TRUE]
<1>1. /\ phase \in Running /\ phase' = phase /\ file' = file /\ (AtRoot \/ AtDependency) /\ Enter
      /\ UNCHANGED <<types, values, autofilled, file>> /\ stack' = stack
      /\ exprs' = [exprs EXCEPT ![e].completed = TRUE]
  BY RunningNames DEF setPostParseCompleted, Calls
<1>2. e \in Expressions /\ IsExpression(e)
  BY <1>1, CalledIsNear, RunningNames DEF GraphInv, ExprsInv, IsNear
<1>3. DOMAIN exprs[e] = Fields
  BY <1>2 DEF IsExpression
<1> HIDE DEF e
<1>4. /\ DOMAIN x = Fields /\ x.args = exprs[e].args /\ x.owner = exprs[e].owner
      /\ x.enum = exprs[e].enum /\ x.shape = exprs[e].shape /\ x.name = exprs[e].name
      /\ x.evaluated = exprs[e].evaluated /\ x.ref = exprs[e].ref /\ x.completed
      /\ x.op = exprs[e].op /\ x.kind = exprs[e].kind /\ x.value = exprs[e].value
  BY <1>3 DEF Fields
<1>5. exprs' = [exprs EXCEPT ![e] = x]
  BY <1>1, <1>2 DEF Expressions
<1> HIDE DEF x
<1>6. /\ SameObjects /\ TypesInv' /\ ValuesInv' /\ ExprsInv'
      /\ exprs'[e] = x /\ \A d \in Expressions : d # e => exprs'[d] = exprs[d]
  BY <1>1, <1>2, <1>4, <1>5, ReplaceKeepsGraph
<1>7. stack' \subseteq visited'
  BY <1>1 DEF Enter, GraphInv, FramesInv
<1>8. FilledInv' /\ PassInv' /\ FramesInv'
  BY <1>1, <1>6, <1>7, EnterKeeps
<1> QED BY <1>2, <1>4, <1>6, <1>8 DEF e, GraphInv

LEMMA FileIsNat ==
    ASSUME GraphInv
    PROVE  /\ file \in Nat \ {0} /\ LastFile \in Nat /\ file <= LastFile
           /\ {types[t].file : t \in DOMAIN types} = 1 .. LastFile
<1>1. {types[t].file : t \in DOMAIN types} = 1 .. LastFile
  BY DEF GraphInv, TypesInv, AreTypes, LastFile
<1>2. LastFile \in Nat
  <2>1. Len(types) \in DOMAIN types /\ \A t \in DOMAIN types : types[t].file \in Nat
    BY TypeFacts DEF GraphInv, TypesInv, FileOf
  <2> QED BY <2>1 DEF LastFile
<1>3. file \in 1 .. LastFile
  BY <1>1 DEF GraphInv, PassInv
<1> QED BY <1>1, <1>2, <1>3

\* the next pass, or file, begins where everything that is due has been filled in
LEMMA NextPhaseKeepsGraph ==
    ASSUME GraphInv, AcyclicInv, NextPhase
    PROVE  GraphInv'
<1>1. UNCHANGED program /\ todo = <<>> /\ frames' = <<>> /\ visited' = {} /\ stack' = stack
  BY DEF NextPhase
<1>2. SameObjects
  BY <1>1, ProgramStays
<1>3. /\ AllValues' = AllValues /\ types' = types /\ autofilled' = autofilled
      /\ \A t : FileOf(t)' = FileOf(t)
      /\ \A v : constExpr(v)' = constExpr(v)
      /\ TypesInv' /\ ValuesInv'
  BY <1>2, SameObjectsFacts DEF SameObjects
<1>4. stack' = {}
  <2>3. phase \in ToSet(Phases)
    BY PhaseNames DEF NextPhase, Follows
  <2>4. CASE phase = "checkAcyclic"
    <3>1. stack = {frames[i].expr : i \in DOMAIN frames} /\ frames = <<>>
      BY <2>4 DEF AcyclicInv, WalkInv, StackIsFrames, NextPhase
    <3> QED BY <1>1, <3>1
  <2>5. CASE phase # "checkAcyclic"
    BY <1>1, <2>3, <2>5 DEF AcyclicInv, StackIsEmpty
  <2> QED BY <2>4, <2>5
<1>5. FramesInv'
  BY <1>1, <1>4 DEF FramesInv
<1>6. /\ file \in Nat \ {0} /\ LastFile \in Nat /\ file <= LastFile
      /\ {types[t].file : t \in DOMAIN types} = 1 .. LastFile
  BY FileIsNat
<1>7. \A v \in AllValues : FileOf(v[1]) \in Nat
  BY ValueFacts DEF GraphInv
<1>8. ToSet(todo) = {}
  BY <1>1 DEF ToSet
<1>9. \A v \in AllValues : FileOf(v[1]) <= file => constExpr(v) # 0
  <2>1. \A v \in AllValues : FileOf(v[1]) <= file => Due(v)
    BY <1>6, <1>7, <1>8 DEF Due
  <2> QED BY <2>1 DEF GraphInv, FilledInv
<1>10. ASSUME file' \in Nat, file <= file' PROVE ExprsInv'
  <2>1. \A e \in Expressions : exprs'[e].ref = exprs[e].ref
    BY <1>1 DEF program
  <2> QED BY <1>2, <1>10, <2>1, ExprsStay
<1>11. PICK n \in DOMAIN Phases :
          /\ phase = Phases[n]
          /\ \/ n < Len(Phases) /\ file' = file /\ phase' = Phases[n + 1] /\ todo' = FileValues(file)
             \/ /\ file < LastFile /\ file' = file + 1 /\ phase' = Phases[1]
                /\ todo' = FileValues(file + 1)
             \/ phase' = "accepted" /\ file' = file /\ todo' = todo
  BY DEF NextPhase, Follows, End
<1>12. ASSUME file' = file, phase' # "resolveInheritance" PROVE FilledInv' /\ ExprsInv'
  <2>1. \A v \in AllValues : Due(v)' => FileOf(v[1]) <= file
    BY <1>3, <1>6, <1>7, <1>12 DEF Due
  <2>2. FilledInv'
    BY <1>3, <1>9, <2>1 DEF FilledInv
  <2> QED BY <1>6, <1>10, <1>12, <2>2
<1>13. ASSUME file' = file PROVE OwnValues(file)' = OwnValues(file)
  BY <1>2, <1>13, SameObjectsFacts DEF OwnValues
<1>14. CASE n < Len(Phases) /\ file' = file /\ phase' = Phases[n + 1] /\ todo' = FileValues(file)
  <2>1. n + 1 \in DOMAIN Phases /\ n + 1 # 1
    BY <1>14, PhaseNames
  <2>2. phase' \in ToSet(Phases) /\ phase' # "resolveInheritance"
    BY <1>14, <2>1, PhaseNames DEF Phases
  <2>3. todo' \in Seq(OwnValues(file))
    BY <1>14, FileValuesFacts DEF GraphInv
  <2>4. PassInv'
    BY <1>3, <1>13, <1>14, <2>2, <2>3 DEF PassInv, GraphInv
  <2> QED BY <1>3, <1>5, <1>12, <1>14, <2>2, <2>4 DEF GraphInv
<1>15. CASE /\ file < LastFile /\ file' = file + 1 /\ phase' = Phases[1]
            /\ todo' = FileValues(file + 1)
  <2>1. phase' = "resolveInheritance" /\ phase' \in ToSet(Phases)
    BY <1>15, PhaseNames DEF Phases
  <2>2. file' \in 1 .. LastFile /\ file <= file' /\ file' \in Nat
    BY <1>6, <1>15
  <2>3. todo' \in Seq(OwnValues(file')) /\ ToSet(todo') = OwnValues(file')
    BY <1>15, FileValuesFacts DEF GraphInv
  <2>4. OwnValues(file)' = OwnValues(file')
    BY <1>3 DEF OwnValues, FileOf
  <2>5. PassInv'
    BY <1>3, <1>6, <2>1, <2>2, <2>3, <2>4 DEF PassInv, GraphInv
  <2>6. ASSUME NEW v \in AllValues, Due(v)' PROVE FileOf(v[1]) <= file
    <3>1. FileOf(v[1]) < file + 1 \/ (FileOf(v[1]) = file' /\ v \notin ToSet(todo'))
      BY <1>3, <1>15, <2>1, <2>6 DEF Due, ToSet
    <3>2. FileOf(v[1]) = file' => v \in OwnValues(file')
      BY DEF OwnValues
    <3> QED BY <1>6, <1>7, <2>3, <3>1, <3>2
  <2>7. FilledInv'
    BY <1>3, <1>9, <2>6 DEF FilledInv
  <2> QED BY <1>3, <1>5, <1>10, <2>2, <2>5, <2>7 DEF GraphInv
<1>16. CASE phase' = "accepted" /\ file' = file /\ todo' = todo
  <2>1. phase' # "resolveInheritance"
    BY <1>16
  <2>2. PassInv'
    BY <1>3, <1>13, <1>16 DEF PassInv, GraphInv
  <2> QED BY <1>3, <1>5, <1>12, <1>16, <2>1, <2>2 DEF GraphInv
<1> QED BY <1>11, <1>14, <1>15, <1>16

\* a value that is written
LEMMA KeepExplicitKeepsGraph ==
    ASSUME GraphInv, KeepExplicit
    PROVE  GraphInv'
<1>1. /\ UNCHANGED program /\ file' = file /\ phase' = phase /\ phase = "resolveInheritance"
      /\ todo # <<>> /\ todo' = Tail(todo) /\ constExpr(Head(todo)) # 0
      /\ frames' = frames /\ visited' = visited /\ stack' = stack
  BY DEF KeepExplicit, walk
<1>2. SameObjects
  BY <1>1, ProgramStays
<1>3. /\ Expressions' = Expressions /\ AllValues' = AllValues /\ FrameType' = FrameType
      /\ types' = types /\ autofilled' = autofilled
      /\ \A t : FileOf(t)' = FileOf(t)
      /\ \A v : constExpr(v)' = constExpr(v)
      /\ TypesInv' /\ ValuesInv'
      /\ OwnValues(file)' = OwnValues(file)
  BY <1>1, <1>2, SameObjectsFacts DEF SameObjects, OwnValues
<1>4. ExprsInv'
  <2>1. \A e \in Expressions : exprs'[e].ref = exprs[e].ref
    BY <1>1 DEF program
  <2>2. file' \in Nat /\ file <= file'
    BY <1>1, FileIsNat
  <2> QED BY <1>2, <2>1, <2>2, ExprsStay
<1>5. /\ Tail(todo) \in Seq(OwnValues(file))
      /\ ToSet(todo) \subseteq {Head(todo)} \cup ToSet(Tail(todo))
  BY <1>1, TodoFacts
<1>6. PassInv'
  BY <1>1, <1>3, <1>5 DEF PassInv, GraphInv
<1>7. \A v \in AllValues : Due(v)' => Due(v) \/ v = Head(todo)
  <2>1. ToSet(todo)' = ToSet(Tail(todo))
    BY <1>1 DEF ToSet
  <2> QED BY <1>1, <1>3, <1>5, <2>1 DEF Due
<1>8. FilledInv'
  BY <1>1, <1>3, <1>7 DEF FilledInv, GraphInv
<1>9. FramesInv'
  BY <1>1, <1>3 DEF FramesInv, GraphInv
<1> QED BY <1>3, <1>4, <1>6, <1>8, <1>9 DEF GraphInv

\* a value that is not written: objects are added at the end, for it alone
LEMMA AutofillFacts ==
    ASSUME GraphInv, Autofill
    PROVE  LET n == Len(exprs)
               m == Len(exprs')
           IN /\ n \in Nat /\ m \in Nat /\ n < m
              /\ Expressions = 1 .. n /\ Expressions' = 1 .. m
              /\ exprs' \in Seq(ToSet(exprs'))
              /\ \A e \in 1 .. n : exprs'[e] = exprs[e]
              /\ \A e \in (n + 1) .. m :
                   /\ DOMAIN exprs'[e] = Fields
                   /\ exprs'[e].args \in Seq((n + 1) .. m)
                   /\ exprs'[e].owner = Head(todo)[1] /\ exprs'[e].enum = 0
                   /\ exprs'[e].ref \in {NoValue, Previous(Head(todo))}
                   /\ exprs'[e].evaluated =>
                        exprs'[e].args = <<>> /\ exprs'[e].ref = NoValue /\ exprs'[e].shape = "literal"
                   /\ ~exprs'[e].completed /\ exprs'[e].name = ""
<1> DEFINE h == Head(todo)
           t == h[1]
           kind == types[t].storage
           n == Len(exprs)
           F == Filled(h)
           k == Len(F)
           Q == [i \in 1 .. k |-> [F[i] EXCEPT !.owner = t]]
<1>1. exprs \in Seq(ToSet(exprs)) /\ n \in Nat /\ DOMAIN exprs = 1 .. n
  BY DEF GraphInv, ExprsInv
<1>2. F = IF Previous(h) = NoValue
          THEN <<Zero(kind)>>
          ELSE <<Unevaluated("reference", "", <<>>, 0, "", Previous(h)), One(kind),
                 Unevaluated("binary", "+", <<n + 1, n + 2>>, 0, "", NoValue)>>
  BY DEF Filled
<1> DEFINE Good(x, m) ==
             /\ DOMAIN x = Fields
             /\ x.args \in Seq((n + 1) .. m)
             /\ x.enum = 0
             /\ x.ref \in {NoValue, Previous(h)}
             /\ x.evaluated => x.args = <<>> /\ x.ref = NoValue /\ x.shape = "literal"
             /\ x.name = ""
             /\ ~x.completed
<1>3. k \in Nat \ {0} /\ DOMAIN F = 1 .. k /\ \A i \in 1 .. k : Good(F[i], n + k)
  <2> HIDE DEF n, h, kind
  <2>1. CASE Previous(h) = NoValue
    <3> DEFINE z == Zero(kind)
    <3>1. F = <<z>>
      BY <1>2, <2>1
    <3>2. Good(z, n + 1)
      BY DEF Zero, Literal, Fields
    <3> HIDE DEF z, F, Good
    <3>3. k = 1 /\ DOMAIN F = 1 .. 1 /\ F[1] = z
      BY <3>1
    <3>4. \A i \in 1 .. 1 : i = 1
      OBVIOUS
    <3> QED BY <3>2, <3>3, <3>4
  <2>2. CASE Previous(h) # NoValue
    <3> DEFINE a == Unevaluated("reference", "", <<>>, 0, "", Previous(h))
               b == One(kind)
               c == Unevaluated("binary", "+", <<n + 1, n + 2>>, 0, "", NoValue)
    <3>1. F = <<a, b, c>>
      BY <1>2, <2>2
    <3>2. Good(a, n + 3)
      BY DEF Unevaluated, Literal, Fields
    <3>3. Good(b, n + 3)
      BY DEF One, Literal, Fields
    <3>4. Good(c, n + 3)
      <4>1. <<n + 1, n + 2>> \in Seq((n + 1) .. (n + 3))
        BY <1>1
      <4> QED BY <4>1 DEF Unevaluated, Literal, Fields
    <3> HIDE DEF a, b, c, F, Good
    <3>5. k = 3 /\ DOMAIN F = 1 .. 3 /\ F[1] = a /\ F[2] = b /\ F[3] = c
      BY <3>1
    <3>6. \A i \in 1 .. 3 : i = 1 \/ i = 2 \/ i = 3
      OBVIOUS
    <3> QED BY <3>2, <3>3, <3>4, <3>5, <3>6
  <2> QED BY <2>1, <2>2
<1>4. exprs' = exprs \o Q
  <2>1. exprs' = exprs \o [i \in DOMAIN F |-> [F[i] EXCEPT !.owner = t]]
    BY DEF Autofill
  <2> QED BY <1>3, <2>1
<1>5. ASSUME NEW i \in 1 .. k PROVE Good(Q[i], n + k) /\ Q[i].owner = t
  <2> DEFINE x == F[i]
             y == [x EXCEPT !.owner = t]
  <2>1. Q[i] = y
    OBVIOUS
  <2>2. Good(x, n + k)
    BY <1>3
  <2> HIDE DEF x, t, n, k, h
  <2>3. /\ DOMAIN y = Fields /\ y.owner = t
        /\ y.args = x.args /\ y.enum = x.enum /\ y.ref = x.ref /\ y.evaluated = x.evaluated
        /\ y.shape = x.shape /\ y.completed = x.completed /\ y.name = x.name
    BY <2>2 DEF Fields
  <2> HIDE DEF y, Q
  <2> QED BY <2>1, <2>2, <2>3
<1> HIDE DEF Good, F, k, t
<1> DEFINE S == ToSet(exprs) \cup {Q[i] : i \in 1 .. k}
<1>6. exprs \in Seq(S) /\ Q \in Seq(S) /\ Len(Q) = k
  <2>1. \A i \in 1 .. k : Q[i] \in S
    OBVIOUS
  <2>2. ToSet(exprs) \subseteq S
    OBVIOUS
  <2> HIDE DEF S
  <2> QED BY <1>1, <1>3, <2>1, <2>2
<1> HIDE DEF S, Q
<1>7. /\ Len(exprs') = n + k /\ DOMAIN exprs' = 1 .. (n + k)
      /\ \A e \in 1 .. n : exprs'[e] = exprs[e]
      /\ \A e \in (n + 1) .. (n + k) : exprs'[e] = Q[e - n]
      /\ exprs' = [i \in 1 .. (n + k) |-> exprs'[i]]
  <2>1. ASSUME NEW T, NEW p \in Seq(T), NEW q \in Seq(T)
        PROVE  /\ p \o q \in Seq(T) /\ Len(p \o q) = Len(p) + Len(q)
               /\ Len(p) \in Nat /\ Len(q) \in Nat
               /\ \A e \in 1 .. Len(p) : (p \o q)[e] = p[e]
               /\ \A e \in (Len(p) + 1) .. (Len(p) + Len(q)) : (p \o q)[e] = q[e - Len(p)]
    OBVIOUS
  <2>2. /\ exprs' \in Seq(S) /\ Len(exprs') = n + k
        /\ \A e \in 1 .. n : exprs'[e] = exprs[e]
        /\ \A e \in (n + 1) .. (n + k) : exprs'[e] = Q[e - n]
    BY <1>4, <1>6, <2>1
  <2>3. ASSUME NEW T, NEW p \in Seq(T)
        PROVE  DOMAIN p = 1 .. Len(p) /\ p = [i \in 1 .. Len(p) |-> p[i]]
    OBVIOUS
  <2>4. DOMAIN exprs' = 1 .. Len(exprs') /\ exprs' = [i \in 1 .. Len(exprs') |-> exprs'[i]]
    BY <2>2, <2>3
  <2> QED BY <2>2, <2>4
<1>8. n + k \in Nat /\ n < n + k
  BY <1>1, <1>3
<1>9. exprs' \in Seq(ToSet(exprs'))
  <2>1. PICK s, m : s = exprs' /\ m = n + k
    OBVIOUS
  <2>2. s \in Seq(ToSet(s))
    BY <1>7, <1>8, <2>1, SequenceOfOwn
  <2> QED BY <2>1, <2>2
<1>10. ASSUME NEW e \in (n + 1) .. (n + k) PROVE Good(exprs'[e], n + k) /\ exprs'[e].owner = t
  <2>1. e - n \in 1 .. k
    BY <1>1, <1>3
  <2> QED BY <1>5, <1>7, <2>1
<1> QED BY <1>1, <1>7, <1>8, <1>9, <1>10 DEF Good, t, Expressions

LEMMA AutofillValues ==
    ASSUME GraphInv, Autofill
    PROVE  /\ types' = types /\ todo # <<>> /\ Head(todo) \in AllValues
           /\ values' \in Seq(Seq(Nat)) /\ Len(values') = Len(types)
           /\ AllValues' = AllValues
           /\ \A v \in AllValues :
                constExpr(v)' = IF v = Head(todo) THEN Len(exprs') ELSE constExpr(v)
<1> DEFINE h == Head(todo)
           t == h[1]
           i == h[2]
           m == Len(exprs')
           row == [values[t] EXCEPT ![i] = m]
<1>1. types' = types /\ todo # <<>> /\ values' = [values EXCEPT ![t][i] = m]
  BY DEF Autofill
<1>2. h \in AllValues
  BY <1>1, TodoFacts
<1>3. m \in Nat
  BY AutofillFacts
<1>4. /\ values \in Seq(Seq(Nat)) /\ Len(values) = Len(types) /\ DOMAIN values = DOMAIN types
      /\ h = <<t, i>> /\ t \in DOMAIN types /\ i \in DOMAIN values[t]
      /\ values[t] \in Seq(Nat)
  BY <1>2, ValueFacts DEF GraphInv, TypesInv
<1> HIDE DEF h, t, i, m
<1>5. values' = [values EXCEPT ![t] = row]
  BY <1>1
<1>6. row \in Seq(Nat) /\ DOMAIN row = DOMAIN values[t]
  BY <1>3, <1>4
<1>7. \A j \in DOMAIN values[t] : row[j] = IF j = i THEN m ELSE values[t][j]
  BY <1>4
<1> HIDE DEF row
<1>8. /\ values' \in Seq(Seq(Nat)) /\ Len(values') = Len(values) /\ DOMAIN values' = DOMAIN values
      /\ \A u \in DOMAIN values : values'[u] = IF u = t THEN row ELSE values[u]
  BY <1>4, <1>5, <1>6
<1>9. \A u \in DOMAIN types : DOMAIN values'[u] = DOMAIN values[u]
  BY <1>4, <1>6, <1>8
<1>10. AllValues' = AllValues
  BY <1>1, <1>9 DEF AllValues
<1>11. ASSUME NEW v \in AllValues
       PROVE  constExpr(v)' = IF v = h THEN m ELSE constExpr(v)
  <2>1. v = <<v[1], v[2]>> /\ v[1] \in DOMAIN types /\ v[2] \in DOMAIN values[v[1]]
    BY ValueFacts DEF GraphInv
  <2>2. v = h <=> v[1] = t /\ v[2] = i
    BY <1>4, <2>1
  <2>3. CASE v[1] = t
    <3>1. constExpr(v)' = row[v[2]]
      BY <1>4, <1>8, <2>3 DEF constExpr
    <3> QED BY <1>7, <2>1, <2>2, <2>3, <3>1 DEF constExpr
  <2>4. CASE v[1] # t
    <3>1. constExpr(v)' = constExpr(v)
      BY <1>4, <1>8, <2>1, <2>4 DEF constExpr
    <3> QED BY <2>2, <2>4, <3>1
  <2> QED BY <2>3, <2>4
<1> QED BY <1>1, <1>2, <1>4, <1>8, <1>10, <1>11 DEF h, m

LEMMA AutofillKeepsGraph ==
    ASSUME GraphInv, Autofill
    PROVE  GraphInv'
<1> DEFINE h == Head(todo)
           n == Len(exprs)
           m == Len(exprs')
<1>1. /\ n \in Nat /\ m \in Nat /\ n < m /\ Expressions = 1 .. n /\ Expressions' = 1 .. m
      /\ exprs' \in Seq(ToSet(exprs'))
      /\ \A e \in 1 .. n : exprs'[e] = exprs[e]
      /\ \A e \in (n + 1) .. m :
           /\ DOMAIN exprs'[e] = Fields
           /\ exprs'[e].args \in Seq((n + 1) .. m)
           /\ exprs'[e].owner = h[1] /\ exprs'[e].enum = 0
           /\ exprs'[e].ref \in {NoValue, Previous(h)}
  BY AutofillFacts
<1>2. /\ types' = types /\ todo # <<>> /\ h \in AllValues
      /\ values' \in Seq(Seq(Nat)) /\ Len(values') = Len(types)
      /\ AllValues' = AllValues
      /\ \A v \in AllValues : constExpr(v)' = IF v = h THEN m ELSE constExpr(v)
  BY AutofillValues
<1>3. /\ file' = file /\ phase' = phase /\ phase = "resolveInheritance" /\ todo' = Tail(todo)
      /\ autofilled' = autofilled \cup {h} /\ frames' = frames /\ visited' = visited /\ stack' = stack
  BY DEF Autofill, walk
<1>4. /\ Tail(todo) \in Seq(OwnValues(file))
      /\ ToSet(todo) \subseteq {h} \cup ToSet(Tail(todo))
      /\ h[1] \in DOMAIN types /\ FileOf(h[1]) = file
  <2>1. Head(todo)[1] = scope
    BY DEF scope
  <2> QED BY <1>2, <2>1, TodoFacts
<1>5. Previous(h) # NoValue => Previous(h) \in AllValues /\ FileOf(Previous(h)[1]) <= file
  <2>1. Previous(h) \in Near(h[1]) \cup {NoValue}
    BY <1>2, PreviousFacts DEF GraphInv
  <2> QED BY <1>4, <2>1 DEF Near
<1> HIDE DEF h, n, m
<1>6. \A t : FileOf(t)' = FileOf(t)
  BY <1>2 DEF FileOf
<1>7. TypesInv'
  BY <1>2 DEF GraphInv, TypesInv, AreTypes, TypeType
<1>8. \A e \in 1 .. n : e \in 1 .. m
  BY <1>1
<1>9. ASSUME NEW e \in 1 .. m PROVE IsExpression(e)'
  <2>1. CASE e \in 1 .. n
    <3>1. IsExpression(e) /\ exprs'[e] = exprs[e]
      BY <1>1, <2>1 DEF GraphInv, ExprsInv
    <3>2. exprs[e].args \in Seq(1 .. m)
      BY <1>1, <1>8, <3>1 DEF IsExpression
    <3>3. \A i \in DOMAIN exprs[e].args : exprs'[exprs[e].args[i]] = exprs[exprs[e].args[i]]
      <4>1. \A i \in DOMAIN exprs[e].args : exprs[e].args[i] \in 1 .. n
        BY <1>1, <3>1 DEF IsExpression
      <4> QED BY <1>1, <4>1
    <3> QED BY <1>1, <1>2, <1>3, <1>6, <3>1, <3>2, <3>3 DEF IsExpression
  <2>2. CASE e \notin 1 .. n
    <3>1. e \in (n + 1) .. m
      BY <1>1, <2>2
    <3>2. /\ DOMAIN exprs'[e] = Fields
          /\ exprs'[e].args \in Seq((n + 1) .. m)
          /\ exprs'[e].owner = h[1] /\ exprs'[e].enum = 0
          /\ exprs'[e].ref \in {NoValue, Previous(h)}
      BY <1>1, <3>1
    <3>3. ASSUME NEW i \in DOMAIN exprs'[e].args
          PROVE  exprs'[exprs'[e].args[i]].owner = h[1]
      <4>1. exprs'[e].args[i] \in (n + 1) .. m
        <5>1. PICK p, D : p = exprs'[e].args /\ D = (n + 1) .. m
          OBVIOUS
        <5>2. p \in Seq(D)
          BY <3>2, <5>1
        <5>3. \A j \in DOMAIN p : p[j] \in D
          BY <5>2
        <5> QED BY <5>1, <5>3
      <4> QED BY <1>1, <4>1
    <3>4. exprs'[e].args \in Seq(1 .. m)
      <4>1. \A d \in (n + 1) .. m : d \in 1 .. m
        BY <1>1
      <4>2. PICK p, D, E : p = exprs'[e].args /\ D = (n + 1) .. m /\ E = 1 .. m
        OBVIOUS
      <4>3. p \in Seq(D) /\ D \subseteq E
        BY <3>2, <4>1, <4>2
      <4>4. p \in Seq(E)
        BY <4>3
      <4> QED BY <4>2, <4>4
    <3>5. exprs'[e].ref # NoValue => exprs'[e].ref \in AllValues /\ FileOf(exprs'[e].ref[1]) <= file
      BY <1>5, <3>2
    <3>6. exprs'[e].owner \in DOMAIN types
      BY <1>4, <3>2
    <3> QED BY <1>1, <1>2, <1>3, <1>6, <3>2, <3>3, <3>4, <3>5, <3>6 DEF IsExpression
  <2> QED BY <2>1, <2>2
<1>10. ExprsInv'
  BY <1>1, <1>9 DEF ExprsInv
<1>11. ValuesInv'
  <2> SUFFICES ASSUME NEW v \in AllValues, constExpr(v)' # 0
               PROVE  constExpr(v)' \in 1 .. m /\ exprs'[constExpr(v)'].owner = v[1]
    BY <1>1, <1>2 DEF ValuesInv
  <2>1. CASE v = h
    <3>1. m \in (n + 1) .. m /\ m \in 1 .. m /\ constExpr(v)' = m
      BY <1>1, <1>2, <2>1
    <3> QED BY <1>1, <2>1, <3>1
  <2>2. CASE v # h
    <3>1. constExpr(v)' = constExpr(v)
      BY <1>2, <2>2
    <3>2. constExpr(v) \in 1 .. n /\ exprs[constExpr(v)].owner = v[1]
      BY <1>1, <3>1 DEF GraphInv, ValuesInv
    <3> QED BY <1>1, <1>8, <3>1, <3>2
  <2> QED BY <2>1, <2>2
<1>12. OwnValues(file)' = OwnValues(file)
  BY <1>2, <1>3, <1>6 DEF OwnValues
<1>13. PassInv'
  BY <1>2, <1>3, <1>4, <1>12 DEF PassInv, GraphInv
<1>14. \A v \in AllValues : Due(v)' => Due(v) \/ v = h
  <2>1. ToSet(todo)' = ToSet(Tail(todo))
    BY <1>3 DEF ToSet
  <2> QED BY <1>3, <1>4, <1>6, <2>1 DEF Due
<1>15. FilledInv'
  <2>1. m # 0
    BY <1>1
  <2> QED BY <1>2, <1>14, <2>1 DEF FilledInv, GraphInv
<1>16. FramesInv'
  <2>1. frames = <<>> /\ visited \subseteq Expressions /\ stack \subseteq visited
    BY <1>3 DEF FramesInv, GraphInv
  <2>2. frames' = <<>> /\ <<>> \in Seq(FrameType)'
    BY <1>3, <2>1
  <2> QED BY <1>1, <1>3, <1>8, <2>1, <2>2 DEF FramesInv
<1> QED BY <1>7, <1>10, <1>11, <1>13, <1>15, <1>16 DEF GraphInv

\* a program that the parser built
LEMMA InitGraph == Init => GraphInv
<1> SUFFICES ASSUME Init PROVE GraphInv
  OBVIOUS
<1>1. PICK p \in Programs : types = p.types /\ exprs = p.exprs /\ values = p.values
  BY DEF Init
<1>2. /\ AreTypes(types) /\ AreExpressions(types, exprs)
      /\ values \in Seq(Seq(0 .. Len(exprs))) /\ Len(values) = Len(types)
      /\ \A t \in DOMAIN values : \A i \in DOMAIN values[t] :
           values[t][i] # 0 => exprs[values[t][i]].owner = t
  BY <1>1, ProgramsAssumption DEF IsProgram
<1>3. /\ autofilled = {} /\ file = 1 /\ phase = "resolveInheritance" /\ todo = FileValues(1)
      /\ frames = <<>> /\ visited = {} /\ stack = {}
  BY DEF Init
<1> DEFINE n == Len(exprs)
<1>4. exprs \in Seq(ExpressionType(types, n))
  BY <1>2 DEF AreExpressions
<1>5. n \in Nat /\ DOMAIN exprs = 1 .. n /\ Expressions = 1 .. n
  BY <1>4 DEF Expressions
<1>6. ASSUME NEW e \in Expressions PROVE exprs[e] \in ExpressionType(types, n)
  <2> DEFINE T == ExpressionType(types, n)
  <2> HIDE DEF T
  <2> QED BY <1>4, <1>5
<1>7. exprs \in Seq(ToSet(exprs))
  <2>1. exprs = [i \in 1 .. n |-> exprs[i]]
    <3> DEFINE T == ExpressionType(types, n)
    <3>1. exprs \in Seq(T)
      BY <1>4
    <3> HIDE DEF T
    <3> QED BY <3>1
  <2> HIDE DEF n
  <2> QED BY <1>5, <2>1, SequenceOfOwn
<1> HIDE DEF n
<1>8. TypesInv
  <2>1. \A k \in 0 .. n : k \in Nat
    BY <1>5
  <2>2. values \in Seq(Seq(Nat))
    <3> DEFINE D == 0 .. n
    <3>1. values \in Seq(Seq(D))
      BY <1>2 DEF n
    <3>2. D \subseteq Nat
      BY <2>1
    <3> HIDE DEF D
    <3>3. ASSUME NEW S, NEW T, S \subseteq T, NEW s \in Seq(S) PROVE s \in Seq(T)
      BY <3>3
    <3>4. Seq(D) \subseteq Seq(Nat)
      BY <3>2, <3>3
    <3> QED BY <3>1, <3>3, <3>4
  <2> QED BY <1>2, <2>2 DEF TypesInv
<1>9. ASSUME NEW e \in Expressions PROVE IsExpression(e)
  <2>1. /\ DOMAIN exprs[e] = Fields
        /\ exprs[e].args \in Seq(1 .. n) /\ exprs[e].enum \in 0 .. Len(types)
        /\ exprs[e].ref = NoValue /\ exprs[e].owner \in DOMAIN types
    BY <1>6 DEF ExpressionType, Fields
  <2>2. /\ exprs[e].enum # 0 => types[exprs[e].enum].file <= types[exprs[e].owner].file
        /\ \A i \in DOMAIN exprs[e].args : exprs[exprs[e].args[i]].owner = exprs[e].owner
    BY <1>2 DEF AreExpressions, Expressions
  <2>3. exprs[e].enum # 0 => exprs[e].enum \in DOMAIN types
    <3>1. Len(types) \in Nat /\ DOMAIN types = 1 .. Len(types)
      BY <1>2, TypeFacts
    <3> QED BY <2>1, <3>1
  <2> QED BY <1>5, <2>1, <2>2, <2>3 DEF IsExpression, FileOf
<1>10. ExprsInv
  BY <1>7, <1>9 DEF ExprsInv
<1>11. ValuesInv
  <2> SUFFICES ASSUME NEW v \in AllValues, constExpr(v) # 0
               PROVE  constExpr(v) \in Expressions /\ exprs[constExpr(v)].owner = v[1]
    BY DEF ValuesInv
  <2>1. v[1] \in DOMAIN values /\ v[2] \in DOMAIN values[v[1]]
    BY <1>8, ValueFacts
  <2>2. constExpr(v) \in 0 .. n
    <3> DEFINE D == 0 .. n
    <3>1. values \in Seq(Seq(D))
      BY <1>2 DEF n
    <3> HIDE DEF D
    <3>2. values[v[1]] \in Seq(D)
      BY <2>1, <3>1
    <3>3. constExpr(v) \in D
      BY <2>1, <3>2 DEF constExpr
    <3> QED BY <3>3 DEF D
  <2>3. exprs[constExpr(v)].owner = v[1]
    BY <1>2, <2>1 DEF constExpr
  <2> QED BY <1>5, <2>2, <2>3
<1>12. \A t \in DOMAIN types : FileOf(t) \in Nat \ {0}
  BY <1>2, TypeFacts
<1>13. todo \in Seq(OwnValues(file)) /\ ToSet(todo) = OwnValues(file)
  BY <1>3, <1>8, FileValuesFacts
<1>14. FilledInv
  <2> SUFFICES ASSUME NEW v \in AllValues, Due(v) PROVE FALSE
    BY DEF FilledInv
  <2>1. FileOf(v[1]) \in Nat \ {0}
    BY <1>8, <1>12, ValueFacts
  <2> QED BY <1>3, <1>13, <2>1 DEF Due, OwnValues
<1>15. PassInv
  <2>1. 1 \in {types[t].file : t \in DOMAIN types}
    <3>1. Len(types) \in DOMAIN types
      BY <1>2, TypeFacts
    <3>2. types[Len(types)].file \in Nat \ {0}
      BY <1>12, <3>1 DEF FileOf
    <3>3. {types[t].file : t \in DOMAIN types} = 1 .. types[Len(types)].file
      BY <1>2 DEF AreTypes
    <3>4. 1 \in 1 .. types[Len(types)].file
      BY <3>2
    <3> QED BY <3>3, <3>4
  <2>2. phase \in ToSet(Phases)
    BY <1>3, PhaseNames
  <2> QED BY <1>3, <1>13, <2>1, <2>2 DEF PassInv
<1>16. FramesInv
  BY <1>3 DEF FramesInv
<1> QED BY <1>8, <1>10, <1>11, <1>14, <1>15, <1>16 DEF GraphInv

LEMMA NextKeepsGraph ==
    ASSUME GraphInv, AcyclicInv, [Next]_vars
    PROVE  GraphInv'
<1>1. CASE NextPhase
  BY <1>1, NextPhaseKeepsGraph
<1>2. CASE Autofill
  BY <1>2, AutofillKeepsGraph
<1>3. CASE KeepExplicit
  BY <1>3, KeepExplicitKeepsGraph
<1>4. CASE LookUp
  BY <1>4, LookUpFacts
<1>5. CASE Evaluate
  BY <1>5, EvaluateFacts
<1>6. CASE setPostParseCompleted
  BY <1>6, CompleteFacts
<1>7. CASE UNCHANGED vars
  BY <1>7, StutterKeepsGraph
<1>8. CASE Terminated
  BY <1>8, StutterKeepsGraph DEF Terminated
<1>9. CASE \/ PassOver \/ Leave \/ FailLookup
           \/ CheckAcyclic \/ CheckedBefore \/ FindCycle \/ LeaveAcyclic
           \/ Validate \/ FailValidate
           \/ Descend \/ IsEvaluated \/ Trap
  BY <1>9, WalkKeepsGraph
<1> QED BY <1>1, <1>2, <1>3, <1>4, <1>5, <1>6, <1>7, <1>8, <1>9 DEF Next

(* The graph of expressions stays what the passes take it for: every       *)
(* operand, reference and value is there, and in a file whose values have  *)
(* been filled in by the time a pass goes into it.  The check for cycles   *)
(* is part of the argument, as it has to leave an empty stack.             *)
THEOREM GraphInvHolds == Spec => [](GraphInv /\ AcyclicInv)
<1>1. ASSUME Init PROVE AcyclicInv
  <2>1. phase = "resolveInheritance" /\ stack = {}
    BY <1>1 DEF Init
  <2> QED BY <2>1 DEF AcyclicInv, WalkInv, StackIsEmpty, Verdict
<1>2. Init => GraphInv /\ AcyclicInv
  BY <1>1, InitGraph
<1>3. GraphInv /\ AcyclicInv /\ [Next]_vars => (GraphInv /\ AcyclicInv)'
  <2> SUFFICES ASSUME GraphInv, AcyclicInv, [Next]_vars PROVE GraphInv' /\ AcyclicInv'
    OBVIOUS
  <2>1. GraphInv'
    BY NextKeepsGraph
  <2>2. GraphOK
    BY GraphInvGivesGraphOK
  <2>3. GraphOK'
    BY <2>1, GraphInvGivesGraphOK, PTL
  <2>4. AcyclicInv'
    BY <2>2, <2>3, NextInv
  <2> QED BY <2>1, <2>4
<1> QED BY <1>2, <1>3, PTL DEF Spec

-----------------------------------------------------------------------------
(* How far a pass has come: what it has left leads only to what it has     *)
(* visited, or an earlier file has completed.                              *)

Resolved == {e \in Expressions : ~IsUnresolved(e)}
Evaluated == {e \in Expressions : exprs[e].evaluated}
Completed == {e \in Expressions : exprs[e].completed}
Roots == {constExpr(v) : v \in OwnValues(file)}
OnFrames == {frames[i].expr : i \in DOMAIN frames}
Left == visited \ OnFrames
Over == IF phase = "checkAcyclic" THEN visited ELSE visited \cup Completed

BottomIsRoot == frames # <<>> => frames[1].expr = constExpr(Head(todo))
RootsAreOver == \A v \in OwnValues(file) : v \in ToSet(todo) \/ constExpr(v) \in Over
LeftIsOver == \A e \in Left : Deps(e) \subseteq Over
PassedIsOver ==
    \A i \in DOMAIN frames : \A k \in DOMAIN Dependencies(frames[i].expr) :
        k < frames[i].next => Dependencies(frames[i].expr)[k] \in Over

ReachInv ==
    phase \in Running =>
        /\ Path /\ BottomIsRoot /\ OnFrames \subseteq visited
        /\ RootsAreOver /\ LeftIsOver /\ PassedIsOver

\* which expressions depend on which
SameEdges == \A e \in Expressions : Dependencies(e)' = Dependencies(e)

LEMMA EdgesStay ==
    ASSUME SameObjects, \A e \in Expressions : exprs'[e].ref = exprs[e].ref
    PROVE  SameEdges
BY DEF SameObjects, SameEdges, Dependencies, constExpr

LEMMA FrameElements ==
    ASSUME GraphInv
    PROVE  /\ frames \in Seq(FrameType) /\ Len(frames) \in Nat /\ DOMAIN frames = 1 .. Len(frames)
           /\ \A i \in DOMAIN frames : frames[i].expr \in Expressions /\ frames[i].next \in Nat \ {0}
           /\ frames # <<>> => Len(frames) \in DOMAIN frames
           /\ OnFrames \subseteq Expressions /\ visited \subseteq Expressions
<1>1. /\ frames \in Seq(FrameType) /\ Len(frames) \in Nat /\ DOMAIN frames = 1 .. Len(frames)
      /\ \A i \in DOMAIN frames : frames[i].expr \in Expressions /\ frames[i].next \in Nat \ {0}
      /\ frames # <<>> => Len(frames) \in DOMAIN frames
  BY GraphInvGivesGraphOK, FrameFacts
<1> QED BY <1>1 DEF OnFrames, GraphInv, FramesInv

LEMMA EnterKeepsReach ==
    ASSUME GraphInv, ReachInv, SameObjects, file' = file, phase \in Running, phase' = phase,
           AtRoot \/ AtDependency, Enter, Called \in Expressions, Called \notin visited,
           \A e \in visited : Dependencies(e)' = Dependencies(e),
           Completed \subseteq Completed'
    PROVE  ReachInv' /\ Left' = Left /\ OnFrames' = OnFrames \cup {Called}
<1>0. PICK u, n, f : u = Called /\ n = Len(frames) /\ f = [expr |-> u, next |-> 1]
  OBVIOUS
<1>1. /\ frames' = Append(frames, f) /\ visited' = visited \cup {u} /\ todo' = todo
      /\ f.expr = u /\ f.next = 1
  BY <1>0 DEF Enter
<1>2. Path /\ BottomIsRoot /\ OnFrames \subseteq visited /\ RootsAreOver /\ LeftIsOver /\ PassedIsOver
  BY DEF ReachInv
<1>3. /\ frames \in Seq(FrameType) /\ n \in Nat /\ DOMAIN frames = 1 .. n
      /\ \A i \in DOMAIN frames : frames[i].expr \in Expressions /\ frames[i].next \in Nat \ {0}
  BY <1>0, FrameElements
<1>4. n # 0 => Awaits(frames[n], u)
  <2>1. n # 0 => frames # <<>>
    BY <1>3
  <2> QED BY <1>0, <2>1, GraphInvGivesGraphOK, CallFacts
<1>5. n = 0 => u = constExpr(Head(todo))
  <2>1. n = 0 => frames = <<>>
    BY <1>3
  <2> QED BY <1>0, <2>1 DEF Called
<1>6. /\ \A v : constExpr(v)' = constExpr(v)
      /\ OwnValues(file)' = OwnValues(file)
  BY SameObjectsFacts DEF OwnValues
<1>7. u \notin visited /\ u \in Expressions
  BY <1>0
<1>8. /\ Len(frames') = n + 1 /\ DOMAIN frames' = 1 .. (n + 1)
      /\ \A i \in 1 .. n : frames'[i] = frames[i]
      /\ frames'[n + 1] = f
      /\ frames' # <<>>
  BY <1>0, <1>1, <1>3
<1>9. /\ \A i \in 1 .. (n + 1) : i \in 1 .. n \/ i = n + 1
      /\ \A i \in 1 .. n : i \in 1 .. (n + 1)
      /\ n + 1 \in 1 .. (n + 1)
  BY <1>3
<1>10. OnFrames' = OnFrames \cup {u}
  <2>1. OnFrames' = {frames'[i].expr : i \in 1 .. (n + 1)}
    BY <1>8 DEF OnFrames
  <2>2. OnFrames = {frames[i].expr : i \in 1 .. n}
    BY <1>3 DEF OnFrames
  <2> QED BY <1>1, <1>8, <1>9, <2>1, <2>2
<1>11. Left' = Left
  <2>1. u \notin visited
    BY <1>7
  <2> QED BY <1>1, <1>10, <2>1 DEF Left
<1>12. Over \subseteq Over' /\ visited' \subseteq Over'
  BY <1>1 DEF Over
<1>13. \A i \in 1 .. n : frames[i].expr \in visited
  BY <1>2, <1>3 DEF OnFrames
<1>14. Path'
  <2> SUFFICES ASSUME NEW i \in 1 .. n
               PROVE  Awaits(frames[i], frames[i + 1].expr)'
    <3>1. 1 .. Len(frames') - 1 = 1 .. n
      BY <1>3, <1>8
    <3> QED BY <3>1 DEF Path
  <2>1. \A e \in visited : Dependencies(e)' = Dependencies(e)
    OBVIOUS
  <2>2. frames'[i] = frames[i] /\ frames[i].expr \in visited
    BY <1>8, <1>13
  <2>3. CASE i = n
    <3>1. n # 0
      BY <1>3, <2>3
    <3>2. frames'[i + 1].expr = u
      BY <1>1, <1>8, <2>3
    <3> QED BY <1>4, <2>1, <2>2, <2>3, <3>1, <3>2 DEF Awaits
  <2>4. CASE i # n
    <3>1. i \in 1 .. n - 1 /\ i + 1 \in 1 .. n
      BY <1>3, <2>4
    <3>2. Awaits(frames[i], frames[i + 1].expr)
      BY <1>0, <1>2, <3>1 DEF Path
    <3>3. frames'[i + 1] = frames[i + 1]
      BY <1>8, <3>1
    <3> QED BY <2>1, <2>2, <3>2, <3>3 DEF Awaits
  <2> QED BY <2>3, <2>4
<1>15. BottomIsRoot'
  <2>1. CASE n = 0
    <3>1. frames'[1].expr = u
      BY <1>1, <1>8, <2>1
    <3> QED BY <1>1, <1>5, <1>6, <2>1, <3>1 DEF BottomIsRoot
  <2>2. CASE n # 0
    <3>1. frames'[1] = frames[1] /\ frames # <<>>
      BY <1>0, <1>3, <1>8, <2>2
    <3> QED BY <1>1, <1>2, <1>6, <3>1 DEF BottomIsRoot
  <2> QED BY <2>1, <2>2
<1>16. RootsAreOver'
  <2>1. ToSet(todo)' = ToSet(todo)
    BY <1>1 DEF ToSet
  <2> QED BY <1>2, <1>6, <1>12, <2>1 DEF RootsAreOver
<1>17. LeftIsOver'
  <2> SUFFICES ASSUME NEW e \in Left PROVE Deps(e)' \subseteq Over'
    BY <1>11 DEF LeftIsOver
  <2>1. Dependencies(e)' = Dependencies(e)
    BY DEF Left
  <2>2. Deps(e)' = Deps(e)
    BY <2>1 DEF Deps, ToSet
  <2> QED BY <1>2, <1>12, <2>2 DEF LeftIsOver
<1>18. PassedIsOver'
  <2> SUFFICES ASSUME NEW i \in 1 .. (n + 1), NEW k \in DOMAIN Dependencies(frames[i].expr)',
                      k < frames'[i].next
               PROVE  Dependencies(frames[i].expr)'[k] \in Over'
    BY <1>8 DEF PassedIsOver
  <2>1. \A e \in visited : Dependencies(e)' = Dependencies(e)
    OBVIOUS
  <2>2. CASE i \in 1 .. n
    <3>1. frames'[i] = frames[i] /\ frames[i].expr \in visited
      BY <1>8, <1>13, <2>2
    <3> QED BY <1>2, <1>3, <1>12, <2>1, <2>2, <3>1 DEF PassedIsOver
  <2>3. CASE i = n + 1
    <3>1. frames'[i].expr = u /\ frames'[i].next = 1
      BY <1>1, <1>8, <2>3
    <3>2. exprs'[u].args \in Seq(Expressions)
      BY <1>7 DEF SameObjects, GraphInv, ExprsInv, IsExpression
    <3>3. PICK p, T : p = exprs'[u].args /\ T = Expressions \cup {constExpr(exprs[u].ref)'}
      OBVIOUS
    <3>4. /\ p \in Seq(T) /\ <<constExpr(exprs[u].ref)'>> \in Seq(T) /\ <<>> \in Seq(T)
          /\ \A s, t \in Seq(T) : s \o t \in Seq(T)
      BY <3>2, <3>3
    <3>5. Dependencies(u)' \in Seq(T)
      BY <3>3, <3>4 DEF Dependencies
    <3>6. k \in DOMAIN Dependencies(u)' /\ k < 1
      BY <2>3, <3>1
    <3> QED BY <3>5, <3>6
  <2> QED BY <1>9, <2>2, <2>3
<1>19. OnFrames' \subseteq visited'
  BY <1>1, <1>2, <1>10
<1> QED BY <1>10, <1>11, <1>14, <1>15, <1>16, <1>17, <1>18, <1>19, <1>0 DEF ReachInv

LEMMA ReturnKeepsReach ==
    ASSUME GraphInv, ReachInv, SameObjects, SameEdges, file' = file,
           phase \in Running, phase' = phase, NEW callers,
           \/ callers = frames /\ (AtRoot \/ AtDependency) /\ Called \in Over
           \/ frames # <<>> /\ callers = Front(frames) /\ Top.next > Len(Dependencies(Top.expr)),
           ReturnTo(callers), visited' = visited, Completed \subseteq Completed'
    PROVE  /\ ReachInv' /\ OnFrames' \subseteq OnFrames /\ Left' \subseteq Left \cup {Top.expr}
           /\ callers = frames => Left' = Left
<1>1. Path /\ BottomIsRoot /\ OnFrames \subseteq visited /\ RootsAreOver /\ LeftIsOver /\ PassedIsOver
  BY DEF ReachInv
<1>2. PICK n, m, top : n = Len(frames) /\ m = Len(callers) /\ top = Top.expr
  OBVIOUS
<1>3. /\ frames \in Seq(FrameType) /\ n \in Nat /\ DOMAIN frames = 1 .. n
      /\ \A i \in DOMAIN frames : frames[i].expr \in Expressions /\ frames[i].next \in Nat \ {0}
      /\ frames # <<>> => n \in DOMAIN frames
      /\ visited \subseteq Expressions
  BY <1>2, FrameElements
<1>4. /\ callers \in Seq(FrameType) /\ m \in Nat /\ m <= n
      /\ \A i \in 1 .. m : i \in 1 .. n /\ callers[i] = frames[i]
      /\ callers = <<>> <=> m = 0
      /\ callers = frames => m = n
      /\ callers # frames => m = n - 1
  <2>1. CASE callers = frames
    BY <1>2, <1>3, <2>1
  <2>2. CASE callers # frames
    <3>1. frames # <<>> /\ callers = Front(frames)
      BY <2>2
    <3>2. callers \in Seq(FrameType) /\ m = n - 1 /\ \A i \in 1 .. n - 1 : callers[i] = frames[i]
      BY <1>2, <3>1, FrontFacts
    <3>3. callers = <<>> <=> m = 0
      <4>1. ASSUME NEW s \in Seq(FrameType) PROVE s = <<>> <=> Len(s) = 0
        OBVIOUS
      <4> QED BY <1>2, <3>2, <4>1
    <3>4. n - 1 \in Nat /\ n - 1 <= n /\ \A i \in 1 .. n - 1 : i \in 1 .. n
      BY <1>3, <3>1
    <3> QED BY <2>2, <3>2, <3>3, <3>4
  <2> QED BY <2>1, <2>2
<1>5. \A e \in Expressions : Dependencies(e)' = Dependencies(e)
  BY DEF SameEdges
<1>6. /\ \A v : constExpr(v)' = constExpr(v)
      /\ OwnValues(file)' = OwnValues(file)
  BY SameObjectsFacts DEF OwnValues
<1>7. Over \subseteq Over' /\ visited \subseteq Over
  BY DEF Over
<1>8. callers # frames => /\ top = frames[n].expr /\ frames[n].next > Len(Dependencies(top))
                          /\ n \in DOMAIN frames /\ top \in visited
  <2> SUFFICES ASSUME callers # frames
               PROVE  /\ top = frames[n].expr /\ frames[n].next > Len(Dependencies(top))
                      /\ n \in DOMAIN frames /\ top \in visited
    OBVIOUS
  <2>1. frames # <<>> /\ Top.next > Len(Dependencies(Top.expr))
    OBVIOUS
  <2>2. n \in DOMAIN frames /\ Top = frames[n]
    BY <1>2, <1>3, <2>1 DEF Top, Last
  <2> QED BY <1>1, <1>2, <2>1, <2>2 DEF OnFrames
\* the expression to which the activation returns
<1>9. \E d : /\ d \in Over
             /\ m # 0 => Awaits(frames[m], d)
             /\ m = 0 => d = constExpr(Head(todo))
  <2>1. CASE callers = frames
    <3>1. (AtRoot \/ AtDependency) /\ Called \in Over
      <4>1. frames # <<>> => Front(frames) # frames
        BY <1>2, <1>3, FrontFacts
      <4> QED BY <2>1, <4>1
    <3>2. m # 0 => Awaits(frames[m], Called)
      BY <1>2, <2>1, <3>1, <1>4, GraphInvGivesGraphOK, CallFacts
    <3>3. m = 0 => Called = constExpr(Head(todo))
      BY <1>4, <2>1 DEF Called
    <3> QED BY <3>1, <3>2, <3>3
  <2>2. CASE callers # frames
    <3>1. m # 0 => Awaits(frames[m], top)
      <4> SUFFICES ASSUME m # 0 PROVE Awaits(frames[m], top)
        OBVIOUS
      <4>1. m \in 1 .. n - 1 /\ m + 1 = n
        BY <1>3, <1>4, <2>2
      <4> QED BY <1>1, <1>2, <1>8, <2>2, <4>1 DEF Path
    <3>2. m = 0 => top = constExpr(Head(todo))
      <4>1. m = 0 => n = 1
        BY <1>3, <1>4, <2>2
      <4> QED BY <1>1, <1>8, <2>2, <4>1 DEF BottomIsRoot
    <3> QED BY <1>7, <1>8, <2>2, <3>1, <3>2
  <2> QED BY <2>1, <2>2
<1>10. PICK d : d \in Over /\ (m # 0 => Awaits(frames[m], d)) /\ (m = 0 => d = constExpr(Head(todo)))
  BY <1>9
<1>11. /\ DOMAIN frames' = 1 .. m /\ Len(frames') = m
       /\ \A i \in 1 .. m :
            /\ frames'[i].expr = frames[i].expr
            /\ frames'[i].next = IF i = m THEN frames[i].next + 1 ELSE frames[i].next
       /\ frames' # <<>> <=> m # 0
  <2>1. /\ frames' \in Seq(FrameType) /\ Len(frames') = m /\ DOMAIN frames' = 1 .. m
        /\ \A i \in 1 .. m :
            /\ frames'[i].expr = callers[i].expr
            /\ frames'[i].next = IF i = m THEN callers[i].next + 1 ELSE callers[i].next
    BY <1>2, <1>4, ReturnFacts
  <2>2. frames' # <<>> <=> m # 0
    BY <2>1
  <2> QED BY <1>4, <2>1, <2>2
<1>12. /\ OnFrames = {frames[i].expr : i \in 1 .. n}
       /\ OnFrames' = {frames[i].expr : i \in 1 .. m}
  BY <1>3, <1>11 DEF OnFrames
<1>13. OnFrames' \subseteq OnFrames
  BY <1>4, <1>12
<1>14. /\ callers = frames => OnFrames' = OnFrames
       /\ callers # frames => OnFrames \subseteq OnFrames' \cup {top}
  <2>1. callers # frames => \A i \in 1 .. n : i \in 1 .. m \/ i = n
    BY <1>3, <1>4
  <2> QED BY <1>4, <1>8, <1>12, <2>1
<1>15. /\ callers = frames => Left' = Left
       /\ callers # frames => Left' \subseteq Left \cup {top}
  BY <1>14 DEF Left
<1>16. Path'
  <2> SUFFICES ASSUME NEW i \in 1 .. m - 1
               PROVE  Awaits(frames[i], frames[i + 1].expr)'
    BY <1>11 DEF Path
  <2>1. i \in 1 .. Len(frames) - 1 /\ i \in 1 .. m /\ i + 1 \in 1 .. m /\ i # m
    BY <1>2, <1>3, <1>4
  <2>2. Awaits(frames[i], frames[i + 1].expr) /\ frames[i].expr \in Expressions
    BY <1>1, <1>3, <1>4, <2>1 DEF Path
  <2>3. /\ frames'[i].expr = frames[i].expr /\ frames'[i].next = frames[i].next
        /\ frames'[i + 1].expr = frames[i + 1].expr
    BY <1>11, <2>1
  <2> QED BY <1>5, <2>2, <2>3 DEF Awaits
<1>17. m # 0 => todo' = todo
  BY <1>4 DEF ReturnTo
<1>18. BottomIsRoot'
  <2> SUFFICES ASSUME m # 0 PROVE frames'[1].expr = constExpr(Head(todo))'
    BY <1>11 DEF BottomIsRoot
  <2>1. 1 \in 1 .. m /\ frames # <<>>
    BY <1>3, <1>4
  <2> QED BY <1>1, <1>6, <1>11, <1>17, <2>1 DEF BottomIsRoot
<1>19. RootsAreOver'
  <2> SUFFICES ASSUME NEW v \in OwnValues(file)
               PROVE  v \in ToSet(todo') \/ constExpr(v) \in Over'
    BY <1>6 DEF RootsAreOver
  <2>1. v \in ToSet(todo) \/ constExpr(v) \in Over
    BY <1>1 DEF RootsAreOver
  <2>2. CASE m # 0
    BY <1>7, <1>17, <2>1, <2>2
  <2>3. CASE m = 0
    <3>1. todo' = Tail(todo)
      BY <1>4, <2>3 DEF ReturnTo
    <3>2. todo # <<>>
      BY DEF AtRoot, AtDependency, GraphInv, FramesInv
    <3>3. ToSet(todo) \subseteq {Head(todo)} \cup ToSet(Tail(todo))
      BY <3>2, TodoFacts
    <3>4. constExpr(Head(todo)) \in Over
      BY <1>10, <2>3
    <3> QED BY <1>7, <2>1, <3>1, <3>3, <3>4
  <2> QED BY <2>2, <2>3
<1>20. LeftIsOver'
  <2> SUFFICES ASSUME NEW e \in Left' PROVE Deps(e)' \subseteq Over'
    BY DEF LeftIsOver
  <2>1. e \in Expressions
    BY <1>3 DEF Left
  <2>2. Deps(e)' = Deps(e)
    BY <1>5, <2>1 DEF Deps, ToSet
  <2>3. Deps(e) \subseteq Over
    <3>1. CASE e \in Left
      BY <1>1, <3>1 DEF LeftIsOver
    <3>2. CASE e \notin Left
      <4>1. callers # frames /\ e = top
        BY <1>15, <3>2
      <4>2. /\ frames[n].expr = top /\ n \in DOMAIN frames
            /\ frames[n].next > Len(Dependencies(top)) /\ frames[n].next \in Nat
        BY <1>3, <1>8, <4>1
      <4>3. DOMAIN Dependencies(top) = 1 .. Len(Dependencies(top)) /\ Len(Dependencies(top)) \in Nat
        BY <2>1, <4>1, GraphInvGivesGraphOK, DependenciesType
      <4>4. \A k \in DOMAIN Dependencies(top) : k < frames[n].next
        BY <4>2, <4>3
      <4>5. \A k \in DOMAIN Dependencies(top) : Dependencies(top)[k] \in Over
        BY <1>1, <4>2, <4>4 DEF PassedIsOver
      <4> QED BY <4>1, <4>5 DEF Deps, ToSet
    <3> QED BY <3>1, <3>2
  <2> QED BY <1>7, <2>2, <2>3
<1>21. PassedIsOver'
  <2> SUFFICES ASSUME NEW i \in 1 .. m, NEW k \in DOMAIN Dependencies(frames[i].expr)',
                      k < frames'[i].next
               PROVE  Dependencies(frames[i].expr)'[k] \in Over'
    BY <1>11 DEF PassedIsOver
  <2>1. PICK e : e = frames[i].expr
    OBVIOUS
  <2>2. e \in Expressions /\ frames'[i].expr = e /\ i \in DOMAIN frames /\ frames[i].next \in Nat
    BY <1>3, <1>4, <1>11, <2>1
  <2>3. Dependencies(frames[i].expr)' = Dependencies(e)
    BY <1>5, <2>2
  <2>4. k \in DOMAIN Dependencies(e) /\ k \in Nat
    <3>1. DOMAIN Dependencies(e) = 1 .. Len(Dependencies(e)) /\ Len(Dependencies(e)) \in Nat
      BY <2>2, GraphInvGivesGraphOK, DependenciesType
    <3> QED BY <2>3, <3>1
  <2>5. CASE k < frames[i].next
    <3>1. Dependencies(e)[k] \in Over
      BY <1>1, <2>1, <2>2, <2>4, <2>5 DEF PassedIsOver
    <3> QED BY <1>7, <2>3, <3>1
  <2>6. CASE ~(k < frames[i].next)
    <3>1. i = m /\ k = frames[i].next
      <4>1. frames'[i].next = IF i = m THEN frames[i].next + 1 ELSE frames[i].next
        BY <1>11
      <4> QED BY <2>2, <2>4, <2>6, <4>1
    <3>2. Awaits(frames[m], d)
      BY <1>4, <1>10, <3>1
    <3>3. Dependencies(e)[k] = d
      BY <2>1, <3>1, <3>2 DEF Awaits
    <3> QED BY <1>7, <1>10, <2>3, <3>3
  <2> QED BY <2>5, <2>6
<1>22. OnFrames' \subseteq visited'
  BY <1>1, <1>13
<1> QED BY <1>2, <1>13, <1>15, <1>16, <1>18, <1>19, <1>20, <1>21, <1>22 DEF ReachInv

-----------------------------------------------------------------------------
(* Nothing is evaluated before what it is computed from.                   *)

EvaluatedInv ==
    /\ \A e \in Evaluated : e \in Resolved /\ Deps(e) \subseteq Evaluated
    /\ Completed \subseteq Evaluated

\* the expressions of the file and all that they lead to
Closed(S) == Roots \subseteq S /\ \A e \in S : Deps(e) \subseteq S

(* What each pass hands on to the next: all that the file leads to is      *)
(* looked up, has no circle, is evaluated.                                 *)
ReadyInv ==
    /\ phase = "lookup" => visited \subseteq Resolved
    /\ phase = "checkAcyclic" => \E S \in SUBSET Resolved : Closed(S)
    /\ phase \in {"validate", "evaluate"} =>
         \E S \in SUBSET Resolved :
            Closed(S) /\ ~HasCircle(S) /\ (phase = "evaluate" => OnFrames \subseteq S)
    /\ phase = "evaluate" => Left \subseteq Evaluated
    /\ phase = "complete" => Roots \subseteq Evaluated /\ OnFrames \subseteq Evaluated
    /\ \A v \in AllValues : FileOf(v[1]) < file \/ phase = "accepted" => constExpr(v) \in Evaluated

OrderInv == ReachInv /\ EvaluatedInv /\ ReadyInv

\* all that a step leaves alone when it leaves the program alone
LEMMA SameProgram ==
    ASSUME GraphInv, UNCHANGED program, file' = file
    PROVE  /\ SameObjects /\ SameEdges
           /\ Expressions' = Expressions /\ AllValues' = AllValues
           /\ Evaluated' = Evaluated /\ Completed' = Completed /\ Resolved' = Resolved
           /\ Roots' = Roots
           /\ \A v : constExpr(v)' = constExpr(v)
           /\ \A t : FileOf(t)' = FileOf(t)
           /\ \A e : Deps(e)' = Deps(e)
           /\ \A es : HasCircle(es)' = HasCircle(es)
           /\ \A S : Closed(S)' = Closed(S)
           /\ EvaluatedInv => EvaluatedInv'
<1>1. types' = types /\ exprs' = exprs /\ values' = values
  BY DEF program
<1>2. SameObjects
  BY ProgramStays
<1>3. /\ \A v : constExpr(v)' = constExpr(v)
      /\ \A t : FileOf(t)' = FileOf(t)
      /\ Expressions' = Expressions /\ AllValues' = AllValues
      /\ OwnValues(file)' = OwnValues(file)
  BY <1>2, SameObjectsFacts DEF OwnValues
<1>4. SameEdges
  BY <1>1, <1>2, EdgesStay
<1>5. /\ \A e : Deps(e)' = Deps(e)
      /\ \A es : HasCircle(es)' = HasCircle(es)
  BY <1>1, SameDependencies
<1>6. Evaluated' = Evaluated /\ Completed' = Completed /\ Resolved' = Resolved
  BY <1>1, <1>3 DEF Evaluated, Completed, Resolved, IsUnresolved
<1>7. Roots' = Roots
  BY <1>3 DEF Roots
<1>8. \A S : Closed(S)' = Closed(S)
  BY <1>5, <1>7 DEF Closed
<1>9. EvaluatedInv => EvaluatedInv'
  BY <1>5, <1>6 DEF EvaluatedInv
<1> QED BY <1>2, <1>3, <1>4, <1>5, <1>6, <1>7, <1>8, <1>9

\* the next call stays in what is closed
LEMMA CalledInClosed ==
    ASSUME GraphInv, AtRoot \/ AtDependency,
           NEW S, Closed(S), OnFrames \subseteq S
    PROVE  Called \in S
<1>1. CASE frames = <<>>
  <2>1. todo # <<>> /\ Called = constExpr(Head(todo))
    BY <1>1 DEF AtRoot, AtDependency, Called
  <2>2. Head(todo) \in OwnValues(file)
    BY <2>1, TodoFacts
  <2> QED BY <2>1, <2>2 DEF Closed, Roots
<1>2. CASE frames # <<>>
  <2>1. Awaits(frames[Len(frames)], Called)
    BY <1>2, GraphInvGivesGraphOK, CallFacts
  <2>2. frames[Len(frames)].expr \in S
    BY <1>2, FrameElements DEF OnFrames
  <2> QED BY <2>1, <2>2 DEF Awaits, Closed, Deps, ToSet
<1> QED BY <1>1, <1>2

\* when an expression is evaluated, what it depends on has been
LEMMA DependenciesAreEvaluated ==
    ASSUME GraphInv, OrderInv, Leaves("evaluate")
    PROVE  /\ Top.expr \in Expressions /\ Top.expr \in Resolved
           /\ Deps(Top.expr) \subseteq Evaluated
<1>1. phase = "evaluate" /\ frames # <<>> /\ Top.next > Len(Dependencies(Top.expr))
  BY DEF Leaves
<1>2. Path /\ OnFrames \subseteq visited /\ PassedIsOver
  BY <1>1, RunningNames DEF OrderInv, ReachInv
<1>3. PICK S \in SUBSET Resolved : Closed(S) /\ ~HasCircle(S) /\ OnFrames \subseteq S
  BY <1>1 DEF OrderInv, ReadyInv
<1>4. PICK top, n : top = Top.expr /\ n = Len(frames)
  OBVIOUS
<1>5. /\ n \in DOMAIN frames /\ top = frames[n].expr /\ frames[n].next > Len(Dependencies(top))
      /\ frames[n].next \in Nat /\ top \in OnFrames /\ top \in Expressions
  BY <1>1, <1>4, FrameElements DEF Top, Last, OnFrames
<1>6. DOMAIN Dependencies(top) = 1 .. Len(Dependencies(top)) /\ Len(Dependencies(top)) \in Nat
  BY <1>5, GraphInvGivesGraphOK, DependenciesType
<1>7. ASSUME NEW d \in Deps(top) PROVE d \in Evaluated
  <2>1. PICK k \in DOMAIN Dependencies(top) : d = Dependencies(top)[k]
    BY DEF Deps, ToSet
  <2>2. k < frames[n].next
    BY <1>5, <1>6
  <2>3. d \in visited \cup Completed
    BY <1>1, <1>2, <1>5, <2>1, <2>2 DEF PassedIsOver, Over
  <2>4. d \notin OnFrames
    <3> SUFFICES ASSUME NEW j \in DOMAIN frames, d = frames[j].expr PROVE FALSE
      BY DEF OnFrames
    <3>1. frames[j].expr \in Deps(frames[Len(frames)].expr)
      BY <1>4, <1>5
    <3>2. HasCircle(OnFrames)
      BY <1>2, <3>1, GraphInvGivesGraphOK, PathCircle DEF OnFrames
    <3> QED BY <1>3, <3>2, CircleInMore
  <2> QED BY <1>1, <2>3, <2>4 DEF OrderInv, EvaluatedInv, ReadyInv, Left
<1> QED BY <1>3, <1>4, <1>5, <1>7

-----------------------------------------------------------------------------
(* The steps keep the order.                                               *)

LEMMA ReturnKeepsOrder ==
    ASSUME GraphInv, OrderInv, UNCHANGED program, file' = file,
           phase \in Running, phase' = phase, NEW callers,
           \/ callers = frames /\ (AtRoot \/ AtDependency) /\ Called \in Over
           \/ /\ frames # <<>> /\ callers = Front(frames) /\ Top.next > Len(Dependencies(Top.expr))
              /\ phase = "evaluate" => Top.expr \in Evaluated,
           ReturnTo(callers), visited' = visited
    PROVE  OrderInv'
<1>1. /\ SameObjects /\ SameEdges /\ AllValues' = AllValues
      /\ Evaluated' = Evaluated /\ Completed' = Completed /\ Resolved' = Resolved
      /\ Roots' = Roots
      /\ \A v : constExpr(v)' = constExpr(v)
      /\ \A t : FileOf(t)' = FileOf(t)
      /\ \A es : HasCircle(es)' = HasCircle(es)
      /\ \A S : Closed(S)' = Closed(S)
      /\ EvaluatedInv => EvaluatedInv'
  BY SameProgram
<1>2. /\ ReachInv' /\ OnFrames' \subseteq OnFrames /\ Left' \subseteq Left \cup {Top.expr}
      /\ callers = frames => Left' = Left
  <2>1. \/ callers = frames /\ (AtRoot \/ AtDependency) /\ Called \in Over
        \/ frames # <<>> /\ callers = Front(frames) /\ Top.next > Len(Dependencies(Top.expr))
    OBVIOUS
  <2> QED BY <1>1, <2>1, ReturnKeepsReach DEF OrderInv
<1>3. phase = "evaluate" => Left' \subseteq Evaluated
  BY <1>2 DEF OrderInv, ReadyInv
<1>4. ReadyInv'
  BY <1>1, <1>2, <1>3 DEF OrderInv, ReadyInv
<1> QED BY <1>1, <1>2, <1>4 DEF OrderInv

LEMMA EnterKeepsOrder ==
    ASSUME GraphInv, OrderInv, UNCHANGED program, file' = file,
           phase \in {"checkAcyclic", "validate", "evaluate"}, phase' = phase,
           AtRoot \/ AtDependency, Enter, Called \notin visited
    PROVE  OrderInv'
<1>1. /\ SameObjects /\ SameEdges /\ AllValues' = AllValues
      /\ Evaluated' = Evaluated /\ Completed' = Completed /\ Resolved' = Resolved
      /\ \A v : constExpr(v)' = constExpr(v)
      /\ \A t : FileOf(t)' = FileOf(t)
      /\ \A es : HasCircle(es)' = HasCircle(es)
      /\ \A S : Closed(S)' = Closed(S)
      /\ EvaluatedInv => EvaluatedInv'
  BY SameProgram
<1>2. phase \in Running
  BY RunningNames
<1>3. Called \in Expressions
  BY <1>2, CalledIsNear, RunningNames DEF IsNear
<1>4. \A e \in visited : Dependencies(e)' = Dependencies(e)
  BY <1>1, FrameElements DEF SameEdges
<1>5. ReachInv' /\ Left' = Left /\ OnFrames' = OnFrames \cup {Called}
  BY <1>1, <1>2, <1>3, <1>4, EnterKeepsReach DEF OrderInv
<1>6. ASSUME NEW S, Closed(S), OnFrames \subseteq S PROVE OnFrames' \subseteq S
  BY <1>5, <1>6, CalledInClosed
<1>7. ReadyInv'
  <2>1. ASSUME phase \in {"validate", "evaluate"}
        PROVE  \E S \in SUBSET Resolved :
                  Closed(S) /\ ~HasCircle(S) /\ (phase = "evaluate" => OnFrames' \subseteq S)
    <3>1. PICK S \in SUBSET Resolved :
              Closed(S) /\ ~HasCircle(S) /\ (phase = "evaluate" => OnFrames \subseteq S)
      BY <2>1 DEF OrderInv, ReadyInv
    <3> QED BY <1>6, <3>1
  <2> QED BY <1>1, <1>5, <2>1 DEF OrderInv, ReadyInv
<1> QED BY <1>1, <1>5, <1>7 DEF OrderInv

LEMMA LookUpKeepsOrder ==
    ASSUME GraphInv, OrderInv, LookUp
    PROVE  OrderInv'
<1>1. /\ Called \in Expressions /\ SameObjects
      /\ \A d \in Expressions : d # Called => exprs'[d] = exprs[d]
      /\ exprs'[Called].evaluated = exprs[Called].evaluated
      /\ exprs'[Called].completed = exprs[Called].completed
      /\ ~IsUnresolved(Called) => exprs' = exprs
      /\ exprs'[Called].shape = "reference" => exprs'[Called].ref # NoValue
  BY LookUpFacts
<1>2. /\ phase = "lookup" /\ phase' = phase /\ file' = file /\ (AtRoot \/ AtDependency) /\ Enter
      /\ Called \notin visited
  BY DEF LookUp, Calls, PassedOver
<1>3. PICK u : u = Called
  OBVIOUS
<1>4. /\ Expressions' = Expressions /\ AllValues' = AllValues
      /\ \A t : FileOf(t)' = FileOf(t)
      /\ \A v : constExpr(v)' = constExpr(v)
  BY <1>1, SameObjectsFacts
<1>5. /\ \A d \in Expressions : d # u => exprs'[d] = exprs[d]
      /\ exprs'[u].evaluated = exprs[u].evaluated /\ exprs'[u].completed = exprs[u].completed
      /\ ~IsUnresolved(u) => exprs' = exprs
      /\ exprs'[u].shape = "reference" => exprs'[u].ref # NoValue
      /\ u \in Expressions /\ u \notin visited
  BY <1>1, <1>2, <1>3
<1>6. Evaluated' = Evaluated /\ Completed' = Completed
  BY <1>4, <1>5 DEF Evaluated, Completed
<1>7. Resolved \subseteq Resolved' /\ u \in Resolved'
  BY <1>4, <1>5 DEF Resolved, IsUnresolved
<1>8. \A e \in Expressions : e # u \/ ~IsUnresolved(u) => Dependencies(e)' = Dependencies(e)
  BY <1>4, <1>5 DEF Dependencies
<1>9. ReachInv' /\ OnFrames' = OnFrames \cup {Called}
  <2>1. \A e \in visited : Dependencies(e)' = Dependencies(e)
    BY <1>5, <1>8, FrameElements
  <2>2. phase \in Running
    BY <1>2, RunningNames
  <2> QED BY <1>1, <1>2, <1>6, <2>1, <2>2, EnterKeepsReach DEF OrderInv
<1>10. EvaluatedInv'
  <2>1. ASSUME NEW e \in Evaluated PROVE Dependencies(e)' = Dependencies(e)
    <3>1. e \in Resolved /\ e \in Expressions
      BY DEF OrderInv, EvaluatedInv, Evaluated
    <3> QED BY <1>8, <3>1 DEF Resolved
  <2>2. \A e \in Evaluated : Deps(e)' = Deps(e)
    BY <2>1 DEF Deps, ToSet
  <2> QED BY <1>6, <1>7, <2>2 DEF OrderInv, EvaluatedInv
<1>11. visited' \subseteq Resolved'
  BY <1>2, <1>3, <1>7 DEF Enter, OrderInv, ReadyInv
<1>12. ReadyInv'
  BY <1>2, <1>4, <1>6, <1>11 DEF OrderInv, ReadyInv
<1> QED BY <1>9, <1>10, <1>12 DEF OrderInv

LEMMA EvaluateKeepsOrder ==
    ASSUME GraphInv, OrderInv, Evaluate
    PROVE  OrderInv'
<1>1. /\ Top.expr \in Expressions /\ SameObjects
      /\ \A d \in Expressions : d # Top.expr => exprs'[d] = exprs[d]
      /\ exprs'[Top.expr].evaluated
      /\ exprs'[Top.expr].ref = exprs[Top.expr].ref
      /\ exprs'[Top.expr].completed = exprs[Top.expr].completed
  BY EvaluateFacts
<1>2. /\ phase = "evaluate" /\ phase' = phase /\ file' = file /\ Leaves("evaluate")
      /\ frames # <<>> /\ Top.next > Len(Dependencies(Top.expr))
      /\ ReturnTo(Front(frames)) /\ visited' = visited
  BY DEF Evaluate, Leaves
<1>3. PICK u : u = Top.expr
  OBVIOUS
<1>4. /\ Expressions' = Expressions /\ AllValues' = AllValues
      /\ \A t : FileOf(t)' = FileOf(t)
      /\ \A v : constExpr(v)' = constExpr(v)
      /\ OwnValues(file)' = OwnValues(file)
  BY <1>1, <1>2, SameObjectsFacts DEF OwnValues
<1>5. /\ \A d \in Expressions : d # u => exprs'[d] = exprs[d]
      /\ exprs'[u].evaluated /\ exprs'[u].ref = exprs[u].ref
      /\ exprs'[u].completed = exprs[u].completed
      /\ u \in Expressions /\ u \in Resolved /\ Deps(u) \subseteq Evaluated
  BY <1>1, <1>2, <1>3, DependenciesAreEvaluated
<1>6. \A e \in Expressions : exprs'[e].ref = exprs[e].ref /\ exprs'[e].shape = exprs[e].shape
  BY <1>1, <1>5 DEF SameObjects
<1>7. /\ Evaluated' = Evaluated \cup {u} /\ Completed' = Completed /\ Resolved' = Resolved
  <2>1. Evaluated' = Evaluated \cup {u}
    BY <1>4, <1>5 DEF Evaluated
  <2>2. Completed' = Completed
    BY <1>4, <1>5 DEF Completed
  <2>3. Resolved' = Resolved
    BY <1>4, <1>6 DEF Resolved, IsUnresolved
  <2> QED BY <2>1, <2>2, <2>3
<1>8. SameEdges
  BY <1>1, <1>6, EdgesStay
<1>9. \A e \in Expressions : Deps(e)' = Deps(e)
  BY <1>8 DEF SameEdges, Deps, ToSet
<1>10. /\ ReachInv' /\ OnFrames' \subseteq OnFrames /\ Left' \subseteq Left \cup {u}
  <2>1. phase \in Running
    BY <1>2, RunningNames
  <2> QED BY <1>1, <1>2, <1>3, <1>7, <1>8, <2>1, ReturnKeepsReach DEF OrderInv
<1>11. EvaluatedInv'
  <2>1. Evaluated \subseteq Expressions
    BY DEF Evaluated
  <2> QED BY <1>5, <1>7, <1>9, <2>1 DEF OrderInv, EvaluatedInv
<1>12. \E S \in SUBSET Resolved : Closed(S)' /\ ~HasCircle(S)' /\ OnFrames' \subseteq S
  <2>1. PICK S \in SUBSET Resolved : Closed(S) /\ ~HasCircle(S) /\ OnFrames \subseteq S
    BY <1>2 DEF OrderInv, ReadyInv
  <2>2. S \subseteq Expressions
    BY DEF Resolved
  <2>3. Roots' = Roots
    BY <1>4 DEF Roots
  <2>4. Closed(S)'
    BY <1>9, <2>1, <2>2, <2>3 DEF Closed
  <2>5. ~HasCircle(S)'
    <3>1. \A e \in S : Dependencies(e)' = Dependencies(e)
      BY <1>8, <2>2 DEF SameEdges
    <3> QED BY <2>1, <3>1 DEF HasCircle
  <2> QED BY <1>10, <2>1, <2>4, <2>5
<1>13. Left' \subseteq Evaluated'
  BY <1>2, <1>7, <1>10 DEF OrderInv, ReadyInv
<1>14. ReadyInv'
  BY <1>2, <1>4, <1>7, <1>12, <1>13 DEF OrderInv, ReadyInv
<1> QED BY <1>10, <1>11, <1>14 DEF OrderInv

LEMMA CompleteKeepsOrder ==
    ASSUME GraphInv, OrderInv, setPostParseCompleted
    PROVE  OrderInv'
<1>1. /\ Called \in Expressions /\ SameObjects
      /\ \A d \in Expressions : d # Called => exprs'[d] = exprs[d]
      /\ exprs'[Called].evaluated = exprs[Called].evaluated
      /\ exprs'[Called].ref = exprs[Called].ref
  BY CompleteFacts
<1>2. /\ phase = "complete" /\ phase' = phase /\ file' = file /\ (AtRoot \/ AtDependency) /\ Enter
      /\ Called \notin visited
  BY DEF setPostParseCompleted, Calls, PassedOver
<1>3. PICK u : u = Called
  OBVIOUS
<1>4. /\ Expressions' = Expressions /\ AllValues' = AllValues
      /\ \A t : FileOf(t)' = FileOf(t)
      /\ \A v : constExpr(v)' = constExpr(v)
      /\ OwnValues(file)' = OwnValues(file)
  BY <1>1, <1>2, SameObjectsFacts DEF OwnValues
<1>5. /\ \A d \in Expressions : d # u => exprs'[d] = exprs[d]
      /\ exprs'[u].evaluated = exprs[u].evaluated /\ exprs'[u].ref = exprs[u].ref
      /\ u \in Expressions
  BY <1>1, <1>3
<1>6. \A e \in Expressions : exprs'[e].ref = exprs[e].ref /\ exprs'[e].shape = exprs[e].shape
  BY <1>1, <1>5 DEF SameObjects
<1>7. /\ Evaluated' = Evaluated /\ Resolved' = Resolved
      /\ Completed' \subseteq Completed \cup {u} /\ Completed \subseteq Completed'
  <2>1. Evaluated' = Evaluated
    BY <1>4, <1>5 DEF Evaluated
  <2>2. Completed' \subseteq Completed \cup {u}
    BY <1>4, <1>5 DEF Completed
  <2>3. Resolved' = Resolved
    BY <1>4, <1>6 DEF Resolved, IsUnresolved
  <2>4. Completed \subseteq Completed'
    <3>1. u \notin Completed
      BY <1>3 DEF setPostParseCompleted, PassedOver, Completed
    <3> QED BY <1>4, <1>5, <3>1 DEF Completed
  <2> QED BY <2>1, <2>2, <2>3, <2>4
<1>8. SameEdges
  BY <1>1, <1>6, EdgesStay
<1>9. \A e \in Expressions : Deps(e)' = Deps(e)
  BY <1>8 DEF SameEdges, Deps, ToSet
<1>10. u \in Evaluated
  <2>1. Closed(Evaluated) /\ OnFrames \subseteq Evaluated
    BY <1>2 DEF OrderInv, EvaluatedInv, ReadyInv, Closed
  <2> QED BY <1>2, <1>3, <2>1, CalledInClosed
<1>11. ReachInv' /\ OnFrames' = OnFrames \cup {u}
  <2>1. phase \in Running
    BY <1>2, RunningNames
  <2>2. \A e \in visited : Dependencies(e)' = Dependencies(e)
    BY <1>8, FrameElements DEF SameEdges
  <2> QED BY <1>1, <1>2, <1>3, <1>7, <2>1, <2>2, EnterKeepsReach DEF OrderInv
<1>12. EvaluatedInv'
  <2>1. Evaluated \subseteq Expressions
    BY DEF Evaluated
  <2> QED BY <1>7, <1>9, <1>10, <2>1 DEF OrderInv, EvaluatedInv
<1>13. Roots' = Roots
  BY <1>4 DEF Roots
<1>14. ReadyInv'
  BY <1>2, <1>4, <1>7, <1>10, <1>11, <1>13 DEF OrderInv, ReadyInv
<1> QED BY <1>11, <1>12, <1>14 DEF OrderInv

\* a step that leaves the passes, or that no pass over the graph takes
LEMMA StopKeepsOrder ==
    ASSUME GraphInv, OrderInv, UNCHANGED program, file' = file,
           phase' \in {"resolveInheritance"} \cup Failures \cup Aborts
    PROVE  OrderInv'
<1>1. /\ AllValues' = AllValues /\ Evaluated' = Evaluated
      /\ \A v : constExpr(v)' = constExpr(v)
      /\ \A t : FileOf(t)' = FileOf(t)
      /\ EvaluatedInv => EvaluatedInv'
  BY SameProgram
<1>2. /\ phase' \notin Running
      /\ phase' \notin {"lookup", "checkAcyclic", "validate", "evaluate", "complete", "accepted"}
  BY RunningNames DEF Ended, Failures, Aborts
<1>3. ReachInv'
  BY <1>2 DEF ReachInv
<1>4. ReadyInv'
  BY <1>1, <1>2 DEF OrderInv, ReadyInv
<1> QED BY <1>1, <1>3, <1>4 DEF OrderInv

LEMMA StutterKeepsOrder ==
    ASSUME GraphInv, OrderInv, UNCHANGED vars
    PROVE  OrderInv'
<1>1. /\ UNCHANGED program /\ file' = file /\ phase' = phase /\ todo' = todo
      /\ frames' = frames /\ visited' = visited /\ stack' = stack
      /\ exprs' = exprs /\ values' = values
  BY DEF vars, program, pass, walk
<1>2. /\ AllValues' = AllValues
      /\ Evaluated' = Evaluated /\ Completed' = Completed /\ Resolved' = Resolved /\ Roots' = Roots
      /\ \A v : constExpr(v)' = constExpr(v)
      /\ \A t : FileOf(t)' = FileOf(t)
      /\ \A e : Deps(e)' = Deps(e)
      /\ \A es : HasCircle(es)' = HasCircle(es)
      /\ \A S : Closed(S)' = Closed(S)
      /\ EvaluatedInv => EvaluatedInv'
  BY <1>1, SameProgram
<1>3. /\ \A e : Dependencies(e)' = Dependencies(e)
  BY <1>1, SameDependencies
<1>4. OnFrames' = OnFrames /\ Left' = Left /\ Over' = Over
  BY <1>1, <1>2 DEF OnFrames, Left, Over
<1>5. OwnValues(file)' = OwnValues(file) /\ ToSet(todo)' = ToSet(todo)
  BY <1>1, <1>2 DEF OwnValues, ToSet
<1>6. ReachInv'
  <2>1. Path' = Path /\ BottomIsRoot' = BottomIsRoot
    BY <1>1, <1>2, <1>3 DEF Path, Awaits, BottomIsRoot
  <2>2. RootsAreOver' = RootsAreOver /\ LeftIsOver' = LeftIsOver
    BY <1>2, <1>4, <1>5 DEF RootsAreOver, LeftIsOver
  <2>3. PassedIsOver' = PassedIsOver
    BY <1>1, <1>3, <1>4 DEF PassedIsOver
  <2> QED BY <1>1, <1>4, <2>1, <2>2, <2>3 DEF OrderInv, ReachInv
<1>7. ReadyInv'
  BY <1>1, <1>2, <1>4 DEF OrderInv, ReadyInv
<1> QED BY <1>2, <1>6, <1>7 DEF OrderInv

LEMMA NextPhaseKeepsOrder ==
    ASSUME GraphInv, AcyclicInv, OrderInv, NextPhase
    PROVE  OrderInv'
<1>1. /\ UNCHANGED program /\ todo = <<>> /\ frames = <<>>
      /\ frames' = <<>> /\ visited' = {} /\ stack' = stack
  BY DEF NextPhase
<1>2. PICK n \in DOMAIN Phases :
          /\ phase = Phases[n]
          /\ \/ n < Len(Phases) /\ file' = file /\ phase' = Phases[n + 1] /\ todo' = FileValues(file)
             \/ /\ n = Len(Phases) /\ file' = file + 1 /\ phase' = Phases[1]
             \/ /\ n = Len(Phases) /\ ~(file < LastFile)
                /\ phase' = "accepted" /\ file' = file
  BY PhaseNames DEF NextPhase, Follows, End
<1>3. /\ Phases[1] = "resolveInheritance" /\ Phases[2] = "lookup" /\ Phases[3] = "checkAcyclic"
      /\ Phases[4] = "validate" /\ Phases[5] = "evaluate" /\ Phases[6] = "complete"
      /\ Len(Phases) = 6 /\ DOMAIN Phases = 1 .. 6
  BY DEF Phases
<1>4. OnFrames = {} /\ Left = visited /\ OnFrames' = {} /\ Left' = {}
  BY <1>1 DEF OnFrames, Left
<1>5. \A v \in AllValues : FileOf(v[1]) \in Nat
  BY ValueFacts DEF GraphInv
<1>6. /\ file \in Nat \ {0} /\ LastFile \in Nat /\ file <= LastFile
      /\ {types[t].file : t \in DOMAIN types} = 1 .. LastFile
  BY FileIsNat
<1>7. phase \in Running => Roots \subseteq Over /\ \A e \in visited : Deps(e) \subseteq Over
  <2> SUFFICES ASSUME phase \in Running
               PROVE  Roots \subseteq Over /\ \A e \in visited : Deps(e) \subseteq Over
    OBVIOUS
  <2>1. RootsAreOver /\ LeftIsOver
    BY DEF OrderInv, ReachInv
  <2>2. ToSet(todo) = {}
    BY <1>1 DEF ToSet
  <2> QED BY <1>4, <2>1, <2>2 DEF RootsAreOver, LeftIsOver, Roots
<1>8. ASSUME file' = file, todo' = FileValues(file) PROVE ReachInv'
  <2>1. /\ OwnValues(file)' = OwnValues(file) /\ \A v : constExpr(v)' = constExpr(v)
    BY <1>1, <1>8, SameProgram DEF OwnValues
  <2>2. ToSet(todo)' = OwnValues(file)
    BY <1>8, FileValuesFacts DEF GraphInv, ToSet
  <2>3. RootsAreOver'
    BY <2>1, <2>2 DEF RootsAreOver
  <2>4. Path' /\ BottomIsRoot' /\ PassedIsOver'
    BY <1>1 DEF Path, BottomIsRoot, PassedIsOver
  <2>5. LeftIsOver' /\ OnFrames' \subseteq visited'
    BY <1>4 DEF LeftIsOver
  <2> QED BY <2>3, <2>4, <2>5 DEF ReachInv
<1>9. ASSUME file' = file
      PROVE  /\ AllValues' = AllValues
             /\ Evaluated' = Evaluated /\ Completed' = Completed /\ Resolved' = Resolved /\ Roots' = Roots
             /\ \A v : constExpr(v)' = constExpr(v)
             /\ \A t : FileOf(t)' = FileOf(t)
             /\ \A es : HasCircle(es)' = HasCircle(es)
             /\ \A S : Closed(S)' = Closed(S)
             /\ EvaluatedInv'
  BY <1>1, <1>9, SameProgram DEF OrderInv
<1>10. n \in {1, 2, 3, 4, 5, 6}
  BY <1>3
<1>11. ASSUME phase' = Phases[n + 1], n # 6, file' = file, todo' = FileValues(file) PROVE OrderInv'
  <2>1. ReachInv' /\ EvaluatedInv'
    BY <1>8, <1>9, <1>11
  <2>2. \A v \in AllValues : FileOf(v[1]) < file => constExpr(v) \in Evaluated
    BY DEF OrderInv, ReadyInv
  <2>3. CASE n = 1
    <3>1. phase' = "lookup"
      BY <1>3, <1>11, <2>3
    <3>2. ReadyInv'
      BY <1>1, <1>9, <1>11, <2>2, <3>1 DEF ReadyInv
    <3> QED BY <2>1, <3>2 DEF OrderInv
  <2>4. CASE n = 2
    <3>1. phase' = "checkAcyclic" /\ phase = "lookup"
      BY <1>2, <1>3, <1>11, <2>4
    <3> DEFINE S == visited \cup Evaluated
    <3>2. S \subseteq Resolved
      BY <3>1 DEF OrderInv, ReadyInv, EvaluatedInv
    <3>3. Closed(S)
      <4>1. Over \subseteq S
        BY <3>1 DEF Over, OrderInv, EvaluatedInv
      <4>2. phase \in Running
        BY <3>1, RunningNames
      <4> QED BY <1>7, <4>1, <4>2 DEF Closed, OrderInv, EvaluatedInv
    <3> HIDE DEF S
    <3>4. \E T \in SUBSET Resolved' : Closed(T)'
      BY <1>9, <1>11, <3>2, <3>3
    <3>5. ReadyInv'
      BY <1>9, <1>11, <2>2, <3>1, <3>4 DEF ReadyInv
    <3> QED BY <2>1, <3>5 DEF OrderInv
  <2>5. CASE n = 3
    <3>1. phase' = "validate" /\ phase = "checkAcyclic"
      BY <1>2, <1>3, <1>11, <2>5
    <3>2. PICK T \in SUBSET Resolved : Closed(T)
      BY <3>1 DEF OrderInv, ReadyInv
    <3> DEFINE S == T \cap visited
    <3>3. Closed(S)
      <4>1. Over = visited /\ phase \in Running
        BY <3>1, RunningNames DEF Over
      <4> QED BY <1>7, <3>2, <4>1 DEF Closed
    <3>4. ~HasCircle(S)
      <4>1. ~HasCircle(visited)
        <5>1. stack = {} /\ NoCircle
          BY <1>1, <3>1 DEF AcyclicInv, WalkInv, StackIsFrames
        <5> QED BY <5>1 DEF NoCircle, Finished
      <4>2. S \subseteq visited
        OBVIOUS
      <4> HIDE DEF S
      <4> QED BY <4>1, <4>2, CircleInMore
    <3>5. S \in SUBSET Resolved
      OBVIOUS
    <3> HIDE DEF S
    <3>6. ReadyInv'
      BY <1>9, <1>11, <2>2, <3>1, <3>3, <3>4, <3>5 DEF ReadyInv
    <3> QED BY <2>1, <3>6 DEF OrderInv
  <2>6. CASE n = 4
    <3>1. phase' = "evaluate" /\ phase = "validate"
      BY <1>2, <1>3, <1>11, <2>6
    <3>2. PICK S \in SUBSET Resolved : Closed(S) /\ ~HasCircle(S)
      BY <3>1 DEF OrderInv, ReadyInv
    <3>3. OnFrames' \subseteq S
      BY <1>4
    <3>4. ReadyInv'
      BY <1>4, <1>9, <1>11, <2>2, <3>1, <3>2, <3>3 DEF ReadyInv
    <3> QED BY <2>1, <3>4 DEF OrderInv
  <2>7. CASE n = 5
    <3>1. phase' = "complete" /\ phase = "evaluate"
      BY <1>2, <1>3, <1>11, <2>7
    <3>2. Roots \subseteq Evaluated
      <4>1. phase \in Running /\ Over = visited \cup Completed
        BY <3>1, RunningNames DEF Over
      <4>2. Over \subseteq Evaluated
        BY <1>4, <3>1, <4>1 DEF OrderInv, ReadyInv, EvaluatedInv
      <4> QED BY <1>7, <4>1, <4>2
    <3>3. ReadyInv'
      BY <1>4, <1>9, <1>11, <2>2, <3>1, <3>2 DEF ReadyInv
    <3> QED BY <2>1, <3>3 DEF OrderInv
  <2> QED BY <1>10, <1>11, <2>3, <2>4, <2>5, <2>6, <2>7
<1>12. ASSUME n = 6 PROVE \A v \in AllValues : FileOf(v[1]) <= file => constExpr(v) \in Evaluated
  <2>1. phase = "complete"
    BY <1>2, <1>3, <1>12
  <2>2. Roots \subseteq Evaluated /\ \A v \in AllValues : FileOf(v[1]) < file => constExpr(v) \in Evaluated
    BY <2>1 DEF OrderInv, ReadyInv
  <2>3. ASSUME NEW v \in AllValues, FileOf(v[1]) = file PROVE constExpr(v) \in Roots
    BY <2>3 DEF Roots, OwnValues
  <2> QED BY <1>5, <1>6, <2>2, <2>3
<1>13. ASSUME n = 6, phase' = "accepted", file' = file, ~(file < LastFile) PROVE OrderInv'
  <2>1. \A v \in AllValues : FileOf(v[1]) <= file
    <3>1. ASSUME NEW v \in AllValues PROVE FileOf(v[1]) \in 1 .. LastFile
      BY <1>6, ValueFacts DEF FileOf, GraphInv
    <3> QED BY <1>6, <1>13, <3>1
  <2>2. ReadyInv'
    BY <1>9, <1>12, <1>13, <2>1 DEF ReadyInv
  <2>3. ReachInv'
    BY <1>13, RunningNames DEF ReachInv
  <2> QED BY <1>9, <1>13, <2>2, <2>3 DEF OrderInv
<1>14. ASSUME n = 6, phase' = "resolveInheritance", file' = file + 1 PROVE OrderInv'
  <2>1. exprs' = exprs /\ values' = values /\ types' = types
    BY <1>1 DEF program
  <2>2. /\ AllValues' = AllValues /\ Evaluated' = Evaluated /\ Completed' = Completed
        /\ Resolved' = Resolved
        /\ \A v : constExpr(v)' = constExpr(v)
        /\ \A t : FileOf(t)' = FileOf(t)
        /\ \A e : Deps(e)' = Deps(e)
    <3>1. /\ AllValues' = AllValues /\ \A v : constExpr(v)' = constExpr(v)
          /\ \A t : FileOf(t)' = FileOf(t)
      BY <2>1 DEF AllValues, constExpr, FileOf
    <3>2. Evaluated' = Evaluated /\ Completed' = Completed /\ Resolved' = Resolved
      BY <2>1 DEF Evaluated, Completed, Resolved, IsUnresolved, Expressions
    <3> QED BY <2>1, <3>1, <3>2, SameDependencies
  <2>3. EvaluatedInv'
    BY <2>2 DEF OrderInv, EvaluatedInv
  <2>4. \A v \in AllValues : FileOf(v[1]) < file' => FileOf(v[1]) <= file
    BY <1>5, <1>6, <1>14
  <2>5. ReadyInv'
    BY <1>12, <1>14, <2>2, <2>4 DEF ReadyInv
  <2>6. ReachInv'
    BY <1>14, RunningNames DEF ReachInv
  <2> QED BY <2>3, <2>5, <2>6 DEF OrderInv
<1> QED BY <1>2, <1>3, <1>10, <1>11, <1>13, <1>14

-----------------------------------------------------------------------------
LEMMA NoDependencies ==
    \A e : exprs[e].args = <<>> /\ exprs[e].ref = NoValue => Deps(e) = {}
<1> SUFFICES ASSUME NEW e, exprs[e].args = <<>>, exprs[e].ref = NoValue PROVE Deps(e) = {}
  OBVIOUS
<1>1. Dependencies(e) = <<>> \o <<>>
  BY DEF Dependencies
<1>2. <<>> \o <<>> = <<>>
  OBVIOUS
<1> QED BY <1>1, <1>2 DEF Deps, ToSet

LEMMA NoDependenciesThen ==
    \A e : exprs'[e].args = <<>> /\ exprs'[e].ref = NoValue => Deps(e)' = {}
<1> SUFFICES ASSUME NEW e, exprs'[e].args = <<>>, exprs'[e].ref = NoValue PROVE Deps(e)' = {}
  OBVIOUS
<1>1. Dependencies(e)' = <<>> \o <<>>
  BY DEF Dependencies
<1>2. <<>> \o <<>> = <<>>
  OBVIOUS
<1> QED BY <1>1, <1>2 DEF Deps, ToSet

\* a reference depends on the expression of its value
LEMMA ReferenceIsDependency ==
    ASSUME GraphInv, NEW e \in Expressions, exprs[e].ref # NoValue
    PROVE  constExpr(exprs[e].ref) \in Deps(e)
<1> DEFINE args == exprs[e].args
           r == constExpr(exprs[e].ref)
<1>1. args \in Seq(Expressions)
  BY DEF GraphInv, ExprsInv, IsExpression
<1>2. Dependencies(e) = args \o <<r>>
  BY DEF Dependencies
<1> HIDE DEF args, r
<1>3. Len(args) + 1 \in DOMAIN (args \o <<r>>) /\ (args \o <<r>>)[Len(args) + 1] = r
  BY <1>1
<1>4. r \in Deps(e)
  BY <1>2, <1>3 DEF Deps, ToSet
<1> QED BY <1>4 DEF r

LEMMA AutofillKeepsOrder ==
    ASSUME GraphInv, OrderInv, Autofill
    PROVE  OrderInv'
<1>1. PICK n, m, h : n = Len(exprs) /\ m = Len(exprs') /\ h = Head(todo)
  OBVIOUS
<1>2. /\ n \in Nat /\ m \in Nat /\ n < m /\ Expressions = 1 .. n /\ Expressions' = 1 .. m
      /\ \A e \in 1 .. n : exprs'[e] = exprs[e]
      /\ \A e \in (n + 1) .. m :
           /\ exprs'[e].evaluated =>
                exprs'[e].args = <<>> /\ exprs'[e].ref = NoValue /\ exprs'[e].shape = "literal"
           /\ ~exprs'[e].completed
  BY <1>1, AutofillFacts
<1>3. /\ types' = types /\ todo # <<>> /\ h \in AllValues
      /\ AllValues' = AllValues
      /\ \A v \in AllValues : constExpr(v)' = IF v = h THEN m ELSE constExpr(v)
  BY <1>1, AutofillValues
<1>4. /\ file' = file /\ phase' = phase /\ phase = "resolveInheritance" /\ constExpr(h) = 0
  BY <1>1 DEF Autofill
<1>5. FileOf(h[1]) = file
  BY <1>1, <1>3, TodoFacts DEF OwnValues
<1>6. /\ \A e \in 1 .. m : e \in 1 .. n \/ e \in (n + 1) .. m
      /\ \A e \in 1 .. n : e \in 1 .. m
      /\ 0 \notin 1 .. n
  BY <1>2
<1>7. /\ Evaluated \subseteq 1 .. n
      /\ Evaluated \subseteq Evaluated'
      /\ \A e \in Evaluated' : e \in Evaluated \/ (e \in (n + 1) .. m /\ exprs'[e].evaluated)
  BY <1>2, <1>6 DEF Evaluated
<1>8. Completed' \subseteq Completed
  BY <1>2, <1>6 DEF Completed
<1>9. EvaluatedInv
  BY DEF OrderInv
<1>10. ASSUME NEW e \in Evaluated
       PROVE  e \in Resolved' /\ Deps(e)' \subseteq Evaluated'
  <2>1. e \in 1 .. n /\ e \in 1 .. m /\ exprs'[e] = exprs[e] /\ e \in Resolved /\ Deps(e) \subseteq Evaluated
    BY <1>2, <1>6, <1>7, <1>9 DEF EvaluatedInv
  <2>2. e \in Resolved'
    BY <1>2, <2>1 DEF Resolved, IsUnresolved
  <2>3. Dependencies(e)' = Dependencies(e)
    <3>1. CASE exprs[e].ref = NoValue
      BY <2>1, <3>1 DEF Dependencies
    <3>2. CASE exprs[e].ref # NoValue
      <4>1. exprs[e].ref \in AllValues
        BY <1>2, <2>1, <3>2 DEF GraphInv, ExprsInv, IsExpression
      <4>2. constExpr(exprs[e].ref) \in Evaluated
        BY <1>2, <2>1, <3>2, ReferenceIsDependency
      <4>3. exprs[e].ref # h
        BY <1>4, <1>6, <1>7, <4>2
      <4>4. PICK r : r = exprs[e].ref
        OBVIOUS
      <4>5. constExpr(r)' = constExpr(r) /\ exprs'[e].ref = r /\ r # NoValue
        BY <1>3, <2>1, <3>2, <4>1, <4>3, <4>4
      <4>6. constExpr(exprs[e].ref)' = constExpr(r)'
        BY <4>5
      <4> QED BY <2>1, <4>4, <4>5, <4>6 DEF Dependencies
    <3> QED BY <3>1, <3>2
  <2>4. Deps(e)' = Deps(e)
    BY <2>3 DEF Deps, ToSet
  <2> QED BY <1>7, <2>1, <2>2, <2>4
<1>11. ASSUME NEW e \in (n + 1) .. m, exprs'[e].evaluated
       PROVE  e \in Resolved' /\ Deps(e)' \subseteq Evaluated'
  <2>1. exprs'[e].args = <<>> /\ exprs'[e].ref = NoValue /\ exprs'[e].shape = "literal"
    BY <1>2, <1>11
  <2>2. e \in 1 .. m
    BY <1>2
  <2>3. e \in Resolved'
    BY <1>2, <2>1, <2>2 DEF Resolved, IsUnresolved
  <2> QED BY <2>1, <2>3, NoDependenciesThen
<1>12. EvaluatedInv'
  <2>1. \A e \in Evaluated' : e \in Resolved' /\ Deps(e)' \subseteq Evaluated'
    BY <1>7, <1>10, <1>11
  <2>2. Completed' \subseteq Evaluated'
    BY <1>7, <1>8, <1>9 DEF EvaluatedInv
  <2> QED BY <2>1, <2>2 DEF EvaluatedInv
<1>13. ReachInv'
  BY <1>4, RunningNames DEF ReachInv
<1>14. ASSUME NEW v \in AllValues, FileOf(v[1]) < file
       PROVE  constExpr(v)' \in Evaluated'
  <2>1. constExpr(v) \in Evaluated
    BY <1>14 DEF OrderInv, ReadyInv
  <2>2. v # h
    BY <1>5, <1>14, FileIsNat
  <2> QED BY <1>3, <1>7, <2>1, <2>2
<1>15. \A t : FileOf(t)' = FileOf(t)
  BY <1>3 DEF FileOf
<1>16. ReadyInv'
  BY <1>3, <1>4, <1>14, <1>15 DEF ReadyInv
<1> QED BY <1>12, <1>13, <1>16 DEF OrderInv

LEMMA InitOrder == Init => OrderInv
<1> SUFFICES ASSUME Init PROVE OrderInv
  OBVIOUS
<1>1. GraphInv
  BY InitGraph
<1>2. PICK p \in Programs : types = p.types /\ exprs = p.exprs /\ values = p.values
  BY DEF Init
<1>3. AreExpressions(types, exprs)
  BY <1>2, ProgramsAssumption DEF IsProgram
<1>4. file = 1 /\ phase = "resolveInheritance"
  BY DEF Init
<1>5. ASSUME NEW e \in Expressions
      PROVE  /\ exprs[e].ref = NoValue /\ ~exprs[e].completed
             /\ exprs[e].evaluated => exprs[e].shape = "literal" /\ exprs[e].args = <<>>
  <2> DEFINE T == ExpressionType(types, Len(exprs))
  <2>1. exprs[e] \in T
    <3>1. exprs \in Seq(T)
      BY <1>3 DEF AreExpressions
    <3> HIDE DEF T
    <3> QED BY <3>1 DEF Expressions
  <2>2. exprs[e].ref = NoValue /\ ~exprs[e].completed
    BY <2>1 DEF ExpressionType
  <2>3. IsOfGrammar(exprs[e])
    BY <1>3 DEF AreExpressions, Expressions
  <2> QED BY <2>2, <2>3 DEF IsOfGrammar
<1>6. EvaluatedInv
  BY <1>5, NoDependencies DEF EvaluatedInv, Evaluated, Resolved, Completed, IsUnresolved
<1>7. ReachInv
  BY <1>4, RunningNames DEF ReachInv
<1>8. ReadyInv
  <2>1. \A v \in AllValues : ~(FileOf(v[1]) < file)
    <3>1. ASSUME NEW v \in AllValues PROVE FileOf(v[1]) \in Nat \ {0}
      BY <1>1, TypeFacts, ValueFacts DEF GraphInv, TypesInv
    <3> QED BY <1>4, <3>1
  <2> QED BY <1>4, <2>1 DEF ReadyInv
<1> QED BY <1>6, <1>7, <1>8 DEF OrderInv

LEMMA NextKeepsOrder ==
    ASSUME GraphInv, AcyclicInv, OrderInv, [Next]_vars
    PROVE  OrderInv'
<1>1. Passes = {"lookup", "validate", "evaluate", "complete"}
  BY DEF Passes
<1>2. CASE NextPhase
  BY <1>2, NextPhaseKeepsOrder
<1>3. CASE Autofill
  BY <1>3, AutofillKeepsOrder
<1>4. CASE KeepExplicit
  <2>1. UNCHANGED program /\ file' = file /\ phase' = "resolveInheritance"
    BY <1>4 DEF KeepExplicit
  <2> QED BY <2>1, StopKeepsOrder
<1>5. CASE FailLookup \/ FindCycle \/ FailValidate \/ Trap
  <2>1. UNCHANGED program /\ file' = file /\ phase' \in Failures \cup Aborts
    <3>1. CASE FailLookup
      BY <3>1 DEF FailLookup, End, Failures
    <3>2. CASE FindCycle
      BY <3>2 DEF FindCycle, End, Failures, Aborts
    <3>3. CASE FailValidate
      BY <3>3 DEF FailValidate, End, Failures
    <3>4. CASE Trap
      BY <3>4 DEF Trap, End, Aborts
    <3> QED BY <1>5, <3>1, <3>2, <3>3, <3>4
  <2> QED BY <2>1, StopKeepsOrder
<1>6. CASE PassOver
  <2>1. /\ phase \in Passes /\ (AtRoot \/ AtDependency) /\ PassedOver(Called) /\ ReturnTo(frames)
        /\ UNCHANGED program /\ file' = file /\ phase' = phase /\ visited' = visited
    BY <1>6 DEF PassOver, Calls
  <2>2. phase \in Running /\ phase # "resolveInheritance"
    BY <1>1, <2>1, RunningNames
  <2>3. Called \in Expressions
    BY <2>1, <2>2, CalledIsNear DEF IsNear
  <2>4. Called \in Over
    BY <1>1, <2>1, <2>3 DEF Over, PassedOver, Completed
  <2> QED BY <2>1, <2>2, <2>4, ReturnKeepsOrder
<1>7. CASE CheckedBefore
  <2>1. /\ phase = "checkAcyclic" /\ (AtRoot \/ AtDependency) /\ Called \in visited /\ ReturnTo(frames)
        /\ UNCHANGED program /\ file' = file /\ phase' = phase /\ visited' = visited
    BY <1>7 DEF CheckedBefore, Calls
  <2>2. phase \in Running /\ Called \in Over
    BY <2>1, RunningNames DEF Over
  <2> QED BY <2>1, <2>2, ReturnKeepsOrder
<1>8. CASE Leave \/ LeaveAcyclic \/ IsEvaluated
  <2>1. /\ phase \in {"lookup", "validate", "complete", "checkAcyclic", "evaluate"}
        /\ frames # <<>> /\ Top.next > Len(Dependencies(Top.expr)) /\ ReturnTo(Front(frames))
        /\ UNCHANGED program /\ file' = file /\ phase' = phase /\ visited' = visited
        /\ phase = "evaluate" => IsEvaluated
    <3>1. CASE Leave
      BY <1>1, <3>1 DEF Leave, Leaves
    <3>2. CASE LeaveAcyclic
      BY <3>2 DEF LeaveAcyclic, Leaves
    <3>3. CASE IsEvaluated
      BY <3>3 DEF IsEvaluated, Leaves
    <3> QED BY <1>8, <3>1, <3>2, <3>3
  <2>2. phase \in Running
    BY <2>1, RunningNames
  <2>3. phase = "evaluate" => Top.expr \in Evaluated
    <3>1. Len(frames) \in DOMAIN frames
      BY <2>1, FrameElements
    <3>2. Top.expr \in Expressions
      BY <3>1, FrameElements DEF Top, Last
    <3>3. phase = "evaluate" => exprs[Top.expr].evaluated
      BY <2>1 DEF IsEvaluated
    <3> QED BY <3>2, <3>3 DEF Evaluated
  <2> QED BY <2>1, <2>2, <2>3, ReturnKeepsOrder
<1>9. CASE CheckAcyclic \/ Validate \/ Descend
  <2>1. /\ phase \in {"checkAcyclic", "validate", "evaluate"} /\ (AtRoot \/ AtDependency)
        /\ Enter /\ Called \notin visited
        /\ UNCHANGED program /\ file' = file /\ phase' = phase
    BY <1>9 DEF CheckAcyclic, Validate, Descend, Calls, PassedOver
  <2> QED BY <2>1, EnterKeepsOrder
<1>10. CASE LookUp
  BY <1>10, LookUpKeepsOrder
<1>11. CASE Evaluate
  BY <1>11, EvaluateKeepsOrder
<1>12. CASE setPostParseCompleted
  BY <1>12, CompleteKeepsOrder
<1>13. CASE Terminated \/ UNCHANGED vars
  BY <1>13, StutterKeepsOrder DEF Terminated
<1> QED BY <1>2, <1>3, <1>4, <1>5, <1>6, <1>7, <1>8, <1>9, <1>10, <1>11, <1>12, <1>13 DEF Next

(* What each pass hands to the next, from resolveInheritance of the first  *)
(* file to setPostParseCompleted of the last.                              *)
THEOREM OrderInvHolds == Spec => []OrderInv
<1>1. GraphInv /\ AcyclicInv /\ OrderInv /\ [Next]_vars => OrderInv'
  BY NextKeepsOrder
<1> QED BY <1>1, InitOrder, GraphInvHolds, PTL DEF Spec

(* On every program, no expression is evaluated before what it is computed *)
(* from, and what is accepted is evaluated throughout: the CHECKs of       *)
(* ConstantExpression::evaluate never fail.                                *)
THEOREM EvaluatedFirstHolds == Spec => []EvaluatedFirst
<1>1. ASSUME GraphInv, OrderInv
      PROVE  EvaluatedFirst
  <2>1. ASSUME Leaves("evaluate"), NEW e \in ToSet(Dependencies(Top.expr)) PROVE exprs[e].evaluated
    <3>1. Deps(Top.expr) \subseteq Evaluated
      BY <1>1, <2>1, DependenciesAreEvaluated
    <3> QED BY <3>1 DEF Deps, Evaluated
  <2>2. ASSUME phase = "accepted", NEW v \in AllValues PROVE exprs[constExpr(v)].evaluated
    BY <1>1, <2>2 DEF OrderInv, ReadyInv, Evaluated
  <2> QED BY <2>1, <2>2 DEF EvaluatedFirst
<1> QED BY <1>1, GraphInvHolds, OrderInvHolds, PTL

(* On every program, the check for cycles stops at an expression only if   *)
(* what it has visited has a circle, and finds every circle before it      *)
(* returns to the type (ConstantExpression::checkAcyclic).                 *)
THEOREM AcyclicVerdictHolds == Spec => []AcyclicVerdict
<1>1. ASSUME AcyclicInv
      PROVE  AcyclicVerdict
  <2>1. ASSUME phase = "checkAcyclic", frames = <<>>
        PROVE  ~HasCircle(visited)
    <3>1. stack = {} /\ NoCircle
      BY <1>1, <2>1 DEF AcyclicInv, WalkInv, StackIsFrames
    <3> QED BY <3>1 DEF NoCircle, Finished
  <2> QED BY <1>1, <2>1 DEF AcyclicVerdict, AcyclicInv, Verdict
<1> QED BY <1>1, GraphInvHolds, PTL
-----------------------------------------------------------------------------
(* What a plain name means.  Files before this one are completed, and a    *)
(* pass goes through the types in their order; so where names and super    *)
(* types refer back only, a name that is not looked up yet is one of the   *)
(* type whose expressions the pass is at.                                  *)

CompletedInv ==
    /\ phase = "complete" => visited \subseteq Completed
    /\ \A v \in AllValues : FileOf(v[1]) < file => constExpr(v) \in Completed

RefsAreBackward == \A e \in Expressions : exprs[e].ref # NoValue => exprs[e].ref[1] <= exprs[e].owner
FramesAreOfScope == phase = "lookup" => \A i \in DOMAIN frames : exprs[frames[i].expr].owner = scope

\* what the name of an expression means for the type it is written in
Meant(e) == lookupIdentifier(IF exprs[e].enum = 0 THEN exprs[e].owner ELSE exprs[e].enum, exprs[e].name)
FailureIsOwn ==
    phase = "unknown identifier" => \E e \in Expressions : IsUnresolved(e) /\ Meant(e) = NoValue

OwnNamesInv == RefsAreBackward /\ FramesAreOfScope /\ NamesMeanOwn /\ FailureIsOwn
NamesInv == ByNumber(todo) /\ CompletedInv /\ (IsBackward => OwnNamesInv)

\* the types up to a number, where what is extended is before
LEMMA BackwardIsClosed ==
    ASSUME TypesInv, IsBackward, NEW n \in DOMAIN types
    PROVE  LET T == {u \in DOMAIN types : u <= n} IN ClosedUp(T) /\ n \in T /\ T \subseteq Nat
<1>1. /\ \A u \in DOMAIN types : u \in Nat /\ types[u].super \in {0} \cup DOMAIN types
  BY TypeFacts DEF TypesInv
<1> DEFINE T == {u \in DOMAIN types : u <= n}
<1>2. ASSUME NEW u \in T, types[u].super # 0 PROVE types[u].super \in T
  <2>1. PICK w : w = types[u].super
    OBVIOUS
  <2>2. w \in DOMAIN types /\ w <= u
    BY <1>1, <1>2, <2>1 DEF IsBackward
  <2>3. w <= n
    BY <1>1, <2>2
  <2> QED BY <2>1, <2>2, <2>3
<1>3. n \in T /\ T \subseteq Nat
  BY <1>1
<1> QED BY <1>2, <1>3 DEF ClosedUp

\* no step changes what a name means to a type
\* chains and what is in them are the same while the same values are there
LEMMA SameChains ==
    ASSUME TypesInv, TypesInv', types' = types, AllValues' = AllValues, NEW t \in DOMAIN types
    PROVE  /\ typeChain(t)' = typeChain(t) /\ ChainValues(t)' = ChainValues(t)
           /\ typeChain(t) \in Seq(DOMAIN types) /\ typeChain(t) # <<>>
           /\ \A u \in DOMAIN types :
                Len(values'[u]) = Len(values[u]) /\ (values'[u] = <<>> <=> values[u] = <<>>)
<1>1. DOMAIN values = DOMAIN types /\ DOMAIN values' = DOMAIN types
  <2>1. /\ values \in Seq(Seq(Nat)) /\ Len(values) = Len(types)
        /\ values' \in Seq(Seq(Nat)) /\ Len(values') = Len(types)
        /\ Len(types) \in Nat /\ DOMAIN types = 1 .. Len(types)
    BY TypeFacts DEF TypesInv
  <2> QED BY <2>1
<1>2. ASSUME NEW u \in DOMAIN types PROVE DOMAIN values'[u] = DOMAIN values[u]
  <2>1. \A i : i \in DOMAIN values[u] <=> <<u, i>> \in AllValues
    BY <1>1 DEF AllValues
  <2>2. \A i : i \in DOMAIN values'[u] <=> <<u, i>> \in AllValues'
    BY <1>1 DEF AllValues
  <2> QED BY <2>1, <2>2
<1>3. typeChain(t)' = typeChain(t)
  BY DEF typeChain
<1>4. ClosedUp(DOMAIN types)
  BY TypeFacts DEF ClosedUp, TypesInv
<1>5. typeChain(t) \in Seq(DOMAIN types) /\ typeChain(t) # <<>>
  BY <1>4, ChainStays DEF TypesInv
<1>6. \A n \in DOMAIN typeChain(t) : typeChain(t)[n] \in DOMAIN types
  BY <1>5
<1>7. \A u \in DOMAIN types : EnumValues(u)' = EnumValues(u)
  BY <1>2 DEF EnumValues
<1>8. ChainValues(t)' = ChainValues(t)
  <2>1. [n \in DOMAIN typeChain(t) |-> EnumValues(typeChain(t)[n])']
          = [n \in DOMAIN typeChain(t) |-> EnumValues(typeChain(t)[n])]
    <3>1. ASSUME NEW n \in DOMAIN typeChain(t)
          PROVE  EnumValues(typeChain(t)[n])' = EnumValues(typeChain(t)[n])
      <4>1. PICK u : u = typeChain(t)[n]
        OBVIOUS
      <4>2. u = typeChain(t)'[n] /\ u \in DOMAIN types
        BY <1>3, <1>6, <4>1
      <4> QED BY <1>7, <4>1, <4>2
    <3> QED BY <3>1
  <2> QED BY <1>3, <2>1 DEF ChainValues
<1>9. ASSUME NEW u \in DOMAIN types
      PROVE  Len(values'[u]) = Len(values[u]) /\ (values'[u] = <<>> <=> values[u] = <<>>)
  <2>1. values \in Seq(Seq(Nat)) /\ values' \in Seq(Seq(Nat))
    BY DEF TypesInv
  <2>2. PICK p, q : p = values[u] /\ q = values'[u]
    OBVIOUS
  <2>3. p \in Seq(Nat) /\ q \in Seq(Nat) /\ DOMAIN p = DOMAIN q
    BY <1>1, <1>2, <2>1, <2>2
  <2>4. Len(p) \in Nat /\ Len(q) \in Nat /\ 1 .. Len(p) = 1 .. Len(q)
    BY <2>3
  <2>5. Len(p) = Len(q)
    <3>1. Len(p) # 0 => Len(p) \in 1 .. Len(q)
      BY <2>4
    <3>2. Len(q) # 0 => Len(q) \in 1 .. Len(p)
      BY <2>4
    <3> QED BY <2>4, <3>1, <3>2
  <2>6. p = <<>> <=> Len(p) = 0
    BY <2>3
  <2>7. q = <<>> <=> Len(q) = 0
    BY <2>3
  <2> QED BY <2>2, <2>5, <2>6, <2>7
<1> QED BY <1>3, <1>5, <1>8, <1>9

LEMMA SameLookups ==
    ASSUME TypesInv, TypesInv', types' = types, AllValues' = AllValues, NEW t \in DOMAIN types, NEW name
    PROVE  lookupIdentifier(t, name)' = lookupIdentifier(t, name)
<1>1. ChainValues(t)' = ChainValues(t)
  BY SameChains
<1>2. \A v : Named(v, name)' = Named(v, name)
  BY DEF Named
<1> QED BY <1>1, <1>2 DEF lookupIdentifier, SelectInSeq

\* where no name or what was found for it changes
LEMMA NamesStay ==
    ASSUME GraphInv, SameObjects, \A e \in Expressions : exprs'[e].ref = exprs[e].ref
    PROVE  /\ IsBackward' => IsBackward
           /\ RefsAreBackward => RefsAreBackward'
           /\ NamesMeanOwn => NamesMeanOwn'
<1>1. /\ Expressions' = Expressions /\ AllValues' = AllValues /\ types' = types /\ TypesInv'
      /\ \A e \in Expressions :
           /\ exprs'[e].owner = exprs[e].owner /\ exprs'[e].enum = exprs[e].enum
           /\ exprs'[e].shape = exprs[e].shape /\ exprs'[e].name = exprs[e].name
  BY SameObjectsFacts DEF SameObjects
<1>2. IsBackward' => IsBackward
  BY <1>1 DEF IsBackward
<1>3. RefsAreBackward => RefsAreBackward'
  BY <1>1 DEF RefsAreBackward
<1>4. ASSUME NamesMeanOwn, NEW e \in Expressions, IsPlain(e)'
      PROVE  exprs'[e].ref \in {NoValue, OwnIdentifier(e)'}
  <2>1. IsPlain(e)
    BY <1>1, <1>4 DEF IsPlain
  <2>2. PICK t, name : t = exprs[e].owner /\ name = exprs[e].name
    OBVIOUS
  <2>3. t \in DOMAIN types
    BY <2>2 DEF GraphInv, ExprsInv, IsExpression
  <2>4. lookupIdentifier(t, name)' = lookupIdentifier(t, name)
    BY <1>1, <2>3, SameLookups DEF GraphInv
  <2>5. OwnIdentifier(e) = lookupIdentifier(t, name) /\ OwnIdentifier(e)' = lookupIdentifier(t, name)'
    BY <1>1, <2>2 DEF OwnIdentifier
  <2>6. exprs[e].ref \in {NoValue, OwnIdentifier(e)}
    BY <1>4, <2>1 DEF NamesMeanOwn
  <2> QED BY <2>4, <2>5, <2>6
<1>5. NamesMeanOwn => NamesMeanOwn'
  BY <1>1, <1>4 DEF NamesMeanOwn
<1> QED BY <1>2, <1>3, <1>5

\* a name that is not looked up yet is of the type whose expressions the pass is at
LEMMA CalledIsOfScope ==
    ASSUME GraphInv, OrderInv, NamesInv, IsBackward, Calls("lookup"), ~PassedOver(Called)
    PROVE  /\ Called \in Expressions /\ exprs[Called].owner = scope
           /\ todo # <<>> /\ scope \in DOMAIN types
<1>1. /\ phase = "lookup" /\ phase # "resolveInheritance" /\ (AtRoot \/ AtDependency)
      /\ phase \in Running /\ todo # <<>>
  BY RunningNames DEF Calls, AtRoot, AtDependency, GraphInv, FramesInv
<1>2. Called \in Expressions
  BY <1>1, CalledIsNear DEF IsNear
<1>3. Called \notin visited \cup Completed
  BY <1>2 DEF PassedOver, Completed
<1>4. /\ Head(todo) \in AllValues /\ FileOf(scope) = file /\ scope \in DOMAIN types
      /\ file \in Nat /\ file <= file
  BY <1>1, TodoFacts, FileIsNat DEF scope
<1>5. exprs[Called].owner = scope
  <2>1. CASE frames = <<>>
    <3>1. Called = constExpr(Head(todo))
      BY <2>1 DEF Called
    <3> QED BY <1>1, <1>4, <3>1, NearValueFacts DEF scope
  <2>2. CASE frames # <<>>
    <3>1. PICK f, d : f = frames[Len(frames)] /\ d = Called
      OBVIOUS
    <3>2. f.expr \in Expressions /\ exprs[f.expr].owner = scope
      <4>1. Len(frames) \in DOMAIN frames
        BY <2>2, FrameElements
      <4> QED BY <1>1, <3>1, <4>1, FrameElements DEF NamesInv, OwnNamesInv, FramesAreOfScope
    <3>3. d \in Deps(f.expr)
      <4>1. Awaits(f, d)
        BY <1>1, <2>2, <3>1, GraphInvGivesGraphOK, CallFacts
      <4> QED BY <4>1 DEF Awaits, Deps, ToSet
    <3>4. CASE exprs[d].owner = exprs[f.expr].owner
      BY <3>1, <3>2, <3>4
    <3>5. CASE exprs[f.expr].ref # NoValue /\ d = constExpr(exprs[f.expr].ref)
      <4>1. PICK v : v = exprs[f.expr].ref
        OBVIOUS
      <4>2. v \in AllValues /\ FileOf(v[1]) <= file /\ d = constExpr(v)
        BY <3>2, <3>5, <4>1 DEF GraphInv, ExprsInv, IsExpression
      <4>3. exprs[d].owner = v[1]
        BY <1>1, <4>2, NearValueFacts
      <4>4. v[1] <= scope
        BY <3>2, <3>5, <4>1 DEF NamesInv, OwnNamesInv, RefsAreBackward
      <4>5. FileOf(v[1]) \in Nat
        BY <4>2, ValueFacts DEF GraphInv
      <4>6. FileOf(v[1]) = file
        <5>1. ASSUME FileOf(v[1]) < file PROVE FALSE
          BY <1>3, <3>1, <4>2, <5>1 DEF NamesInv, CompletedInv
        <5> QED BY <1>4, <4>2, <4>5, <5>1
      <4>7. v \in ToSet(todo)
        <5>1. v \in OwnValues(file)
          BY <4>2, <4>6 DEF OwnValues
        <5>2. RootsAreOver
          BY <1>1 DEF OrderInv, ReachInv
        <5>3. constExpr(v) \notin Over
          BY <1>1, <1>3, <3>1, <4>2 DEF Over
        <5> QED BY <5>1, <5>2, <5>3 DEF RootsAreOver
      <4>8. scope <= v[1]
        <5>1. PICK j \in DOMAIN todo : v = todo[j]
          BY <4>7 DEF ToSet
        <5>2. todo[1] = Head(todo) /\ 1 \in DOMAIN todo /\ j \in Nat /\ (j = 1 \/ 1 < j)
          <6>1. ASSUME NEW T, NEW s \in Seq(T), s # <<>>, NEW i \in DOMAIN s
                PROVE  s[1] = Head(s) /\ 1 \in DOMAIN s /\ i \in Nat /\ (i = 1 \/ 1 < i)
            BY <6>1
          <6>2. todo \in Seq(OwnValues(file))
            BY DEF GraphInv, PassInv
          <6> QED BY <1>1, <5>1, <6>1, <6>2
        <5>3. CASE j = 1
          <6>1. v[1] = scope
            BY <5>1, <5>2, <5>3 DEF scope
          <6> QED BY <4>4, <6>1
        <5>4. CASE 1 < j
          <6>1. todo[1][1] <= todo[j][1]
            BY <5>1, <5>2, <5>4 DEF NamesInv, ByNumber
          <6> QED BY <5>1, <5>2, <6>1 DEF scope
        <5> QED BY <5>2, <5>3, <5>4
      <4>9. v[1] \in Nat /\ scope \in Nat
        <5>1. DOMAIN types = 1 .. Len(types)
          BY TypeFacts DEF GraphInv, TypesInv
        <5> QED BY <1>4, <4>2, <5>1, ValueFacts DEF GraphInv
      <4> QED BY <3>1, <4>3, <4>4, <4>8, <4>9
    <3> QED BY <3>2, <3>3, <3>4, <3>5, DependencyFacts
  <2> QED BY <2>1, <2>2
<1> QED BY <1>1, <1>2, <1>4, <1>5

\* the values that are left stay in the order of their types
LEMMA TodoStaysByNumber ==
    ASSUME GraphInv, ByNumber(todo), [Next]_vars
    PROVE  ByNumber(todo')
<1>1. ASSUME NEW S, NEW s \in Seq(S), s # <<>>, NEW i \in DOMAIN Tail(s)
      PROVE  i + 1 \in DOMAIN s /\ Tail(s)[i] = s[i + 1] /\ i \in Nat
  BY <1>1
<1>2. todo \in Seq(OwnValues(file)) /\ TypesInv
  BY DEF GraphInv, PassInv
<1>3. CASE todo # <<>> /\ todo' = Tail(todo)
  <2>1. ASSUME NEW i \in DOMAIN Tail(todo), NEW j \in DOMAIN Tail(todo), i < j
        PROVE  Tail(todo)[i][1] <= Tail(todo)[j][1]
    <3>1. /\ i + 1 \in DOMAIN todo /\ Tail(todo)[i] = todo[i + 1] /\ i \in Nat
          /\ j + 1 \in DOMAIN todo /\ Tail(todo)[j] = todo[j + 1] /\ j \in Nat
      BY <1>1, <1>2, <1>3
    <3>2. i + 1 < j + 1
      BY <2>1, <3>1
    <3>3. todo[i + 1][1] <= todo[j + 1][1]
      BY <3>1, <3>2 DEF ByNumber
    <3> QED BY <3>1, <3>3
  <2> QED BY <1>3, <2>1 DEF ByNumber
<1>4. CASE todo' = todo
  BY <1>4
<1>5. CASE NextPhase
  <2>1. todo' = FileValues(file) \/ todo' = FileValues(file + 1) \/ todo' = todo
    BY <1>5 DEF NextPhase, Follows, End
  <2> QED BY <1>2, <2>1, FileValuesAreByType
<1>6. CASE Autofill \/ KeepExplicit
  BY <1>3, <1>6 DEF Autofill, KeepExplicit
<1>7. CASE FailLookup \/ FindCycle \/ FailValidate \/ Trap
  BY <1>4, <1>7 DEF FailLookup, FindCycle, FailValidate, Trap, End
<1>8. CASE LookUp \/ CheckAcyclic \/ Validate \/ Descend \/ setPostParseCompleted
  BY <1>4, <1>8 DEF LookUp, CheckAcyclic, Validate, Descend, setPostParseCompleted, Enter
<1>9. ASSUME NEW callers, ReturnTo(callers), todo # <<>>
      PROVE  ByNumber(todo')
  BY <1>3, <1>4, <1>9 DEF ReturnTo
<1>10. frames # <<>> => todo # <<>>
  BY DEF GraphInv, FramesInv
<1>11. CASE PassOver \/ CheckedBefore
  BY <1>9, <1>10, <1>11 DEF PassOver, CheckedBefore, Calls, AtRoot, AtDependency
<1>12. CASE Leave \/ LeaveAcyclic \/ Evaluate \/ IsEvaluated
  BY <1>9, <1>10, <1>12 DEF Leave, LeaveAcyclic, Evaluate, IsEvaluated, Leaves
<1>13. CASE Terminated \/ UNCHANGED vars
  BY <1>4, <1>13 DEF Terminated, vars, pass
<1> QED BY <1>5, <1>6, <1>7, <1>8, <1>11, <1>12, <1>13 DEF Next

\* what is completed stays so, and the last pass completes what it visits
LEMMA CompletedStays ==
    ASSUME GraphInv, CompletedInv, SameObjects, file' = file, Completed \subseteq Completed',
           phase' = "complete" => visited' \subseteq Completed'
    PROVE  CompletedInv'
<1>1. AllValues' = AllValues /\ (\A t : FileOf(t)' = FileOf(t)) /\ \A v : constExpr(v)' = constExpr(v)
  BY SameObjectsFacts
<1> QED BY <1>1 DEF CompletedInv

LEMMA NextKeepsCompleted ==
    ASSUME GraphInv, AcyclicInv, OrderInv, CompletedInv, [Next]_vars
    PROVE  CompletedInv'
<1>1. ASSUME UNCHANGED program PROVE SameObjects /\ Completed' = Completed
  <2>1. SameObjects
    BY <1>1, ProgramStays
  <2>2. exprs' = exprs /\ Expressions' = Expressions
    BY <1>1, <2>1, SameObjectsFacts DEF program
  <2> QED BY <2>1, <2>2 DEF Completed
<1>2. CASE NextPhase
  <2>1. /\ UNCHANGED program /\ todo = <<>> /\ visited' = {}
        /\ \E n \in DOMAIN Phases :
             /\ phase = Phases[n]
             /\ \/ n < Len(Phases) /\ file' = file
                \/ n >= Len(Phases) /\ file' = file + 1
                \/ file' = file
    BY <1>2, PhaseNames DEF NextPhase, Follows, End
  <2>2. SameObjects /\ Completed' = Completed
    BY <1>1, <2>1
  <2>3. CASE file' = file
    BY <2>1, <2>2, <2>3, CompletedStays
  <2>4. CASE file' # file
    <3>1. phase = "complete" /\ file' = file + 1
      BY <2>1, <2>4, PhaseNames DEF Phases
    <3>2. RootsAreOver /\ ToSet(todo) = {} /\ Over = visited \cup Completed
      BY <2>1, <3>1, RunningNames DEF OrderInv, ReachInv, Over, ToSet
    <3>3. ASSUME NEW v \in AllValues, FileOf(v[1]) < file + 1 PROVE constExpr(v) \in Completed
      <4>1. FileOf(v[1]) \in Nat /\ file \in Nat
        BY ValueFacts, FileIsNat DEF GraphInv
      <4>2. CASE FileOf(v[1]) = file
        BY <3>1, <3>2, <4>2 DEF RootsAreOver, OwnValues, CompletedInv
      <4>3. CASE FileOf(v[1]) < file
        BY <4>3 DEF CompletedInv
      <4> QED BY <3>3, <4>1, <4>2, <4>3
    <3>4. AllValues' = AllValues /\ (\A t : FileOf(t)' = FileOf(t)) /\ \A v : constExpr(v)' = constExpr(v)
      BY <2>2, SameObjectsFacts
    <3> QED BY <2>1, <2>2, <3>1, <3>3, <3>4 DEF CompletedInv
  <2> QED BY <2>3, <2>4
<1>3. CASE Autofill
  <2>1. /\ AllValues' = AllValues /\ types' = types /\ Head(todo) \in AllValues /\ todo # <<>>
        /\ \A v \in AllValues : constExpr(v)' = IF v = Head(todo) THEN Len(exprs') ELSE constExpr(v)
    BY <1>3, AutofillValues
  <2>2. phase' = "resolveInheritance" /\ file' = file
    BY <1>3 DEF Autofill
  <2>3. Completed \subseteq Completed'
    <3>1. Expressions = 1 .. Len(exprs) /\ Expressions' = 1 .. Len(exprs')
          /\ Len(exprs) \in Nat /\ Len(exprs') \in Nat /\ Len(exprs) < Len(exprs')
          /\ \A e \in 1 .. Len(exprs) : exprs'[e] = exprs[e]
      BY <1>3, AutofillFacts
    <3>2. \A e \in Expressions : e \in Expressions' /\ exprs'[e] = exprs[e]
      BY <3>1
    <3> QED BY <3>2 DEF Completed
  <2>4. FileOf(Head(todo)[1]) = file /\ file \in Nat
    BY <2>1, TodoFacts, FileIsNat DEF scope
  <2>5. ASSUME NEW v \in AllValues, FileOf(v[1]) < file PROVE constExpr(v)' \in Completed'
    <3>1. v # Head(todo)
      BY <2>4, <2>5
    <3>2. constExpr(v) \in Completed
      BY <2>5 DEF CompletedInv
    <3> QED BY <2>1, <2>3, <3>1, <3>2
  <2>6. \A t : FileOf(t)' = FileOf(t)
    BY <2>1 DEF FileOf
  <2> QED BY <2>1, <2>2, <2>5, <2>6 DEF CompletedInv
<1>4. CASE KeepExplicit
  <2>1. UNCHANGED program /\ file' = file /\ phase' = "resolveInheritance"
    BY <1>4 DEF KeepExplicit
  <2> QED BY <1>1, <2>1, CompletedStays
<1>5. CASE FailLookup \/ FindCycle \/ FailValidate \/ Trap
  <2>1. UNCHANGED program /\ file' = file /\ phase' # "complete"
    BY <1>5 DEF FailLookup, FindCycle, FailValidate, Trap, End
  <2> QED BY <1>1, <2>1, CompletedStays
<1>6. CASE PassOver \/ Leave \/ CheckedBefore \/ LeaveAcyclic \/ IsEvaluated
  <2>1. UNCHANGED program /\ file' = file /\ phase' = phase /\ visited' = visited
    BY <1>6 DEF PassOver, Leave, CheckedBefore, LeaveAcyclic, IsEvaluated
  <2>2. phase' = "complete" => visited' \subseteq Completed
    BY <2>1 DEF CompletedInv
  <2> QED BY <1>1, <2>1, <2>2, CompletedStays
<1>7. CASE CheckAcyclic \/ Validate \/ Descend
  <2>1. UNCHANGED program /\ file' = file /\ phase' # "complete"
    BY <1>7 DEF CheckAcyclic, Validate, Descend, Calls
  <2> QED BY <1>1, <2>1, CompletedStays
<1>8. CASE LookUp
  <2>1. PICK u : u = Called
    OBVIOUS
  <2>2. /\ u \in Expressions /\ SameObjects
        /\ \A d \in Expressions : d # u => exprs'[d] = exprs[d]
        /\ exprs'[u].completed = exprs[u].completed
    BY <1>8, <2>1, LookUpFacts
  <2>3. Completed \subseteq Completed'
    BY <2>2, SameObjectsFacts DEF Completed
  <2>4. file' = file /\ phase' # "complete"
    BY <1>8 DEF LookUp, Calls
  <2> QED BY <2>2, <2>3, <2>4, CompletedStays
<1>9. CASE Evaluate
  <2>1. PICK u : u = Top.expr
    OBVIOUS
  <2>2. /\ u \in Expressions /\ SameObjects
        /\ \A d \in Expressions : d # u => exprs'[d] = exprs[d]
        /\ exprs'[u].completed = exprs[u].completed
    BY <1>9, <2>1, EvaluateFacts
  <2>3. Completed \subseteq Completed'
    BY <2>2, SameObjectsFacts DEF Completed
  <2>4. file' = file /\ phase' # "complete"
    BY <1>9 DEF Evaluate, Leaves
  <2> QED BY <2>2, <2>3, <2>4, CompletedStays
<1>10. CASE setPostParseCompleted
  <2>1. PICK u : u = Called
    OBVIOUS
  <2>2. /\ u \in Expressions /\ SameObjects
        /\ \A d \in Expressions : d # u => exprs'[d] = exprs[d]
        /\ exprs'[u].completed
    BY <1>10, <2>1, CompleteFacts
  <2>3. Completed \subseteq Completed' /\ u \in Completed'
    BY <2>2, SameObjectsFacts DEF Completed
  <2>4. file' = file /\ phase = "complete" /\ visited' = visited \cup {u}
    BY <1>10, <2>1 DEF setPostParseCompleted, Calls, Enter
  <2>5. visited' \subseteq Completed'
    BY <2>3, <2>4 DEF CompletedInv
  <2> QED BY <2>2, <2>3, <2>4, <2>5, CompletedStays
<1>11. CASE Terminated \/ UNCHANGED vars
  <2>1. UNCHANGED program /\ file' = file /\ phase' = phase /\ visited' = visited
    BY <1>11 DEF Terminated, vars, program, pass, walk
  <2>2. phase' = "complete" => visited' \subseteq Completed
    BY <2>1 DEF CompletedInv
  <2> QED BY <1>1, <2>1, <2>2, CompletedStays
<1> QED BY <1>2, <1>3, <1>4, <1>5, <1>6, <1>7, <1>8, <1>9, <1>10, <1>11 DEF Next

\* a step that takes the pass back, or on to the next value, stays in the scope
LEMMA ReturnKeepsScope ==
    ASSUME GraphInv, UNCHANGED program, FramesAreOfScope, phase' = phase, NEW callers,
           callers = frames \/ (frames # <<>> /\ callers = Front(frames)), ReturnTo(callers)
    PROVE  FramesAreOfScope'
<1>1. frames \in Seq(FrameType) /\ Len(frames) \in Nat /\ DOMAIN frames = 1 .. Len(frames)
  BY FrameElements
<1>2. /\ callers \in Seq(FrameType) /\ Len(callers) \in Nat /\ Len(callers) <= Len(frames)
      /\ \A i \in 1 .. Len(callers) : i \in DOMAIN frames /\ callers[i] = frames[i]
  <2>1. CASE callers = frames
    BY <1>1, <2>1
  <2>2. CASE frames # <<>> /\ callers = Front(frames)
    <3>1. /\ callers \in Seq(FrameType) /\ Len(callers) = Len(frames) - 1
          /\ \A i \in 1 .. Len(frames) - 1 : callers[i] = frames[i]
      BY <2>2, FrontFacts
    <3>2. Len(frames) # 0
      BY <1>1, <2>2
    <3> QED BY <1>1, <3>1, <3>2
  <2> QED BY <2>1, <2>2
<1>3. CASE callers = <<>>
  BY <1>3 DEF ReturnTo, FramesAreOfScope
<1>4. CASE callers # <<>>
  <2>1. todo' = todo /\ exprs' = exprs
    BY <1>4 DEF ReturnTo, program
  <2>2. DOMAIN frames' = 1 .. Len(callers) /\ \A i \in 1 .. Len(callers) : frames'[i].expr = callers[i].expr
    BY <1>2, ReturnFacts
  <2>3. \A i \in DOMAIN frames' : i \in DOMAIN frames /\ frames'[i].expr = frames[i].expr
    BY <1>2, <2>2
  <2> QED BY <2>1, <2>3 DEF FramesAreOfScope, scope
<1> QED BY <1>3, <1>4

\* what is found for a name that refers back is of a type up to the one it is written in
LEMMA FoundIsOwn ==
    ASSUME GraphInv, OrderInv, NamesInv, IsBackward, Calls("lookup"), ~PassedOver(Called)
    PROVE  /\ Found(Called) = Meant(Called)
           /\ Found(Called) # NoValue => Found(Called)[1] <= exprs[Called].owner
<1>1. PICK u : u = Called
  OBVIOUS
<1>2. u \in Expressions /\ exprs[u].owner = scope /\ todo # <<>> /\ scope \in DOMAIN types
  BY <1>1, CalledIsOfScope
<1>3. Found(u) = Meant(u)
  BY <1>2 DEF Found, Meant
<1>4. PICK n, t, name : /\ n = exprs[u].owner /\ name = exprs[u].name
                        /\ t = IF exprs[u].enum = 0 THEN n ELSE exprs[u].enum
  OBVIOUS
<1>5. t \in DOMAIN types /\ n \in DOMAIN types /\ TypesInv /\ DOMAIN types = 1 .. Len(types)
  BY <1>2, <1>4, TypeFacts DEF GraphInv, ExprsInv, IsExpression, TypesInv
<1>6. t <= n
  <2>1. exprs[u].enum <= n
    BY <1>2, <1>4 DEF IsBackward
  <2> QED BY <1>4, <1>5, <2>1
<1>7. Meant(u) = lookupIdentifier(t, name)
  BY <1>4 DEF Meant
<1> DEFINE T == {w \in DOMAIN types : w <= n}
<1>8. ClosedUp(T) /\ t \in T
  BY <1>5, <1>6, BackwardIsClosed
<1>9. lookupIdentifier(t, name) \in ValuesOf(T) \cup {NoValue}
  <2> HIDE DEF T
  <2> QED BY <1>5, <1>8, LookupStays
<1>10. Meant(u) # NoValue => Meant(u)[1] <= n
  BY <1>7, <1>9 DEF ValuesOf
<1> QED BY <1>1, <1>3, <1>4, <1>10

LEMMA LookUpKeepsNames ==
    ASSUME GraphInv, OrderInv, NamesInv, IsBackward, LookUp
    PROVE  OwnNamesInv'
<1>1. PICK u : u = Called
  OBVIOUS
<1>2. /\ Calls("lookup") /\ ~PassedOver(Called) /\ phase' = "lookup" /\ todo' = todo
      /\ frames' = Append(frames, [expr |-> u, next |-> 1])
      /\ ~IsUnresolved(u) => exprs' = exprs
      /\ IsUnresolved(u) => Found(u) # NoValue
  BY <1>1 DEF LookUp, Calls, Enter
<1>3. /\ u \in Expressions /\ SameObjects
      /\ \A d \in Expressions : d # u => exprs'[d] = exprs[d]
      /\ IsUnresolved(u) => exprs'[u].ref = Found(u)
  BY <1>1, LookUpFacts
<1>4. /\ exprs[u].owner = scope
      /\ Found(u) = Meant(u)
      /\ Found(u) # NoValue => Found(u)[1] <= exprs[u].owner
  BY <1>1, <1>2, CalledIsOfScope, FoundIsOwn
<1>5. /\ Expressions' = Expressions /\ AllValues' = AllValues /\ types' = types /\ TypesInv'
      /\ \A e \in Expressions :
           /\ exprs'[e].owner = exprs[e].owner /\ exprs'[e].enum = exprs[e].enum
           /\ exprs'[e].shape = exprs[e].shape /\ exprs'[e].name = exprs[e].name
  BY <1>3, SameObjectsFacts DEF SameObjects
<1>6. OwnNamesInv
  BY DEF NamesInv
<1>7. \A e \in Expressions : exprs'[e].ref = exprs[e].ref \/ (e = u /\ exprs'[e].ref = Meant(u) /\ IsUnresolved(u))
  BY <1>2, <1>3, <1>4
<1>8. RefsAreBackward'
  BY <1>4, <1>5, <1>6, <1>7 DEF OwnNamesInv, RefsAreBackward
<1>9. FramesAreOfScope'
  <2>1. /\ frames \in Seq(FrameType) /\ Len(frames) \in Nat /\ DOMAIN frames = 1 .. Len(frames)
        /\ \A i \in DOMAIN frames : frames[i].expr \in Expressions
    BY FrameElements
  <2>2. phase = "lookup"
    BY <1>2 DEF Calls
  <2>3. ASSUME NEW i \in DOMAIN frames' PROVE exprs'[frames'[i].expr].owner = scope
    <3>1. (i \in DOMAIN frames /\ frames'[i] = frames[i]) \/ frames'[i].expr = u
      BY <1>2, <2>1
    <3> QED BY <1>3, <1>4, <1>5, <1>6, <2>1, <2>2, <3>1 DEF OwnNamesInv, FramesAreOfScope
  <2> QED BY <1>2, <2>3 DEF FramesAreOfScope, scope
<1>10. NamesMeanOwn'
  <2>1. ASSUME NEW e \in Expressions, IsPlain(e)'
        PROVE  exprs'[e].ref \in {NoValue, OwnIdentifier(e)'}
    <3>1. IsPlain(e)
      BY <1>5, <2>1 DEF IsPlain
    <3>2. PICK t, name : t = exprs[e].owner /\ name = exprs[e].name
      OBVIOUS
    <3>3. t \in DOMAIN types
      BY <3>2 DEF GraphInv, ExprsInv, IsExpression
    <3>4. lookupIdentifier(t, name)' = lookupIdentifier(t, name)
      BY <1>5, <3>3, SameLookups DEF GraphInv
    <3>5. OwnIdentifier(e) = lookupIdentifier(t, name) /\ OwnIdentifier(e)' = lookupIdentifier(t, name)'
      BY <1>5, <3>2 DEF OwnIdentifier
    <3>6. exprs[e].ref \in {NoValue, OwnIdentifier(e)}
      BY <1>6, <3>1 DEF OwnNamesInv, NamesMeanOwn
    <3>7. Meant(e) = OwnIdentifier(e)
      BY <3>1 DEF IsPlain, Meant, OwnIdentifier
    <3> QED BY <1>7, <3>4, <3>5, <3>6, <3>7
  <2> QED BY <1>5, <2>1 DEF NamesMeanOwn
<1>11. FailureIsOwn'
  BY <1>2 DEF FailureIsOwn
<1> QED BY <1>8, <1>9, <1>10, <1>11 DEF OwnNamesInv

\* what is filled in refers to the value before it, which is of the same type or one above
LEMMA AutofillKeepsNames ==
    ASSUME GraphInv, IsBackward', IsBackward => OwnNamesInv, Autofill
    PROVE  OwnNamesInv'
<1>1. PICK n, m : n = Len(exprs) /\ m = Len(exprs')
  OBVIOUS
<1>2. PICK h, p : h = Head(todo) /\ p = Previous(h)
  OBVIOUS
<1>3. /\ n \in Nat /\ m \in Nat /\ n < m /\ Expressions = 1 .. n /\ Expressions' = 1 .. m
      /\ \A e \in 1 .. n : exprs'[e] = exprs[e]
      /\ \A e \in (n + 1) .. m :
           exprs'[e].owner = h[1] /\ exprs'[e].ref \in {NoValue, p} /\ exprs'[e].name = ""
  BY <1>1, <1>2, AutofillFacts
<1>4. /\ \A e \in Expressions' : (e \in Expressions /\ exprs'[e] = exprs[e]) \/ e \in (n + 1) .. m
      /\ \A e \in Expressions : e \in Expressions' /\ exprs'[e] = exprs[e]
  <2>1. n \in Nat /\ m \in Nat /\ n < m
    BY <1>3
  <2>2. (\A i \in 1 .. m : i \in 1 .. n \/ i \in (n + 1) .. m) /\ \A i \in 1 .. n : i \in 1 .. m
    BY <2>1
  <2> QED BY <1>3, <2>2, Zenon
<1>5. types' = types /\ AllValues' = AllValues /\ h \in AllValues /\ phase' = "resolveInheritance"
  <2>1. phase' = "resolveInheritance"
    BY DEF Autofill
  <2> QED BY <1>2, <2>1, AutofillValues
<1>6. TypesInv /\ TypesInv'
  BY AutofillKeepsGraph DEF GraphInv
<1>7. IsBackward
  BY <1>4, <1>5 DEF IsBackward
<1>8. p # NoValue => p[1] <= h[1]
  <2> DEFINE T == {w \in DOMAIN types : w <= h[1]}
  <2>1. h[1] \in DOMAIN types
    BY <1>5, <1>6, ValueFacts
  <2>2. ClosedUp(T) /\ h[1] \in T
    BY <1>6, <1>7, <2>1, BackwardIsClosed
  <2>3. p \in ValuesOf(T) \cup {NoValue}
    <3> HIDE DEF T
    <3>1. h \in ValuesOf(T)
      BY <1>5, <2>2 DEF ValuesOf
    <3> QED BY <1>2, <1>6, <2>2, <3>1, PreviousStays
  <2> QED BY <2>3 DEF ValuesOf
<1>9. OwnNamesInv
  BY <1>7
<1>10. RefsAreBackward'
  BY <1>3, <1>4, <1>8, <1>9 DEF OwnNamesInv, RefsAreBackward
<1>11. FramesAreOfScope' /\ FailureIsOwn'
  BY <1>5 DEF FramesAreOfScope, FailureIsOwn
<1>12. ASSUME NEW e \in Expressions', IsPlain(e)'
       PROVE  exprs'[e].ref \in {NoValue, OwnIdentifier(e)'}
  <2>1. e \in Expressions /\ exprs'[e] = exprs[e]
    BY <1>3, <1>4, <1>12 DEF IsPlain
  <2>2. IsPlain(e)
    BY <1>12, <2>1 DEF IsPlain
  <2>3. PICK t, name : t = exprs[e].owner /\ name = exprs[e].name
    OBVIOUS
  <2>4. t \in DOMAIN types
    BY <2>1, <2>3 DEF GraphInv, ExprsInv, IsExpression
  <2>5. lookupIdentifier(t, name)' = lookupIdentifier(t, name)
    BY <1>5, <1>6, <2>4, SameLookups
  <2>6. OwnIdentifier(e) = lookupIdentifier(t, name) /\ OwnIdentifier(e)' = lookupIdentifier(t, name)'
    BY <2>1, <2>3 DEF OwnIdentifier
  <2>7. exprs[e].ref \in {NoValue, OwnIdentifier(e)}
    BY <1>9, <2>1, <2>2 DEF OwnNamesInv, NamesMeanOwn
  <2> QED BY <2>1, <2>5, <2>6, <2>7
<1>13. NamesMeanOwn'
  BY <1>12 DEF NamesMeanOwn
<1> QED BY <1>10, <1>11, <1>13 DEF OwnNamesInv

LEMMA NextKeepsOwnNames ==
    ASSUME GraphInv, AcyclicInv, OrderInv, NamesInv, [Next]_vars, IsBackward'
    PROVE  OwnNamesInv'
<1>1. ASSUME UNCHANGED program
      PROVE  IsBackward /\ OwnNamesInv /\ RefsAreBackward' /\ NamesMeanOwn'
  <2>1. SameObjects /\ exprs' = exprs
    BY <1>1, ProgramStays DEF program
  <2>2. IsBackward /\ OwnNamesInv
    BY <2>1, NamesStay DEF NamesInv
  <2> QED BY <2>1, <2>2, NamesStay DEF OwnNamesInv
<1>2. ASSUME SameObjects, \A e \in Expressions : exprs'[e].ref = exprs[e].ref
      PROVE  RefsAreBackward' /\ NamesMeanOwn'
  BY <1>2, NamesStay DEF NamesInv, OwnNamesInv
<1>3. ASSUME phase' \notin {"lookup", "unknown identifier"} PROVE FramesAreOfScope' /\ FailureIsOwn'
  BY <1>3 DEF FramesAreOfScope, FailureIsOwn
<1>4. CASE NextPhase
  <2>1. UNCHANGED program /\ frames' = <<>> /\ phase' \in ToSet(Phases) \cup {"accepted"}
    <3>1. \E n \in DOMAIN Phases :
             \/ n < Len(Phases) /\ phase' = Phases[n + 1]
             \/ phase' = Phases[1] \/ phase' = "accepted"
      BY <1>4 DEF NextPhase, Follows, End
    <3>2. \A n \in DOMAIN Phases : n < Len(Phases) => n + 1 \in DOMAIN Phases
      BY PhaseNames
    <3>3. 1 \in DOMAIN Phases
      BY PhaseNames
    <3>4. phase' \in ToSet(Phases) \cup {"accepted"}
      BY <3>1, <3>2, <3>3, PhaseNames
    <3> QED BY <1>4, <3>4 DEF NextPhase
  <2>2. FramesAreOfScope'
    BY <2>1 DEF FramesAreOfScope
  <2>3. FailureIsOwn'
    BY <2>1, PhaseNames DEF FailureIsOwn
  <2> QED BY <1>1, <2>1, <2>2, <2>3 DEF OwnNamesInv
<1>5. CASE Autofill
  BY <1>5, AutofillKeepsNames DEF NamesInv
<1>6. CASE KeepExplicit \/ FindCycle \/ FailValidate \/ Trap
  <2>1. UNCHANGED program /\ phase' \notin {"lookup", "unknown identifier"}
    BY <1>6 DEF KeepExplicit, FindCycle, FailValidate, Trap, End
  <2> QED BY <1>1, <1>3, <2>1 DEF OwnNamesInv
<1>7. CASE PassOver \/ Leave
  <2>1. UNCHANGED program /\ phase' = phase /\ phase \in Passes
    BY <1>7 DEF PassOver, Leave, Calls, Leaves
  <2>2. ReturnTo(frames) \/ (frames # <<>> /\ ReturnTo(Front(frames)))
    BY <1>7 DEF PassOver, Leave, Leaves
  <2>3. FramesAreOfScope
    BY <1>1, <2>1 DEF OwnNamesInv
  <2>4. FramesAreOfScope'
    BY <2>1, <2>2, <2>3, ReturnKeepsScope
  <2>5. FailureIsOwn'
    BY <2>1 DEF FailureIsOwn, Passes
  <2> QED BY <1>1, <2>1, <2>4, <2>5 DEF OwnNamesInv
<1>8. CASE CheckAcyclic \/ CheckedBefore \/ LeaveAcyclic \/ Validate \/ Descend \/ IsEvaluated
  <2>1. UNCHANGED program /\ phase' \in {"checkAcyclic", "validate", "evaluate"}
    BY <1>8 DEF CheckAcyclic, CheckedBefore, LeaveAcyclic, Validate, Descend, IsEvaluated, Calls, Leaves
  <2> QED BY <1>1, <1>3, <2>1 DEF OwnNamesInv
<1>9. CASE LookUp
  <2>1. /\ SameObjects /\ Expressions' = Expressions /\ types' = types
    BY <1>9, LookUpFacts, SameObjectsFacts DEF SameObjects
  <2>2. IsBackward
    BY <2>1 DEF SameObjects, IsBackward
  <2> QED BY <1>9, <2>2, LookUpKeepsNames
<1>10. CASE FailLookup
  <2>1. /\ UNCHANGED program /\ phase' = "unknown identifier"
        /\ Calls("lookup") /\ ~PassedOver(Called) /\ IsUnresolved(Called) /\ Found(Called) = NoValue
    BY <1>10 DEF FailLookup, End
  <2>2. IsBackward
    BY <1>1, <2>1
  <2>3. PICK u : u = Called
    OBVIOUS
  <2>4. u \in Expressions /\ IsUnresolved(u) /\ Meant(u) = NoValue
    BY <2>1, <2>2, <2>3, CalledIsOfScope, FoundIsOwn
  <2>5. /\ SameObjects /\ Expressions' = Expressions /\ types' = types /\ exprs' = exprs
        /\ AllValues' = AllValues /\ TypesInv'
    BY <2>1, ProgramStays, SameObjectsFacts DEF program
  <2>6. Meant(u)' = Meant(u)
    <3>1. PICK t, name : /\ name = exprs[u].name
                         /\ t = IF exprs[u].enum = 0 THEN exprs[u].owner ELSE exprs[u].enum
      OBVIOUS
    <3>2. t \in DOMAIN types /\ TypesInv
      BY <2>4, <3>1 DEF GraphInv, ExprsInv, IsExpression
    <3>3. lookupIdentifier(t, name)' = lookupIdentifier(t, name)
      BY <2>5, <3>2, SameLookups
    <3>4. Meant(u) = lookupIdentifier(t, name) /\ Meant(u)' = lookupIdentifier(t, name)'
      BY <2>5, <3>1 DEF Meant
    <3> QED BY <3>3, <3>4
  <2>7. IsUnresolved(u)'
    BY <2>4, <2>5 DEF IsUnresolved
  <2>8. FailureIsOwn'
    BY <2>4, <2>5, <2>6, <2>7 DEF FailureIsOwn
  <2>9. FramesAreOfScope'
    BY <2>1 DEF FramesAreOfScope
  <2> QED BY <1>1, <2>1, <2>8, <2>9 DEF OwnNamesInv
<1>11. CASE Evaluate
  <2>1. PICK u : u = Top.expr
    OBVIOUS
  <2>2. /\ SameObjects /\ exprs'[u].ref = exprs[u].ref
        /\ \A d \in Expressions : d # u => exprs'[d] = exprs[d]
    BY <1>11, <2>1, EvaluateFacts
  <2>3. \A e \in Expressions : exprs'[e].ref = exprs[e].ref
    BY <2>2
  <2>4. phase' = "evaluate"
    BY <1>11 DEF Evaluate, Leaves
  <2> QED BY <1>2, <1>3, <2>2, <2>3, <2>4 DEF OwnNamesInv
<1>12. CASE setPostParseCompleted
  <2>1. PICK u : u = Called
    OBVIOUS
  <2>2. /\ SameObjects /\ exprs'[u].ref = exprs[u].ref
        /\ \A d \in Expressions : d # u => exprs'[d] = exprs[d]
    BY <1>12, <2>1, CompleteFacts
  <2>3. \A e \in Expressions : exprs'[e].ref = exprs[e].ref
    BY <2>2
  <2>4. phase' = "complete"
    BY <1>12 DEF setPostParseCompleted, Calls
  <2> QED BY <1>2, <1>3, <2>2, <2>3, <2>4 DEF OwnNamesInv
<1>13. CASE Terminated \/ UNCHANGED vars
  <2>1. UNCHANGED <<types, exprs, values, autofilled, phase, todo, frames>>
    BY <1>13 DEF Terminated, vars, program, pass, walk
  <2>2. OwnNamesInv
    BY <1>1, <2>1 DEF program
  <2>3. FramesAreOfScope'
    BY <2>1, <2>2 DEF OwnNamesInv, FramesAreOfScope, scope
  <2>4. FailureIsOwn'
    <3>1. /\ SameObjects /\ Expressions' = Expressions /\ AllValues' = AllValues /\ TypesInv'
      BY <2>1, ProgramStays, SameObjectsFacts DEF program
    <3>2. ASSUME NEW u \in Expressions PROVE Meant(u)' = Meant(u)
      <4>1. PICK t, name : /\ name = exprs[u].name
                           /\ t = IF exprs[u].enum = 0 THEN exprs[u].owner ELSE exprs[u].enum
        OBVIOUS
      <4>2. t \in DOMAIN types /\ TypesInv
        BY <4>1 DEF GraphInv, ExprsInv, IsExpression
      <4>3. lookupIdentifier(t, name)' = lookupIdentifier(t, name)
        BY <2>1, <3>1, <4>2, SameLookups
      <4>4. Meant(u) = lookupIdentifier(t, name) /\ Meant(u)' = lookupIdentifier(t, name)'
        BY <2>1, <4>1 DEF Meant
      <4> QED BY <4>3, <4>4
    <3> QED BY <2>1, <2>2, <3>1, <3>2 DEF OwnNamesInv, FailureIsOwn, IsUnresolved
  <2> QED BY <1>1, <2>1, <2>3, <2>4 DEF OwnNamesInv, program
<1> QED BY <1>4, <1>5, <1>6, <1>7, <1>8, <1>9, <1>10, <1>11, <1>12, <1>13 DEF Next

LEMMA InitNames == Init => NamesInv
<1> SUFFICES ASSUME Init PROVE NamesInv
  OBVIOUS
<1>1. GraphInv
  BY InitGraph
<1>2. /\ file = 1 /\ phase = "resolveInheritance" /\ todo = FileValues(1)
      /\ \E p \in Programs : types = p.types /\ exprs = p.exprs
  BY DEF Init
<1>3. ByNumber(todo)
  BY <1>1, <1>2, FileValuesAreByType DEF GraphInv
<1>4. CompletedInv
  <2>1. ASSUME NEW v \in AllValues PROVE FileOf(v[1]) \in Nat \ {0}
    BY <1>1, TypeFacts, ValueFacts DEF GraphInv, TypesInv
  <2>2. \A v \in AllValues : ~(FileOf(v[1]) < file)
    BY <1>2, <2>1
  <2> QED BY <1>2, <2>2 DEF CompletedInv
<1>5. \A e \in Expressions : exprs[e].ref = NoValue
  <2> DEFINE T == ExpressionType(types, Len(exprs))
  <2>1. exprs \in Seq(T)
    BY <1>2, ProgramsAssumption DEF IsProgram, AreExpressions
  <2>2. \A e \in Expressions : exprs[e] \in T
    <3> HIDE DEF T
    <3> QED BY <2>1 DEF Expressions
  <2> QED BY <2>2 DEF ExpressionType
<1>6. OwnNamesInv
  BY <1>2, <1>5 DEF OwnNamesInv, RefsAreBackward, FramesAreOfScope, NamesMeanOwn, FailureIsOwn
<1> QED BY <1>3, <1>4, <1>6 DEF NamesInv

(* On every program, where enums are named and extended only after their   *)
(* definition, AST::lookupConstantExpressions finds for a plain name what  *)
(* the enum it is written in calls so, although it looks it up in the one  *)
(* the pass is at; and refuses no name that means something there.         *)
THEOREM BackwardNamesMeanOwnHolds == Spec => []BackwardNamesMeanOwn
<1>1. GraphInv /\ AcyclicInv /\ OrderInv /\ NamesInv /\ [Next]_vars => NamesInv'
  <2> SUFFICES ASSUME GraphInv, AcyclicInv, OrderInv, NamesInv, [Next]_vars PROVE NamesInv'
    OBVIOUS
  <2>1. ByNumber(todo)'
    BY TodoStaysByNumber DEF NamesInv, ByNumber
  <2>2. CompletedInv'
    BY NextKeepsCompleted DEF NamesInv
  <2>3. IsBackward' => OwnNamesInv'
    BY NextKeepsOwnNames
  <2> QED BY <2>1, <2>2, <2>3 DEF NamesInv
<1>2. NamesInv => BackwardNamesMeanOwn
  <2> SUFFICES ASSUME NamesInv, IsBackward
               PROVE  /\ NamesMeanOwn
                      /\ phase = "unknown identifier" =>
                           \E e \in Expressions : IsUnresolved(e) /\ Meant(e) = NoValue
    BY DEF BackwardNamesMeanOwn, Meant
  <2> QED BY DEF NamesInv, OwnNamesInv, FailureIsOwn
<1> QED BY <1>1, <1>2, InitNames, GraphInvHolds, OrderInvHolds, PTL DEF Spec

\* what has a factor less is less; how a quotient and its rest are determined
LEMMA QuotientAndRest ==
    ASSUME NEW n \in Int, NEW m \in Nat \ {0}
    PROVE  /\ n \div m \in Int /\ n % m \in Int /\ 0 <= n % m /\ n % m < m
           /\ n = m * (n \div m) + (n % m)
  OBVIOUS

LEMMA SmallMultiple ==
    ASSUME NEW m \in Nat \ {0}, NEW q \in Int, m * q < m, -m < m * q
    PROVE  q = 0
<1>1. CASE q >= 1
  <2>1. m * (q - 1) >= 0
    BY <1>1
  <2>2. m * (q - 1) = m * q - m
    OBVIOUS
  <2> QED BY <2>1, <2>2
<1>2. CASE q <= -1
  <2>1. m * (-1 - q) >= 0
    BY <1>2
  <2>2. m * (-1 - q) = -m - m * q
    OBVIOUS
  <2> QED BY <2>1, <2>2
<1> QED BY <1>1, <1>2

-----------------------------------------------------------------------------
Doubles(h, n) ==
    /\ h \in [0 .. n -> Nat \ {0}]
    /\ h[0] = 1
    /\ \A i \in 1 .. n : h[i] = 2 * h[i - 1]

LEMMA SomeDoubles == \A n \in Nat : \E h : Doubles(h, n)
<1> SUFFICES ASSUME NEW n \in Nat PROVE \E h : Doubles(h, n)
  OBVIOUS
<1> DEFINE D == Nat \ {0}
           st == [i \in 1 .. n |-> [x \in D |-> 2 * x]]
<1>1. \A x \in D : 2 * x \in D
  OBVIOUS
<1>2. st \in [1 .. n -> [D -> D]]
  BY <1>1
<1>3. 1 \in D
  OBVIOUS
<1>4. \A i \in 1 .. n : \A x \in D : st[i][x] = 2 * x
  OBVIOUS
<1> HIDE DEF D, st
<1>5. PICK h \in [0 .. n -> D] : h[0] = 1 /\ \A i \in 1 .. n : h[i] = st[i][h[i - 1]]
  BY <1>2, <1>3, SomeIteration
<1>6. ASSUME NEW i \in 1 .. n PROVE h[i] = 2 * h[i - 1]
  <2>1. i - 1 \in 0 .. n
    OBVIOUS
  <2>2. h[i - 1] \in D
    BY <2>1
  <2> QED BY <1>4, <1>5, <2>2
<1> QED BY <1>5, <1>6 DEF Doubles, D

LEMMA DoublesAgree ==
    ASSUME NEW n \in Nat, NEW m \in Nat, n <= m, NEW h, NEW g, Doubles(h, n), Doubles(g, m)
    PROVE  h[n] = g[n]
<1> DEFINE S == {i \in Nat : i <= n => h[i] = g[i]}
<1>1. 0 \in S
  BY DEF Doubles
<1>2. ASSUME NEW i \in Nat, i \in S PROVE i + 1 \in S
  <2> SUFFICES ASSUME i + 1 <= n PROVE h[i + 1] = g[i + 1]
    OBVIOUS
  <2>1. h[i] = g[i]
    BY <1>2
  <2>2. i + 1 \in 1 .. n /\ i + 1 \in 1 .. m /\ (i + 1) - 1 = i
    OBVIOUS
  <2>3. h[i + 1] = 2 * h[i] /\ g[i + 1] = 2 * g[i]
    BY <2>2 DEF Doubles
  <2> QED BY <2>1, <2>3
<1> HIDE DEF S
<1>3. \A i \in Nat : i \in S
  BY <1>1, <1>2, SetInduction
<1> QED BY <1>3 DEF S

LEMMA PowerSteps ==
    /\ PowerOfTwo[0] = 1
    /\ \A n \in Nat : PowerOfTwo[n] \in Nat \ {0} /\ PowerOfTwo[n + 1] = 2 * PowerOfTwo[n]
<1> DEFINE some(n) == CHOOSE h : Doubles(h, n)
           f == [n \in Nat |-> some(n)[n]]
<1>1. \A n \in Nat : Doubles(some(n), n)
  BY SomeDoubles
<1>2. \A n \in Nat : f[n] = some(n)[n]
  OBVIOUS
<1> HIDE DEF f, some
<1>3. f[0] = 1
  BY <1>1, <1>2 DEF Doubles
<1>4. ASSUME NEW n \in Nat PROVE f[n] \in Nat \ {0} /\ f[n + 1] = 2 * f[n]
  <2>1. Doubles(some(n), n) /\ Doubles(some(n + 1), n + 1)
    BY <1>1
  <2>2. n \in 0 .. n /\ n + 1 \in 1 .. (n + 1) /\ (n + 1) - 1 = n /\ n <= n + 1
    OBVIOUS
  <2>3. some(n)[n] \in Nat \ {0}
    BY <2>1, <2>2 DEF Doubles
  <2>4. some(n + 1)[n + 1] = 2 * some(n + 1)[n]
    BY <2>1, <2>2 DEF Doubles
  <2>5. some(n)[n] = some(n + 1)[n]
    BY <2>1, <2>2, DoublesAgree
  <2> QED BY <1>2, <2>3, <2>4, <2>5
<1>5. f = [n \in Nat |-> IF n = 0 THEN 1 ELSE 2 * f[n - 1]]
  <2>1. ASSUME NEW n \in Nat PROVE f[n] = IF n = 0 THEN 1 ELSE 2 * f[n - 1]
    <3>1. CASE n = 0
      BY <1>3, <3>1
    <3>2. CASE n # 0
      <4>1. n - 1 \in Nat /\ (n - 1) + 1 = n
        BY <3>2
      <4> QED BY <1>4, <3>2, <4>1
    <3> QED BY <3>1, <3>2
  <2>2. f = [n \in Nat |-> f[n]]
    BY DEF f
  <2> QED BY <2>1, <2>2
<1> DEFINE IsPower(g) == g = [n \in Nat |-> IF n = 0 THEN 1 ELSE 2 * g[n - 1]]
<1>6. IsPower(PowerOfTwo)
  <2>1. PowerOfTwo = CHOOSE g : IsPower(g)
    BY DEF PowerOfTwo
  <2>2. \E g : IsPower(g)
    BY <1>5
  <2> HIDE DEF IsPower
  <2> QED BY <2>1, <2>2
<1>7. PowerOfTwo[0] = 1 /\ \A n \in Nat : PowerOfTwo[n + 1] = 2 * PowerOfTwo[n]
  <2>1. PICK g : g = PowerOfTwo
    OBVIOUS
  <2>2. \A n \in Nat : g[n] = IF n = 0 THEN 1 ELSE 2 * g[n - 1]
    BY <1>6, <2>1
  <2>3. \A n \in Nat : n + 1 \in Nat /\ n + 1 # 0 /\ (n + 1) - 1 = n
    OBVIOUS
  <2> QED BY <2>1, <2>2, <2>3
<1>8. \A n \in Nat : PowerOfTwo[n] \in Nat \ {0}
  <2> DEFINE S == {n \in Nat : PowerOfTwo[n] \in Nat \ {0}}
  <2>1. 0 \in S
    BY <1>7
  <2>2. ASSUME NEW n \in Nat, n \in S PROVE n + 1 \in S
    BY <1>7, <2>2
  <2> HIDE DEF S
  <2>3. \A n \in Nat : n \in S
    BY <2>1, <2>2, SetInduction
  <2> QED BY <2>3 DEF S
<1> QED BY <1>7, <1>8

LEMMA PowerOfSum ==
    ASSUME NEW m \in Nat, NEW n \in Nat
    PROVE  PowerOfTwo[m + n] = PowerOfTwo[m] * PowerOfTwo[n]
<1> DEFINE S == {i \in Nat : PowerOfTwo[m + i] = PowerOfTwo[m] * PowerOfTwo[i]}
<1>1. 0 \in S
  <2>1. m + 0 = m /\ PowerOfTwo[m] * 1 = PowerOfTwo[m] /\ PowerOfTwo[0] = 1
    BY PowerSteps
  <2> QED BY <2>1
<1>2. ASSUME NEW i \in Nat, i \in S PROVE i + 1 \in S
  <2>1. PICK p, q : p = PowerOfTwo[m] /\ q = PowerOfTwo[i]
    OBVIOUS
  <2>2. p \in Nat /\ q \in Nat /\ PowerOfTwo[i + 1] = 2 * q
    BY <2>1, PowerSteps
  <2>3. PowerOfTwo[m + i] = p * q
    BY <1>2, <2>1
  <2>4. m + i \in Nat /\ m + (i + 1) = (m + i) + 1
    OBVIOUS
  <2>5. PowerOfTwo[m + (i + 1)] = 2 * (p * q)
    BY <2>3, <2>4, PowerSteps
  <2>6. 2 * (p * q) = p * (2 * q)
    BY <2>2
  <2> QED BY <2>1, <2>2, <2>5, <2>6
<1> HIDE DEF S
<1>3. \A i \in Nat : i \in S
  BY <1>1, <1>2, SetInduction
<1> QED BY <1>3 DEF S

LEMMA PowerIsLarge ==
    ASSUME NEW n \in Nat
    PROVE  n < PowerOfTwo[n]
<1> DEFINE S == {i \in Nat : i < PowerOfTwo[i]}
<1>1. 0 \in S
  BY PowerSteps
<1>2. ASSUME NEW i \in Nat, i \in S PROVE i + 1 \in S
  <2>1. i < PowerOfTwo[i] /\ PowerOfTwo[i] \in Nat /\ PowerOfTwo[i + 1] = 2 * PowerOfTwo[i]
    BY <1>2, PowerSteps
  <2> QED BY <2>1
<1> HIDE DEF S
<1>3. \A i \in Nat : i \in S
  BY <1>1, <1>2, SetInduction
<1> QED BY <1>3 DEF S

LEMMA PowerGrows ==
    ASSUME NEW m \in Nat, NEW n \in Nat, m <= n
    PROVE  /\ PowerOfTwo[m] <= PowerOfTwo[n]
           /\ \E c \in Nat \ {0} : PowerOfTwo[n] = PowerOfTwo[m] * c
<1>1. n - m \in Nat /\ m + (n - m) = n
  OBVIOUS
<1>2. PICK p, c : p = PowerOfTwo[m] /\ c = PowerOfTwo[n - m]
  OBVIOUS
<1>3. p \in Nat \ {0} /\ c \in Nat \ {0}
  BY <1>1, <1>2, PowerSteps
<1>4. PowerOfTwo[n] = p * c
  BY <1>1, <1>2, PowerOfSum
<1>5. p <= p * c
  <2>1. p * (c - 1) >= 0 /\ p * (c - 1) = p * c - p
    BY <1>3
  <2> QED BY <1>3, <2>1
<1> QED BY <1>2, <1>3, <1>4, <1>5

-----------------------------------------------------------------------------
(* Casts keep a value up to a multiple of the power of two of their width. *)

Modulus(k) == PowerOfTwo[Width[k]]

LEMMA WidthFacts ==
    /\ \A k \in Kinds : Width[k] \in Nat \ {0} /\ Width[k] <= Width["UINT64"]
    /\ \A k \in Kinds : k # "BOOL" => 1 < Width[k]
<1>1. \A k \in Kinds : Width[k] \in Nat \ {0}
  BY WidthAssumption
<1> QED BY <1>1, WidthAssumption, SMTT(30) DEF Kinds, SignedKinds

LEMMA RangeFacts ==
    ASSUME NEW k \in Kinds
    PROVE  /\ Modulus(k) \in Nat \ {0}
           /\ Lowest(k) \in Int /\ Highest(k) \in Int /\ Lowest(k) <= 0 /\ 1 <= Highest(k)
           /\ k # "BOOL" => Highest(k) = Lowest(k) + Modulus(k) - 1
           /\ k # "BOOL" => Highest(k) < Modulus(k) /\ Modulus(k) = 2 * PowerOfTwo[Width[k] - 1]
           /\ k \in SignedKinds => Lowest(k) < 0
           /\ k = "BOOL" => Lowest(k) = 0 /\ Highest(k) = 1
           /\ k = "BOOL" => k \notin SignedKinds
           /\ k \notin SignedKinds => Lowest(k) = 0
<1>1. PICK w, h : w = Width[k] /\ h = PowerOfTwo[Width[k] - 1]
  OBVIOUS
<1>2. w \in Nat \ {0} /\ w - 1 \in Nat /\ (w - 1) + 1 = w /\ (k # "BOOL" => 1 < w)
  BY <1>1, WidthFacts
<1>3. h \in Nat \ {0} /\ Modulus(k) = 2 * h
  BY <1>1, <1>2, PowerSteps DEF Modulus
<1>4. k # "BOOL" => 2 <= h
  <2>1. w - 1 < h
    BY <1>1, <1>2, PowerIsLarge
  <2> QED BY <1>2, <1>3, <2>1
<1>5. k = "BOOL" => k \notin SignedKinds
  BY DEF SignedKinds
<1>6. Lowest(k) = IF k \in SignedKinds THEN -h ELSE 0
  BY <1>1 DEF Lowest
<1>7. Highest(k) = IF k = "BOOL" THEN 1 ELSE IF k \in SignedKinds THEN h - 1 ELSE Modulus(k) - 1
  BY <1>1, <1>5 DEF Highest, Modulus
<1> QED BY <1>1, <1>3, <1>4, <1>5, <1>6, <1>7

LEMMA CastFacts ==
    ASSUME NEW k \in Kinds, NEW n \in Int
    PROVE  /\ Cast(k, n) \in Int /\ InRange(k, Cast(k, n))
           /\ k # "BOOL" => \E q \in Int : Cast(k, n) = n + Modulus(k) * q
<1>1. PICK m, lo, hi : m = Modulus(k) /\ lo = Lowest(k) /\ hi = Highest(k)
  OBVIOUS
<1>2. /\ m \in Nat \ {0} /\ lo \in Int /\ hi \in Int /\ lo <= 0 /\ 1 <= hi
      /\ k # "BOOL" => hi = lo + m - 1
  BY <1>1, RangeFacts
<1>3. CASE k = "BOOL"
  <2>1. Cast(k, n) \in {0, 1}
    BY <1>3 DEF Cast, Truth
  <2> QED BY <1>1, <1>2, <1>3, <2>1 DEF InRange
<1>4. CASE k # "BOOL"
  <2>1. PICK r, q : r = n % m /\ q = n \div m
    OBVIOUS
  <2>2. r \in Int /\ q \in Int /\ 0 <= r /\ r < m /\ n = m * q + r
    BY <1>2, <2>1, QuotientAndRest
  <2>3. Cast(k, n) = IF r > hi THEN r - m ELSE r
    BY <1>1, <1>4, <2>1 DEF Cast, Modulus
  <2>4. Cast(k, n) \in Int /\ lo <= Cast(k, n) /\ Cast(k, n) <= hi
    BY <1>2, <1>4, <2>2, <2>3
  <2>5. \E p \in Int : Cast(k, n) = n + m * p
    <3>1. m * (-q) = -(m * q) /\ m * (-q - 1) = -(m * q) - m
      BY <1>2, <2>2
    <3>2. r = n + m * (-q) /\ r - m = n + m * (-q - 1)
      BY <1>2, <2>2, <3>1
    <3>3. -q \in Int /\ -q - 1 \in Int
      BY <2>2
    <3> QED BY <2>3, <3>2, <3>3
  <2> QED BY <1>1, <2>4, <2>5 DEF InRange
<1> QED BY <1>3, <1>4

\* the cast is the one value of the kind with that rest
LEMMA CastIsUnique ==
    ASSUME NEW k \in Kinds, k # "BOOL", NEW n \in Int, NEW c \in Int, InRange(k, c),
           NEW q \in Int, c = n + Modulus(k) * q
    PROVE  Cast(k, n) = c
<1>1. PICK m, d : m = Modulus(k) /\ d = Cast(k, n)
  OBVIOUS
<1>2. m \in Nat \ {0} /\ Lowest(k) \in Int /\ Highest(k) = Lowest(k) + m - 1
  BY <1>1, RangeFacts
<1>3. PICK p \in Int : d = n + m * p
  BY <1>1, CastFacts
<1>4. d \in Int /\ Lowest(k) <= d /\ d <= Highest(k)
  BY <1>1, CastFacts DEF InRange
<1>5. Lowest(k) <= c /\ c <= Highest(k)
  BY DEF InRange
<1>6. c - d = m * (q - p)
  <2>1. m * (q - p) = m * q - m * p
    BY <1>2
  <2> QED BY <1>1, <1>2, <1>3, <1>4, <2>1
<1>7. c - d < m /\ -m < c - d
  BY <1>2, <1>4, <1>5
<1>8. q - p = 0
  <2>1. q - p \in Int /\ m * (q - p) < m /\ -m < m * (q - p)
    BY <1>6, <1>7
  <2> QED BY <1>2, <2>1, SmallMultiple
<1>9. q = p
  BY <1>8
<1> QED BY <1>1, <1>3, <1>9

LEMMA CastInRange ==
    ASSUME NEW k \in Kinds, NEW n \in Int, InRange(k, n)
    PROVE  Cast(k, n) = n
<1>1. CASE k = "BOOL"
  <2>1. n \in {0, 1}
    BY <1>1, RangeFacts DEF InRange
  <2> QED BY <1>1, <2>1 DEF Cast, Truth
<1>2. CASE k # "BOOL"
  <2>1. n = n + Modulus(k) * 0
    BY RangeFacts
  <2> QED BY <1>2, <2>1, CastIsUnique
<1> QED BY <1>1, <1>2

LEMMA CastOfCongruent ==
    ASSUME NEW k \in Kinds, k # "BOOL", NEW n \in Int, NEW p \in Int, NEW q \in Int,
           n = p + Modulus(k) * q
    PROVE  Cast(k, n) = Cast(k, p)
<1>1. PICK m, c : m = Modulus(k) /\ c = Cast(k, n)
  OBVIOUS
<1>2. m \in Nat
  BY <1>1, RangeFacts
<1>3. c \in Int /\ InRange(k, c)
  BY <1>1, CastFacts
<1>4. PICK r \in Int : c = n + m * r
  BY <1>1, CastFacts
<1>5. m * (q + r) = m * q + m * r
  BY <1>2
<1>6. q + r \in Int /\ c = p + m * (q + r)
  BY <1>1, <1>2, <1>4, <1>5
<1>7. c = p + Modulus(k) * (q + r)
  BY <1>1, <1>6
<1>8. Cast(k, p) = c
  BY <1>3, <1>6, <1>7, CastIsUnique
<1> QED BY <1>1, <1>8

\* a cast to a kind that is no narrower is lost
LEMMA CastOfWider ==
    ASSUME NEW k \in Kinds, k # "BOOL", NEW l \in Kinds, l # "BOOL", Width[k] <= Width[l],
           NEW n \in Int, NEW q \in Int, NEW p \in Int, p = n + Modulus(l) * q
    PROVE  Cast(k, p) = Cast(k, n)
<1>1. PICK m : m = Modulus(k)
  OBVIOUS
<1>2. PICK c \in Nat \ {0} : Modulus(l) = m * c
  BY <1>1, WidthFacts, PowerGrows DEF Modulus
<1>3. m \in Nat
  BY <1>1, RangeFacts
<1>4. (m * c) * q = m * (c * q) /\ c * q \in Int
  BY <1>2, <1>3
<1>5. p = n + m * (c * q)
  BY <1>2, <1>4
<1> QED BY <1>1, <1>4, <1>5, CastOfCongruent

LEMMA CastTwice ==
    ASSUME NEW k \in Kinds, k # "BOOL", NEW l \in Kinds, l # "BOOL", Width[k] <= Width[l],
           NEW n \in Int
    PROVE  Cast(k, Cast(l, n)) = Cast(k, n)
<1>1. PICK q \in Int : Cast(l, n) = n + Modulus(l) * q
  BY CastFacts
<1>2. Cast(l, n) \in Int
  BY CastFacts
<1> QED BY <1>1, <1>2, CastOfWider

LEMMA UINT64Facts == "UINT64" \in Kinds /\ "UINT64" # "BOOL" /\ "UINT64" \notin SignedKinds
  BY DEF Kinds, SignedKinds

\* what is stored of a value is that value for its own kind
LEMMA CastOfStored ==
    ASSUME NEW k \in Kinds, NEW n \in Int
    PROVE  /\ Stored(n) \in Int
           /\ k # "BOOL" => Cast(k, Stored(n)) = Cast(k, n)
           /\ InRange(k, n) => Cast(k, Stored(n)) = n
<1>1. Stored(n) \in Int
  BY UINT64Facts, CastFacts DEF Stored
<1>2. k # "BOOL" => Cast(k, Stored(n)) = Cast(k, n)
  BY UINT64Facts, WidthFacts, CastTwice DEF Stored
<1>3. CASE k = "BOOL" /\ InRange(k, n)
  <2>1. n \in {0, 1}
    BY <1>3, RangeFacts DEF InRange
  <2>2. InRange("UINT64", n)
    BY <2>1, UINT64Facts, RangeFacts DEF InRange
  <2>3. Stored(n) = n
    BY <2>2, UINT64Facts, CastInRange DEF Stored
  <2> QED BY <1>1, <1>3, <2>3, CastInRange
<1>4. CASE k # "BOOL" /\ InRange(k, n)
  BY <1>1, <1>2, <1>4, CastInRange
<1> QED BY <1>1, <1>2, <1>3, <1>4

LEMMA StoredTwice ==
    ASSUME NEW n \in Int
    PROVE  Stored(Stored(n)) = Stored(n)
<1>1. Stored(n) \in Int
  BY UINT64Facts, CastFacts DEF Stored
<1> QED BY <1>1, UINT64Facts, CastOfStored DEF Stored

\* what a value is stored as if it fits into the kind, or the kind is as wide as what it is stored in
IsKept(k, n) == n \in Int /\ (InRange(k, n) \/ (k # "BOOL" /\ Width[k] = Width["UINT64"]))

LEMMA StoredOfMeaning ==
    ASSUME NEW k \in Kinds, NEW n, IsKept(k, n)
    PROVE  Stored(n) = Stored(Cast(k, Stored(n)))
<1>1. n \in Int /\ Stored(n) \in Int
  BY UINT64Facts, CastOfStored DEF IsKept
<1>2. CASE InRange(k, n)
  BY <1>1, <1>2, CastOfStored
<1>3. CASE k # "BOOL" /\ Width[k] = Width["UINT64"]
  <2>1. Cast(k, Stored(n)) = Cast(k, n)
    BY <1>1, <1>3, CastOfStored
  <2>2. Cast("UINT64", Cast(k, n)) = Cast("UINT64", n)
    <3>1. Width["UINT64"] <= Width[k]
      BY <1>3, WidthFacts
    <3> QED BY <1>1, <1>3, <3>1, UINT64Facts, CastTwice
  <2> QED BY <2>1, <2>2 DEF Stored
<1> QED BY <1>2, <1>3 DEF IsKept

LEMMA StoredIsZero ==
    ASSUME NEW k \in Kinds, NEW n \in Int, InRange(k, n)
    PROVE  Stored(n) = 0 <=> n = 0
<1>1. Cast(k, Stored(n)) = n
  BY CastOfStored
<1>2. InRange("UINT64", 0) /\ InRange(k, 0)
  BY UINT64Facts, RangeFacts DEF InRange
<1>3. Stored(0) = 0 /\ Cast(k, 0) = 0
  BY <1>2, UINT64Facts, CastInRange DEF Stored
<1> QED BY <1>1, <1>3

LEMMA TruthFacts ==
    ASSUME NEW k \in Kinds, NEW b
    PROVE  Truth(b) \in {0, 1} /\ Truth(b) \in Int /\ InRange(k, Truth(b)) /\ Cast(k, Truth(b)) = Truth(b)
<1>1. Truth(b) \in {0, 1}
  BY DEF Truth
<1>2. InRange(k, 0) /\ InRange(k, 1)
  BY RangeFacts DEF InRange
<1>3. InRange(k, Truth(b)) /\ Truth(b) \in Int
  BY <1>1, <1>2
<1> QED BY <1>1, <1>3, CastInRange

-----------------------------------------------------------------------------
(* What the operators compute.                                             *)

LEMMA KindFacts ==
    /\ \A k \in Kinds : PromotedTo(k) \in Kinds /\ PromotedTo(k) # "BOOL" /\ Width[k] <= Width[PromotedTo(k)]
    /\ \A k, l \in Kinds : Common(k, l) \in Kinds
    /\ \A k, l \in Kinds : k # "BOOL" /\ l # "BOOL" =>
         Common(k, l) # "BOOL" /\ Width[k] <= Width[Common(k, l)] /\ Width[l] <= Width[Common(k, l)]
<1> DEFINE w == Width
<1>1. \A k \in Kinds : w[k] \in Nat \ {0}
  BY WidthAssumption
<1>2. ASSUME NEW k \in Kinds
      PROVE  PromotedTo(k) \in Kinds /\ PromotedTo(k) # "BOOL" /\ Width[k] <= Width[PromotedTo(k)]
  BY <1>1, WidthAssumption, SMTT(60) DEF PromotedTo, DocumentedRank, Kinds, SignedKinds
<1>3. ASSUME NEW k \in Kinds, NEW l \in Kinds
      PROVE  /\ Common(k, l) \in {k, l}
             /\ Width[k] <= Width[Common(k, l)] /\ Width[l] <= Width[Common(k, l)]
  BY <1>1, SMTT(60) DEF Common, DocumentedRank
<1> QED BY <1>2, <1>3

LEMMA RangeOfPromoted ==
    ASSUME NEW k \in Kinds, NEW n \in Int, InRange(k, n)
    PROVE  InRange(PromotedTo(k), n)
<1>1. CASE PromotedTo(k) = k
  BY <1>1
<1>2. CASE PromotedTo(k) # k
  <2>1. PromotedTo(k) = "INT32" /\ "INT32" \in Kinds /\ "INT32" \in SignedKinds
    BY <1>2 DEF PromotedTo, Kinds, SignedKinds
  <2>2. PICK v, w : v = Width[k] /\ w = Width["INT32"]
    OBVIOUS
  <2>3. v \in Nat \ {0} /\ w \in Nat \ {0} /\ v < w
    BY <1>2, <2>1, <2>2, WidthAssumption DEF PromotedTo, DocumentedRank
  <2>4. v - 1 \in Nat /\ w - 1 \in Nat /\ v <= w - 1 /\ v - 1 <= w - 1
    BY <2>3
  <2>5. PowerOfTwo[v] <= PowerOfTwo[w - 1] /\ PowerOfTwo[v - 1] <= PowerOfTwo[w - 1]
    BY <2>3, <2>4, PowerGrows
  <2>6. PowerOfTwo[v] \in Nat \ {0} /\ PowerOfTwo[v - 1] \in Nat \ {0} /\ PowerOfTwo[w - 1] \in Nat \ {0}
    BY <2>3, <2>4, PowerSteps
  <2>7. /\ Lowest("INT32") = -PowerOfTwo[w - 1] /\ Highest("INT32") = PowerOfTwo[w - 1] - 1
    BY <2>1, <2>2 DEF Lowest, Highest
  <2>8. CASE k = "BOOL"
    <3>1. n = 0 \/ n = 1
      BY <2>8, RangeFacts DEF InRange
    <3> QED BY <2>1, <3>1, RangeFacts DEF InRange
  <2>9. CASE k # "BOOL" /\ k \in SignedKinds
    <3>1. Lowest(k) = -PowerOfTwo[v - 1] /\ Highest(k) = PowerOfTwo[v - 1] - 1
      BY <2>2, <2>9 DEF Lowest, Highest
    <3> QED BY <2>1, <2>5, <2>6, <2>7, <3>1 DEF InRange
  <2>10. CASE k # "BOOL" /\ k \notin SignedKinds
    <3>1. Lowest(k) = 0 /\ Highest(k) = PowerOfTwo[v] - 1
      BY <2>2, <2>10 DEF Lowest, Highest
    <3> QED BY <2>1, <2>5, <2>6, <2>7, <3>1 DEF InRange
  <2> QED BY <2>8, <2>9, <2>10
<1> QED BY <1>1, <1>2

LEMMA NumberIsInt ==
    ASSUME NEW k \in Kinds, NEW bits
    PROVE  Number(k, bits) \in Int
<1> DEFINE m == Width[k]
           add(n) == IF n - 1 \in bits THEN PowerOfTwo[n - 1] ELSE 0
           sum[n \in 0 .. m] == IF n = 0 THEN 0 ELSE sum[n - 1] + add(n)
           st == [n \in 1 .. m |-> [x \in Int |-> x + add(n)]]
<1>1. m \in Nat
  BY WidthFacts
<1>2. Number(k, bits) = sum[m]
  BY DEF Number
<1>3. \A n \in 1 .. m : add(n) \in Int
  <2>1. ASSUME NEW n \in 1 .. m PROVE add(n) \in Int
    <3>1. n - 1 \in Nat
      BY <1>1
    <3> QED BY <3>1, PowerSteps
  <2> QED BY <2>1
<1> HIDE DEF add, m, sum
<1>4. st \in [1 .. m -> [Int -> Int]]
  BY <1>3
<1>5. \A n \in 1 .. m : \A x \in Int : st[n][x] = x + add(n)
  OBVIOUS
<1> HIDE DEF st
<1>6. PICK f \in [0 .. m -> Int] : f[0] = 0 /\ \A n \in 1 .. m : f[n] = st[n][f[n - 1]]
  <2>1. PICK D : D = Int
    OBVIOUS
  <2>2. 0 \in D /\ st \in [1 .. m -> [D -> D]]
    BY <1>4, <2>1
  <2>3. \E f \in [0 .. m -> D] : f[0] = 0 /\ \A n \in 1 .. m : f[n] = st[n][f[n - 1]]
    BY <1>1, <2>2, SomeIteration
  <2> QED BY <2>1, <2>3
<1> DEFINE IsSum(g) == g = [n \in 0 .. m |-> IF n = 0 THEN 0 ELSE g[n - 1] + add(n)]
<1>7. IsSum(f)
  <2>1. ASSUME NEW n \in 0 .. m PROVE f[n] = IF n = 0 THEN 0 ELSE f[n - 1] + add(n)
    <3>1. CASE n = 0
      BY <1>6, <3>1
    <3>2. CASE n # 0
      <4>1. n \in 1 .. m /\ n - 1 \in 0 .. m
        BY <1>1, <3>2
      <4>2. f[n - 1] \in Int
        BY <1>6, <4>1
      <4> QED BY <1>5, <1>6, <3>2, <4>1, <4>2
    <3> QED BY <3>1, <3>2
  <2> QED BY <1>6, <2>1
<1>8. IsSum(sum)
  <2>1. sum = CHOOSE g : IsSum(g)
    BY DEF sum
  <2> HIDE DEF IsSum
  <2> QED BY <1>7, <2>1
<1>9. sum[0] = 0 /\ \A n \in 1 .. m : sum[n] = sum[n - 1] + add(n)
  <2>1. PICK g : g = sum
    OBVIOUS
  <2>2. \A n \in 0 .. m : g[n] = IF n = 0 THEN 0 ELSE g[n - 1] + add(n)
    BY <1>8, <2>1
  <2>3. 0 \in 0 .. m /\ \A n \in 1 .. m : n \in 0 .. m /\ n # 0
    BY <1>1
  <2> QED BY <2>1, <2>2, <2>3
<1>10. \A n \in 0 .. m : sum[n] \in Int
  <2>1. \A n \in 1 .. m : sum[n - 1] \in Int => sum[n] \in Int
    BY <1>3, <1>9
  <2>2. sum[0] \in Int
    BY <1>9
  <2> QED BY <1>1, <2>1, <2>2, StaysIn
<1>11. m \in 0 .. m
  BY <1>1
<1> QED BY <1>2, <1>10, <1>11

LEMMA QuotientIsInt ==
    ASSUME NEW l \in Int, NEW r \in Int, r # 0
    PROVE  Quotient(l, r) \in Int
<1>1. Magnitude(l) \in Int /\ Magnitude(r) \in Nat \ {0}
  BY DEF Magnitude
<1>2. Magnitude(l) \div Magnitude(r) \in Int
  BY <1>1, QuotientAndRest
<1> QED BY <1>2 DEF Quotient

LEMMA BinaryFacts ==
    ASSUME NEW k \in Kinds, NEW op \in Arithmetic \cup Bitflip \cup Comparison,
           NEW l \in Int, NEW r \in Int, ~Traps(k, op, l, r)
    PROVE  LET c == handleBinaryCommon(k, op, l, r) IN
             /\ c \in Int /\ InRange(k, c)
             /\ op \in Arithmetic =>
                  /\ Exact(op, l, r) \in Int
                  /\ c = Cast(k, Exact(op, l, r))
             /\ op \in Comparison => c = Exact(op, l, r) /\ c = Truth(Holds(op, l, r))
<1> DEFINE c == handleBinaryCommon(k, op, l, r)
<1>1. CASE op \in {"+", "-", "*"}
  <2>1. PICK n \in Int : n = Exact(op, l, r) /\ c = Cast(k, n)
    <3>1. CASE op = "+"
      <4>1. Exact(op, l, r) = l + r
        BY <3>1 DEF Exact, Comparison
      <4>2. c = Cast(k, l + r)
        BY <3>1 DEF handleBinaryCommon, Comparison
      <4>3. l + r \in Int
        OBVIOUS
      <4> QED BY <4>1, <4>2, <4>3
    <3>2. CASE op = "-"
      <4>1. Exact(op, l, r) = l - r
        BY <3>2 DEF Exact, Comparison
      <4>2. c = Cast(k, l - r)
        BY <3>2 DEF handleBinaryCommon, Comparison
      <4>3. l - r \in Int
        OBVIOUS
      <4> QED BY <4>1, <4>2, <4>3
    <3>3. CASE op = "*"
      <4>1. Exact(op, l, r) = l * r
        BY <3>3 DEF Exact, Comparison
      <4>2. c = Cast(k, l * r)
        BY <3>3 DEF handleBinaryCommon, Comparison
      <4>3. l * r \in Int
        OBVIOUS
      <4> QED BY <4>1, <4>2, <4>3
    <3> QED BY <1>1, <3>1, <3>2, <3>3
  <2>2. op \notin Comparison
    BY <1>1 DEF Comparison
  <2> QED BY <2>1, <2>2, CastFacts
<1>2. CASE op \in {"/", "%"}
  <2>1. r # 0
    BY <1>2 DEF Traps
  <2>2. PICK q \in Int : q = Quotient(l, r)
    BY <2>1, QuotientIsInt
  <2>3. PICK n \in Int : n = Exact(op, l, r) /\ c = Cast(k, n)
    <3>1. CASE op = "/"
      <4>1. Exact(op, l, r) = Quotient(l, r)
        BY <3>1 DEF Exact, Comparison
      <4>2. c = Cast(k, Quotient(l, r))
        BY <3>1 DEF handleBinaryCommon, Comparison
      <4>3. Quotient(l, r) \in Int
        BY <2>2
      <4> QED BY <4>1, <4>2, <4>3
    <3>2. CASE op = "%"
      <4>1. Exact(op, l, r) = l - r * Quotient(l, r)
        BY <3>2 DEF Exact, Comparison
      <4>2. c = Cast(k, l - r * Quotient(l, r))
        BY <3>2 DEF handleBinaryCommon, Comparison
      <4>3. l - r * Quotient(l, r) \in Int
        BY <2>2
      <4> QED BY <4>1, <4>2, <4>3
    <3> QED BY <1>2, <3>1, <3>2
  <2>4. op \notin Comparison
    BY <1>2 DEF Comparison
  <2> QED BY <2>3, <2>4, CastFacts
<1>3. CASE op \in Bitflip
  <2>1. PICK n \in Int : c = Cast(k, n)
    <3>1. CASE op = "|"
      <4>1. c = Cast(k, Number(k, Bits(k, l) \cup Bits(k, r)))
        BY <3>1 DEF handleBinaryCommon, Comparison
      <4> QED BY <4>1, NumberIsInt
    <3>2. CASE op = "&"
      <4>1. c = Cast(k, Number(k, Bits(k, l) \cap Bits(k, r)))
        BY <3>2 DEF handleBinaryCommon, Comparison
      <4> QED BY <4>1, NumberIsInt
    <3>3. CASE op = "^"
      <4>1. c = Cast(k, Number(k, SymDiff(Bits(k, l), Bits(k, r))))
        BY <3>3 DEF handleBinaryCommon, Comparison
      <4> QED BY <4>1, NumberIsInt
    <3> QED BY <1>3, <3>1, <3>2, <3>3 DEF Bitflip
  <2>2. op \notin Comparison /\ op \notin Arithmetic
    BY <1>3 DEF Comparison, Bitflip, Arithmetic
  <2> QED BY <2>1, <2>2, CastFacts
<1>4. CASE op \in Comparison
  <2>1. op \notin Arithmetic /\ op \notin {"+", "-", "*", "/", "%", "|", "&", "^"}
    BY <1>4 DEF Comparison, Arithmetic
  <2>2. Exact(op, l, r) = Truth(Holds(op, l, r))
    BY <1>4 DEF Exact, Comparison
  <2>3. c = Cast(k, Truth(Holds(op, l, r)))
    BY <1>4 DEF handleBinaryCommon, Comparison
  <2> QED BY <2>1, <2>2, <2>3, TruthFacts
<1> QED BY <1>1, <1>2, <1>3, <1>4 DEF Arithmetic

LEMMA UnaryFacts ==
    ASSUME NEW k \in Kinds, NEW op \in UnaryOps, NEW n \in Int
    PROVE  LET c == handleUnary(k, op, n) IN
             /\ c \in Int /\ InRange(k, c)
             /\ op = "-" => c = Cast(k, -n)
             /\ op = "!" => c = Truth(n = 0)
<1> DEFINE c == handleUnary(k, op, n)
<1>1. CASE op = "+"
  BY <1>1, CastFacts DEF handleUnary
<1>2. CASE op = "-"
  <2>1. -n \in Int
    OBVIOUS
  <2> QED BY <1>2, <2>1, CastFacts DEF handleUnary
<1>3. CASE op = "!"
  <2>1. c = Cast(k, Truth(n = 0))
    BY <1>3 DEF handleUnary
  <2> QED BY <1>3, <2>1, TruthFacts
<1>4. CASE op = "~"
  <2>1. -n - 1 \in Int
    OBVIOUS
  <2> QED BY <1>4, <2>1, CastFacts DEF handleUnary
<1> QED BY <1>1, <1>2, <1>3, <1>4 DEF UnaryOps

LEMMA ShiftFacts ==
    ASSUME NEW k \in Kinds, NEW op \in Shift, NEW n \in Int, NEW b \in Nat
    PROVE  LET c == handleShift(k, op, n, b) IN
             /\ c \in Int /\ InRange(k, c)
             /\ b < Width[k] =>
                  /\ op = "<<" => c = Cast(k, n * PowerOfTwo[b])
                  /\ op = ">>" => c = Cast(k, n \div PowerOfTwo[b])
             /\ n * PowerOfTwo[b] \in Int /\ n \div PowerOfTwo[b] \in Int
<1> DEFINE c == handleShift(k, op, n, b)
<1>1. PICK w : w = Width[k]
  OBVIOUS
<1>2. w \in Nat \ {0}
  BY <1>1, WidthFacts
<1>3. b % w \in Nat
  BY <1>2, QuotientAndRest
<1>4. b < w => b % w = b
  BY <1>2
<1>5. \A i \in Nat : n * PowerOfTwo[i] \in Int /\ n \div PowerOfTwo[i] \in Int
  <2>1. ASSUME NEW m \in Nat \ {0} PROVE n * m \in Int /\ n \div m \in Int
    BY QuotientAndRest
  <2> QED BY <2>1, PowerSteps
<1>6. /\ op = "<<" => c = Cast(k, n * PowerOfTwo[b % w])
      /\ op = ">>" => c = Cast(k, n \div PowerOfTwo[b % w])
  BY <1>1 DEF handleShift
<1>7. op = "<<" \/ op = ">>"
  BY DEF Shift
<1> QED BY <1>1, <1>3, <1>4, <1>5, <1>6, <1>7, CastFacts

\* shifting to the right brings no value out of the range
LEMMA RightShiftInRange ==
    ASSUME NEW k \in Kinds, NEW n \in Nat, InRange(k, n), NEW b \in Nat
    PROVE  InRange(k, n \div PowerOfTwo[b])
<1>1. PICK m : m = PowerOfTwo[b]
  OBVIOUS
<1>2. m \in Nat \ {0}
  BY <1>1, PowerSteps
<1>3. PICK q : q = n \div m
  OBVIOUS
<1>4. q \in Int /\ 0 <= n % m /\ n % m < m /\ n = m * q + (n % m)
  BY <1>2, <1>3, QuotientAndRest
<1>5. 0 <= q
  <2>1. CASE q <= -1
    <3>1. m * (-1 - q) >= 0 /\ m * (-1 - q) = -m - m * q
      BY <1>2, <1>4, <2>1
    <3> QED BY <1>2, <1>4, <3>1
  <2> QED BY <1>4, <2>1
<1>6. q <= n
  <2>1. (m - 1) * q >= 0 /\ (m - 1) * q = m * q - q
    BY <1>2, <1>4, <1>5
  <2> QED BY <1>2, <1>4, <2>1
<1> QED BY <1>1, <1>3, <1>4, <1>5, <1>6, RangeFacts DEF InRange

\* a number of bits is small enough to be one of the widest kind
LEMMA BitsInRange ==
    ASSUME NEW k \in Kinds, NEW b \in Nat, b < Width[k]
    PROVE  InRange("INT64", b)
<1>1. "INT64" \in Kinds /\ "INT64" \in SignedKinds /\ Width["INT64"] = Width["UINT64"]
  BY WidthAssumption DEF Kinds, SignedKinds
<1>2. PICK w : w = Width["INT64"]
  OBVIOUS
<1>3. w \in Nat \ {0} /\ w - 1 \in Nat /\ b <= w - 1
  BY <1>1, <1>2, WidthFacts
<1>4. w - 1 < PowerOfTwo[w - 1] /\ PowerOfTwo[w - 1] \in Nat
  BY <1>3, PowerIsLarge, PowerSteps
<1>5. Lowest("INT64") = -PowerOfTwo[w - 1] /\ Highest("INT64") = PowerOfTwo[w - 1] - 1
  BY <1>1, <1>2 DEF Lowest, Highest
<1> QED BY <1>3, <1>4, <1>5 DEF InRange

LEMMA LiteralFacts ==
    ASSUME NEW k, NEW n \in Int, IsLiteral(k, n)
    PROVE  k \in Kinds /\ Stored(n) = n /\ n = Stored(Cast(k, n))
<1>1. InRange("UINT64", n)
  BY DEF IsLiteral
<1>2. Stored(n) = n
  BY <1>1, UINT64Facts, CastInRange DEF Stored
<1>3. PICK isLong \in BOOLEAN, isUnsigned \in BOOLEAN, isHex \in BOOLEAN :
        k = LiteralKind(n, isLong, isUnsigned, isHex)
  BY DEF IsLiteral
<1>4. \/ k = "UINT64" \/ k = "INT64"
      \/ k = "UINT32" /\ InRange("UINT32", n)
      \/ k = "INT32" /\ InRange("INT32", n)
  BY <1>3 DEF LiteralKind
<1>5. k \in Kinds
  BY <1>4 DEF Kinds, SignedKinds
<1>6. IsKept(k, n)
  BY <1>4, WidthAssumption DEF IsKept
<1>7. Stored(n) = Stored(Cast(k, Stored(n)))
  BY <1>5, <1>6, StoredOfMeaning
<1> QED BY <1>2, <1>5, <1>7

-----------------------------------------------------------------------------
(* The values.  What an expression was computed to be is what evaluate()   *)
(* would compute of it at any later time, as its dependencies do not       *)
(* change any more; so all that is promised of its value is promised of    *)
(* the operators.                                                          *)

\* the shapes that the grammar and autofill make
HasShape(x) ==
    \/ x.shape = "literal" /\ x.evaluated
    \/ x.shape = "reference"
    \/ x.shape = "attribute" /\ x.enum # 0
    \/ x.shape = "unary" /\ x.op \in UnaryOps /\ Len(x.args) = 1
    \/ x.shape = "binary" /\ x.op \in BinaryOps /\ Len(x.args) = 2
    \/ x.shape = "ternary" /\ Len(x.args) = 3
ShapesInv == \A e \in Expressions : HasShape(exprs[e]) /\ exprs[e].kind \in Kinds

IsComputed(e) ==
    /\ exprs[e].value \in Int /\ exprs[e].value = Stored(Meaning(e))
    /\ exprs[e].shape # "literal" =>
         /\ exprs[e].kind = ResultKind(e) /\ exprs[e].value = Stored(Result(e))
         /\ ~StopsProcess(e)
ComputedInv == \A e \in Evaluated : IsComputed(e)

\* the expression of a value that is not written: zero, or the value before it and one
IsNumber(x, kind, n) == x.shape = "literal" /\ x.evaluated /\ x.kind = kind /\ x.value = n
IsSum(x, kind, v) ==
    /\ x.shape = "binary" /\ x.op = "+" /\ Len(x.args) = 2
    /\ exprs[x.args[1]].shape = "reference" /\ exprs[x.args[1]].ref = v
    /\ IsNumber(exprs[x.args[2]], kind, 1)
IsFilled(v) ==
    /\ constExpr(v) \in Expressions
    /\ IF Previous(v) = NoValue
       THEN IsNumber(exprs[constExpr(v)], types[v[1]].storage, 0)
       ELSE IsSum(exprs[constExpr(v)], types[v[1]].storage, Previous(v))
FilledByRule == \A v \in autofilled : IsFilled(v)

ValueInv == ShapesInv /\ ComputedInv /\ FilledByRule

LEMMA OperandFacts ==
    ASSUME GraphInv, NEW e \in Expressions, NEW i \in 1 .. Len(exprs[e].args)
    PROVE  exprs[e].args[i] \in Expressions /\ exprs[e].args[i] \in Deps(e)
<1> DEFINE args == exprs[e].args
           r == constExpr(exprs[e].ref)
           rest == IF exprs[e].ref = NoValue THEN <<>> ELSE <<r>>
<1>1. args \in Seq(Expressions)
  BY DEF GraphInv, ExprsInv, IsExpression
<1>2. Dependencies(e) = args \o rest
  BY DEF Dependencies
<1>3. PICK D : D = Expressions \cup {r}
  OBVIOUS
<1>4. args \in Seq(D) /\ rest \in Seq(D) /\ i \in 1 .. Len(args)
  <2> HIDE DEF args, r
  <2>1. <<r>> \in Seq(D) /\ <<>> \in Seq(D)
    BY <1>3
  <2>2. rest \in Seq(D)
    BY <2>1
  <2>3. args \in Seq(D)
    BY <1>1, <1>3
  <2> HIDE DEF rest
  <2> QED BY <2>2, <2>3 DEF args
<1> HIDE DEF args, rest
<1>5. i \in DOMAIN (args \o rest) /\ (args \o rest)[i] = args[i] /\ args[i] \in Expressions
  BY <1>1, <1>4
<1> QED BY <1>2, <1>5 DEF Deps, ToSet, args

\* a value that was computed, read as its own kind and as another one
LEMMA MeaningFacts ==
    ASSUME ShapesInv, ComputedInv, NEW e \in Evaluated
    PROVE  /\ exprs[e].kind \in Kinds /\ exprs[e].value \in Int
           /\ Meaning(e) \in Int /\ InRange(exprs[e].kind, Meaning(e))
           /\ exprs[e].value = Stored(Meaning(e))
           /\ exprs[e].value = 0 <=> Meaning(e) = 0
           /\ Cast(exprs[e].kind, exprs[e].value) = Meaning(e)
           /\ \A k \in Kinds :
                /\ k # "BOOL" => Cast(k, exprs[e].value) = Cast(k, Meaning(e))
                /\ InRange(k, Meaning(e)) => Cast(k, exprs[e].value) = Meaning(e)
<1>1. exprs[e].kind \in Kinds
  BY DEF Evaluated, ShapesInv
<1>2. exprs[e].value \in Int /\ exprs[e].value = Stored(Meaning(e))
  BY DEF ComputedInv, IsComputed
<1>3. PICK k, n, v : k = exprs[e].kind /\ n = Meaning(e) /\ v = exprs[e].value
  OBVIOUS
<1>4. n = Cast(k, v) /\ k \in Kinds /\ v \in Int
  BY <1>1, <1>2, <1>3 DEF Meaning
<1>5. n \in Int /\ InRange(k, n)
  BY <1>4, CastFacts
<1>6. v = Stored(n)
  BY <1>2, <1>3
<1>7. v = 0 <=> n = 0
  BY <1>4, <1>5, <1>6, StoredIsZero
<1>8. \A l \in Kinds : (l # "BOOL" => Cast(l, v) = Cast(l, n)) /\ (InRange(l, n) => Cast(l, v) = n)
  BY <1>5, <1>6, CastOfStored
<1> QED BY <1>3, <1>4, <1>5, <1>6, <1>7, <1>8

LEMMA OperatorClasses ==
    /\ \A op \in Arithmetic : op \notin Bitflip /\ op \notin Comparison /\ op \notin Shift /\ op \notin Logical
    /\ \A op \in Bitflip : op \notin Comparison /\ op \notin Shift /\ op \notin Logical
    /\ \A op \in Comparison : op \notin Shift /\ op \notin Logical
    /\ \A op \in Shift : op \notin Logical
    /\ \A op \in Comparison \cup Shift \cup Logical \cup Bitflip : op \notin {"/", "%"}
    /\ \A op \in BinaryOps :
         op \in Arithmetic \/ op \in Bitflip \/ op \in Comparison \/ op \in Shift \/ op \in Logical
  BY DEF Arithmetic, Bitflip, Comparison, Shift, Logical, BinaryOps

\* the kind and result of each shape
LEMMA ResultForms ==
    ASSUME NEW e
    PROVE  LET x == exprs[e]
               k == ResultKind(e)
               n == Result(e)
           IN /\ x.shape = "unary" =>
                   k = Operand(e, 1).kind /\ n = handleUnary(k, x.op, CastOperand(e, 1, k))
              /\ x.shape = "binary" /\ x.op \in Arithmetic \cup Bitflip => k = Promoted(e)
              /\ x.shape = "binary" /\ x.op \in Arithmetic \cup Bitflip \cup Comparison =>
                   n = handleBinaryCommon(Promoted(e), x.op, CastOperand(e, 1, Promoted(e)),
                                          CastOperand(e, 2, Promoted(e)))
              /\ x.shape = "binary" /\ x.op \in Comparison \cup Logical => k = "BOOL"
              /\ x.shape = "binary" /\ x.op \in Logical =>
                   n = handleLogical(x.op, Operand(e, 1).value, Operand(e, 2).value)
              /\ x.shape = "binary" /\ x.op \in Shift =>
                   /\ k = integralPromotion(Operand(e, 1).kind)
                   /\ n = handleShift(k, ShiftOf(e), CastOperand(e, 1, k), Magnitude(numBits(e)))
              /\ x.shape = "ternary" =>
                   /\ k = usualArithmeticConversion(Operand(e, 2).kind, Operand(e, 3).kind)
                   /\ n = CastOperand(e, IF Operand(e, 1).value # 0 THEN 2 ELSE 3, k)
              /\ x.shape = "reference" =>
                   k = exprs[constExpr(x.ref)].kind /\ n = exprs[constExpr(x.ref)].value
              /\ x.shape = "attribute" =>
                   /\ k = IF numValueNames(x.enum) <= Highest("INT32") THEN "INT32" ELSE "INT64"
                   /\ n = numValueNames(x.enum)
  BY OperatorClasses DEF ResultKind, Result

LEMMA PromotedFacts ==
    ASSUME NEW e, Operand(e, 1).kind \in Kinds, Operand(e, 2).kind \in Kinds
    PROVE  /\ Promoted(e) = Common(PromotedTo(Operand(e, 1).kind), PromotedTo(Operand(e, 2).kind))
           /\ Promoted(e) \in Kinds /\ Promoted(e) # "BOOL"
           /\ Width[Operand(e, 1).kind] <= Width[Promoted(e)]
           /\ Width[Operand(e, 2).kind] <= Width[Promoted(e)]
<1>1. PICK k, l, p, q : /\ k = Operand(e, 1).kind /\ l = Operand(e, 2).kind
                        /\ p = PromotedTo(k) /\ q = PromotedTo(l)
  OBVIOUS
<1>2. k \in Kinds /\ l \in Kinds /\ p \in Kinds /\ q \in Kinds /\ p # "BOOL" /\ q # "BOOL"
  BY <1>1, KindFacts
<1>3. integralPromotion(k) = p /\ integralPromotion(l) = q
  BY <1>1, <1>2, PromotionIsDocumented
<1>4. Promoted(e) = Common(p, q)
  BY <1>1, <1>2, <1>3, ConversionIsDocumented DEF Promoted
<1>5. Common(p, q) \in Kinds /\ Common(p, q) # "BOOL"
  BY <1>2, KindFacts
<1>6. /\ Width[k] <= Width[p] /\ Width[l] <= Width[q]
      /\ Width[p] <= Width[Common(p, q)] /\ Width[q] <= Width[Common(p, q)]
  BY <1>1, <1>2, KindFacts
<1>7. \A j \in Kinds : Width[j] \in Nat
  BY WidthFacts
<1>8. Width[k] <= Width[Common(p, q)] /\ Width[l] <= Width[Common(p, q)]
  <2>1. PICK a, b, c, d, f : a = Width[k] /\ b = Width[l] /\ c = Width[p] /\ d = Width[q] /\ f = Width[Common(p, q)]
    OBVIOUS
  <2>2. a \in Nat /\ b \in Nat /\ c \in Nat /\ d \in Nat /\ f \in Nat
    BY <1>2, <1>5, <1>7, <2>1
  <2> QED BY <1>6, <2>1, <2>2
<1> QED BY <1>1, <1>4, <1>5, <1>8

LEMMA NamesAreCounted ==
    ASSUME TypesInv, NEW t \in DOMAIN types
    PROVE  numValueNames(t) \in Nat
<1>1. ClosedUp(DOMAIN types)
  BY TypeFacts DEF ClosedUp, TypesInv
<1>2. ChainValues(t) \in Seq(ValuesOf(DOMAIN types))
  BY <1>1, ChainValuesStay
<1> QED BY <1>2 DEF numValueNames

\* the operands of an expression are evaluated when what it depends on is
LEMMA OperandMeanings ==
    ASSUME GraphInv, ShapesInv, ComputedInv, NEW e \in Expressions, Deps(e) \subseteq Evaluated,
           NEW i \in 1 .. Len(exprs[e].args)
    PROVE  LET d == exprs[e].args[i] IN
             /\ d \in Evaluated /\ Operand(e, i) = exprs[d]
             /\ Operand(e, i).kind \in Kinds /\ Operand(e, i).value \in Int
             /\ \A k \in Kinds : CastOperand(e, i, k) \in Int /\ InRange(k, CastOperand(e, i, k))
             /\ \A k \in Kinds : InRange(k, Meaning(d)) => CastOperand(e, i, k) = Meaning(d)
             /\ \A k \in Kinds : k # "BOOL" => CastOperand(e, i, k) = Cast(k, Meaning(d))
<1>1. PICK d : d = exprs[e].args[i]
  OBVIOUS
<1>2. d \in Evaluated /\ Operand(e, i) = exprs[d]
  BY <1>1, OperandFacts DEF Operand
<1>3. \A k : CastOperand(e, i, k) = Cast(k, exprs[d].value)
  BY <1>2 DEF CastOperand
<1> QED BY <1>1, <1>2, <1>3, MeaningFacts, CastFacts

LEMMA BitsFacts ==
    ASSUME NEW e, Operand(e, 2).kind \in Kinds,
           CastOperand(e, 2, Operand(e, 2).kind) \in Int
    PROVE  /\ numBits(e) \in Int /\ Magnitude(numBits(e)) \in Nat
           /\ exprs[e].op \in Shift => ShiftOf(e) \in Shift
           /\ InRange("INT64", CastOperand(e, 2, Operand(e, 2).kind)) =>
                numBits(e) = CastOperand(e, 2, Operand(e, 2).kind)
<1>1. "INT64" \in Kinds
  BY DEF Kinds, SignedKinds
<1>2. numBits(e) \in Int
  BY <1>1, CastFacts DEF numBits
<1>3. Magnitude(numBits(e)) \in Nat
  BY <1>2 DEF Magnitude
<1>4. exprs[e].op \in Shift => ShiftOf(e) \in Shift
  BY DEF ShiftOf, Shift
<1>5. InRange("INT64", CastOperand(e, 2, Operand(e, 2).kind)) =>
        numBits(e) = CastOperand(e, 2, Operand(e, 2).kind)
  BY <1>1, CastInRange DEF numBits
<1> QED BY <1>2, <1>3, <1>4, <1>5

\* the result is a value of its kind, or is stored as if it were one
LEMMA ResultFacts ==
    ASSUME GraphInv, ShapesInv, ComputedInv, NEW e \in Expressions, e \in Resolved,
           Deps(e) \subseteq Evaluated, exprs[e].shape # "literal", ~StopsProcess(e)
    PROVE  /\ ResultKind(e) \in Kinds /\ Result(e) \in Int
           /\ exprs[e].shape \notin {"reference", "attribute"} => InRange(ResultKind(e), Result(e))
           /\ Stored(Result(e)) = Stored(Cast(ResultKind(e), Stored(Result(e))))
<1>1. PICK x, k, n : x = exprs[e] /\ k = ResultKind(e) /\ n = Result(e)
  OBVIOUS
<1>2. HasShape(x) /\ x.shape # "literal"
  BY <1>1 DEF ShapesInv
<1>3. ASSUME k \in Kinds, n \in Int, InRange(k, n)
      PROVE  Stored(n) = Stored(Cast(k, Stored(n)))
  BY <1>3, StoredOfMeaning DEF IsKept
<1>4. CASE x.shape = "unary"
  <2>1. 1 \in 1 .. Len(exprs[e].args) /\ x.op \in UnaryOps
    <3>1. Len(exprs[e].args) = 1 /\ x.op \in UnaryOps
      BY <1>1, <1>2, <1>4 DEF HasShape
    <3> QED BY <3>1
  <2>2. k = Operand(e, 1).kind /\ n = handleUnary(k, x.op, CastOperand(e, 1, k))
    BY <1>1, <1>4, ResultForms
  <2>3. k \in Kinds /\ CastOperand(e, 1, k) \in Int
    BY <2>1, <2>2, OperandMeanings
  <2>4. n \in Int /\ InRange(k, n)
    BY <2>1, <2>2, <2>3, UnaryFacts
  <2> QED BY <1>1, <1>3, <2>3, <2>4
<1>5. CASE x.shape = "binary"
  <2>1. 1 \in 1 .. Len(exprs[e].args) /\ 2 \in 1 .. Len(exprs[e].args) /\ x.op \in BinaryOps
    <3>1. Len(exprs[e].args) = 2 /\ x.op \in BinaryOps
      BY <1>1, <1>2, <1>5 DEF HasShape
    <3> QED BY <3>1
  <2>2. PICK p, l, r : /\ p = Promoted(e) /\ l = CastOperand(e, 1, p) /\ r = CastOperand(e, 2, p)
    OBVIOUS
  <2>3. /\ Operand(e, 1).kind \in Kinds /\ Operand(e, 2).kind \in Kinds
        /\ Operand(e, 1).value \in Int /\ Operand(e, 2).value \in Int
        /\ \A j \in Kinds : CastOperand(e, 1, j) \in Int /\ CastOperand(e, 2, j) \in Int
    BY <2>1, OperandMeanings
  <2>4. p \in Kinds /\ l \in Int /\ r \in Int
    BY <2>2, <2>3, PromotedFacts
  <2>5. ~Traps(p, x.op, l, r)
    BY <1>1, <1>5, <2>2 DEF StopsProcess
  <2>6. CASE x.op \in Arithmetic \cup Bitflip
    <3>1. k = p /\ n = handleBinaryCommon(p, x.op, l, r)
      BY <1>1, <1>5, <2>2, <2>6, ResultForms
    <3>2. n \in Int /\ InRange(k, n)
      BY <2>4, <2>5, <2>6, <3>1, BinaryFacts
    <3> QED BY <1>1, <1>3, <2>4, <3>1, <3>2
  <2>7. CASE x.op \in Comparison
    <3>1. k = "BOOL" /\ n = handleBinaryCommon(p, x.op, l, r)
      BY <1>1, <1>5, <2>2, <2>7, ResultForms
    <3>2. n = Truth(Holds(x.op, l, r)) /\ k \in Kinds
      <4>1. x.op \in Arithmetic \cup Bitflip \cup Comparison
        BY <2>7
      <4>2. handleBinaryCommon(p, x.op, l, r) = Truth(Holds(x.op, l, r))
        BY <2>4, <2>5, <2>7, <4>1, BinaryFacts
      <4> QED BY <3>1, <4>2 DEF Kinds
    <3>3. n \in Int /\ InRange(k, n)
      BY <3>2, TruthFacts
    <3> QED BY <1>1, <1>3, <3>2, <3>3
  <2>8. CASE x.op \in Logical
    <3>1. k = "BOOL" /\ n = handleLogical(x.op, Operand(e, 1).value, Operand(e, 2).value)
      BY <1>1, <1>5, <2>8, ResultForms
    <3>2. k \in Kinds /\ \E b : n = Truth(b)
      BY <3>1 DEF Kinds, handleLogical
    <3>3. n \in Int /\ InRange(k, n)
      BY <3>2, TruthFacts
    <3> QED BY <1>1, <1>3, <3>2, <3>3
  <2>9. CASE x.op \in Shift
    <3>1. /\ k = integralPromotion(Operand(e, 1).kind)
          /\ n = handleShift(k, ShiftOf(e), CastOperand(e, 1, k), Magnitude(numBits(e)))
      BY <1>1, <1>5, <2>9, ResultForms
    <3>2. k \in Kinds
      BY <2>3, <3>1, PromotionIsDocumented, KindFacts
    <3>3. Magnitude(numBits(e)) \in Nat /\ ShiftOf(e) \in Shift
      BY <1>1, <2>3, <2>9, BitsFacts
    <3>4. n \in Int /\ InRange(k, n)
      <4>1. CastOperand(e, 1, k) \in Int
        BY <2>3, <3>2
      <4> QED BY <3>1, <3>2, <3>3, <4>1, ShiftFacts
    <3> QED BY <1>1, <1>3, <3>2, <3>4
  <2> QED BY <2>1, <2>6, <2>7, <2>8, <2>9, OperatorClasses
<1>6. CASE x.shape = "ternary"
  <2>1. 2 \in 1 .. Len(exprs[e].args) /\ 3 \in 1 .. Len(exprs[e].args)
    <3>1. Len(exprs[e].args) = 3
      BY <1>1, <1>2, <1>6 DEF HasShape
    <3> QED BY <3>1
  <2>2. /\ k = usualArithmeticConversion(Operand(e, 2).kind, Operand(e, 3).kind)
        /\ n = CastOperand(e, IF Operand(e, 1).value # 0 THEN 2 ELSE 3, k)
    BY <1>1, <1>6, ResultForms
  <2>3. Operand(e, 2).kind \in Kinds /\ Operand(e, 3).kind \in Kinds
    BY <2>1, OperandMeanings
  <2>4. k \in Kinds
    BY <2>2, <2>3, ConversionIsDocumented, KindFacts
  <2>5. \A i \in {2, 3} : CastOperand(e, i, k) \in Int /\ InRange(k, CastOperand(e, i, k))
    <3>1. ASSUME NEW i \in {2, 3} PROVE CastOperand(e, i, k) \in Int /\ InRange(k, CastOperand(e, i, k))
      BY <2>1, <2>4, OperandMeanings
    <3> QED BY <3>1
  <2>6. n \in Int /\ InRange(k, n)
    BY <2>2, <2>5
  <2> QED BY <1>1, <1>3, <2>4, <2>6
<1>7. CASE x.shape = "reference"
  <2>1. x.ref # NoValue
    BY <1>1, <1>7 DEF Resolved, IsUnresolved
  <2>2. PICK d : d = constExpr(x.ref)
    OBVIOUS
  <2>3. d \in Evaluated
    BY <1>1, <2>1, <2>2, ReferenceIsDependency
  <2>4. k = exprs[d].kind /\ n = exprs[d].value
    BY <1>1, <1>7, <2>2, ResultForms
  <2>5. /\ k \in Kinds /\ n \in Int /\ n = Stored(Meaning(d)) /\ Meaning(d) \in Int
        /\ Meaning(d) = Cast(k, n)
    BY <2>3, <2>4, MeaningFacts
  <2>6. Stored(n) = n
    BY <2>5, StoredTwice
  <2> QED BY <1>1, <1>7, <2>5, <2>6
<1>8. CASE x.shape = "attribute"
  <2>1. x.enum \in DOMAIN types
    BY <1>1, <1>2, <1>8 DEF HasShape, GraphInv, ExprsInv, IsExpression
  <2>2. /\ k = IF numValueNames(x.enum) <= Highest("INT32") THEN "INT32" ELSE "INT64"
        /\ n = numValueNames(x.enum)
    BY <1>1, <1>8, ResultForms
  <2>3. n \in Nat
    BY <2>1, <2>2, NamesAreCounted DEF GraphInv
  <2>4. k \in Kinds /\ (k = "INT32" \/ k = "INT64")
    BY <2>2 DEF Kinds, SignedKinds
  <2>5. k = "INT32" => InRange(k, n)
    BY <2>2, <2>3, <2>4, RangeFacts DEF InRange
  <2>6. IsKept(k, n)
    BY <2>3, <2>4, <2>5, WidthAssumption DEF IsKept
  <2>7. Stored(n) = Stored(Cast(k, Stored(n)))
    BY <2>4, <2>6, StoredOfMeaning
  <2> QED BY <1>1, <1>8, <2>3, <2>4, <2>7
<1> QED BY <1>2, <1>4, <1>5, <1>6, <1>7, <1>8 DEF HasShape

\* so that what is stored of a result means the result
LEMMA MeaningIsResult ==
    ASSUME GraphInv, EvaluatedInv, ShapesInv, ComputedInv, NEW e \in Evaluated,
           exprs[e].shape \notin {"literal", "reference", "attribute"}
    PROVE  /\ Deps(e) \subseteq Evaluated /\ e \in Expressions /\ e \in Resolved
           /\ exprs[e].kind = ResultKind(e) /\ Meaning(e) = Result(e) /\ Result(e) \in Int
           /\ ~StopsProcess(e)
<1>1. /\ Deps(e) \subseteq Evaluated /\ e \in Expressions /\ e \in Resolved
      /\ exprs[e].kind = ResultKind(e) /\ exprs[e].value = Stored(Result(e)) /\ ~StopsProcess(e)
  BY DEF EvaluatedInv, ComputedInv, IsComputed, Evaluated
<1>2. ResultKind(e) \in Kinds /\ Result(e) \in Int /\ InRange(ResultKind(e), Result(e))
  BY <1>1, ResultFacts
<1>3. Cast(ResultKind(e), Stored(Result(e))) = Result(e)
  BY <1>2, CastOfStored
<1> QED BY <1>1, <1>2, <1>3 DEF Meaning

LEMMA BinaryIsDocumented ==
    ASSUME GraphInv, EvaluatedInv, ShapesInv, ComputedInv, NEW e \in Evaluated,
           exprs[e].shape = "binary"
    PROVE  DocumentedBinary(e, Meaning(exprs[e].args[1]), Meaning(exprs[e].args[2]),
                            Common(PromotedTo(Operand(e, 1).kind), PromotedTo(Operand(e, 2).kind)))
<1>1. /\ Deps(e) \subseteq Evaluated /\ e \in Expressions /\ ~StopsProcess(e)
      /\ exprs[e].kind = ResultKind(e) /\ Meaning(e) = Result(e)
  BY MeaningIsResult
<1>2. 1 \in 1 .. Len(exprs[e].args) /\ 2 \in 1 .. Len(exprs[e].args) /\ exprs[e].op \in BinaryOps
  <2>1. Len(exprs[e].args) = 2 /\ exprs[e].op \in BinaryOps
    BY <1>1 DEF ShapesInv, HasShape
  <2> QED BY <2>1
<1>3. PICK a, b, op, k, n, ka, kb, l, r, p :
        /\ a = exprs[e].args[1] /\ b = exprs[e].args[2] /\ op = exprs[e].op
        /\ k = exprs[e].kind /\ n = Meaning(e)
        /\ ka = Operand(e, 1).kind /\ kb = Operand(e, 2).kind
        /\ l = Meaning(a) /\ r = Meaning(b) /\ p = Promoted(e)
  OBVIOUS
<1>4. a \in Evaluated /\ b \in Evaluated /\ Operand(e, 1) = exprs[a] /\ Operand(e, 2) = exprs[b]
  BY <1>1, <1>2, <1>3, OperandMeanings
<1>5. /\ ka \in Kinds /\ kb \in Kinds /\ l \in Int /\ r \in Int
      /\ InRange(ka, l) /\ InRange(kb, r)
      /\ Operand(e, 1).value = 0 <=> l = 0
      /\ Operand(e, 2).value = 0 <=> r = 0
  BY <1>3, <1>4, MeaningFacts
<1>6. p \in Kinds /\ p = Common(PromotedTo(ka), PromotedTo(kb))
  BY <1>3, <1>5, PromotedFacts
<1>7. /\ \A j \in Kinds : InRange(j, l) => CastOperand(e, 1, j) = l
      /\ \A j \in Kinds : InRange(j, r) => CastOperand(e, 2, j) = r
      /\ \A j \in Kinds : CastOperand(e, 1, j) \in Int /\ CastOperand(e, 2, j) \in Int
  BY <1>1, <1>2, <1>3, OperandMeanings
<1> DEFINE x == CastOperand(e, 1, p)
           y == CastOperand(e, 2, p)
<1>8. ~Traps(p, op, x, y) /\ x \in Int /\ y \in Int
  BY <1>1, <1>3, <1>6, <1>7 DEF StopsProcess
<1>9. InRange(p, l) /\ InRange(p, r) => x = l /\ y = r
  BY <1>6, <1>7
<1> HIDE DEF x, y
<1>10. k = ResultKind(e) /\ n = Result(e)
  BY <1>1, <1>3
<1> SUFFICES DocumentedBinary(e, l, r, p)
  BY <1>3, <1>6
<1>11. CASE op \in Arithmetic
  <2>1. k = p /\ n = handleBinaryCommon(p, op, x, y)
    BY <1>3, <1>10, <1>11, ResultForms DEF x, y
  <2>2. Exact(op, x, y) \in Int /\ n = Cast(p, Exact(op, x, y))
    <3>1. op \in Arithmetic \cup Bitflip \cup Comparison
      BY <1>11
    <3> QED BY <1>6, <1>8, <1>11, <2>1, <3>1, BinaryFacts
  <2>3. ASSUME InRange(p, l), InRange(p, r), InRange(p, Exact(op, l, r))
        PROVE  n = Exact(op, l, r)
    BY <1>6, <1>9, <2>2, <2>3, CastInRange
  <2>9. op # "<<" /\ op # ">>"
    BY <1>11, OperatorClasses DEF Shift
  <2> QED BY <1>3, <1>11, <2>1, <2>3, <2>9, OperatorClasses DEF DocumentedBinary
<1>12. CASE op \in Bitflip
  <2>1. k = p
    BY <1>3, <1>10, <1>12, ResultForms
  <2>9. op # "<<" /\ op # ">>"
    BY <1>12, OperatorClasses DEF Shift
  <2> QED BY <1>3, <1>12, <2>1, <2>9, OperatorClasses DEF DocumentedBinary
<1>13. CASE op \in Comparison
  <2>1. k = "BOOL" /\ n = handleBinaryCommon(p, op, x, y)
    BY <1>3, <1>10, <1>13, ResultForms DEF x, y
  <2>2. n = Exact(op, x, y)
    <3>1. op \in Arithmetic \cup Bitflip \cup Comparison
      BY <1>13
    <3> QED BY <1>6, <1>8, <1>13, <2>1, <3>1, BinaryFacts
  <2>9. op # "<<" /\ op # ">>"
    BY <1>13, OperatorClasses DEF Shift
  <2> QED BY <1>3, <1>9, <1>13, <2>1, <2>2, <2>9, OperatorClasses DEF DocumentedBinary
<1>14. CASE op \in Logical
  <2>1. k = "BOOL" /\ n = handleLogical(op, Operand(e, 1).value, Operand(e, 2).value)
    BY <1>3, <1>10, <1>14, ResultForms
  <2>2. n = Exact(op, l, r)
    <3>1. CASE op = "||"
      <4>1. n = Truth(l # 0 \/ r # 0)
        BY <1>5, <2>1, <3>1 DEF handleLogical, Truth
      <4> QED BY <3>1, <4>1 DEF Exact, Comparison
    <3>2. CASE op = "&&"
      <4>1. n = Truth(l # 0 /\ r # 0)
        BY <1>5, <2>1, <3>2 DEF handleLogical, Truth
      <4> QED BY <3>2, <4>1 DEF Exact, Comparison
    <3> QED BY <1>14, <3>1, <3>2 DEF Logical
  <2>9. op # "<<" /\ op # ">>"
    BY <1>14, OperatorClasses DEF Shift
  <2> QED BY <1>3, <1>14, <2>1, <2>2, <2>9, OperatorClasses DEF DocumentedBinary
<1>15. CASE op \in Shift
  <2>1. /\ k = integralPromotion(ka)
        /\ n = handleShift(k, ShiftOf(e), CastOperand(e, 1, k), Magnitude(numBits(e)))
    BY <1>3, <1>10, <1>15, ResultForms
  <2>2. k = PromotedTo(ka) /\ k \in Kinds
    BY <1>5, <2>1, PromotionIsDocumented, KindFacts
  <2>3. InRange(k, l) /\ CastOperand(e, 1, k) = l
    BY <1>5, <1>7, <2>2, RangeOfPromoted
  <2>4. ASSUME l >= 0, r \in 0 .. Width[k] - 1
        PROVE  /\ op = "<<" /\ InRange(k, l * PowerOfTwo[r]) => n = l * PowerOfTwo[r]
               /\ op = ">>" => n = l \div PowerOfTwo[r]
    <3>1. Width[k] \in Nat
      BY <2>2, WidthFacts
    <3>2. r \in Nat /\ r < Width[k] /\ l \in Nat /\ r >= 0
      BY <1>5, <2>4, <3>1
    <3>3. InRange("INT64", r)
      BY <2>2, <3>2, BitsInRange
    <3>4. CastOperand(e, 2, kb) = r
      BY <1>5, <1>7
    <3>5. numBits(e) = r
      BY <1>3, <1>5, <3>3, <3>4, BitsFacts
    <3>6. ShiftOf(e) = op /\ Magnitude(numBits(e)) = r
      BY <1>3, <3>2, <3>5 DEF ShiftOf, Magnitude
    <3>7. n = handleShift(k, op, l, r)
      BY <2>1, <2>3, <3>6
    <3>8. /\ op = "<<" => n = Cast(k, l * PowerOfTwo[r])
          /\ op = ">>" => n = Cast(k, l \div PowerOfTwo[r])
          /\ l * PowerOfTwo[r] \in Int /\ l \div PowerOfTwo[r] \in Int
      BY <1>5, <1>15, <2>2, <3>2, <3>7, ShiftFacts
    <3>9. InRange(k, l \div PowerOfTwo[r])
      BY <2>2, <2>3, <3>2, RightShiftInRange
    <3> QED BY <2>2, <3>8, <3>9, CastInRange
  <2>5. op = "<<" \/ op = ">>"
    BY <1>15 DEF Shift
  <2>6. CASE op = "<<"
    BY <1>3, <1>15, <2>2, <2>4, <2>6, OperatorClasses DEF DocumentedBinary
  <2>7. CASE op = ">>"
    BY <1>3, <1>15, <2>2, <2>4, <2>7, OperatorClasses DEF DocumentedBinary
  <2> QED BY <2>5, <2>6, <2>7
<1> QED BY <1>2, <1>3, <1>11, <1>12, <1>13, <1>14, <1>15, OperatorClasses

LEMMA ExpressionIsDocumented ==
    ASSUME GraphInv, EvaluatedInv, ShapesInv, ComputedInv, NEW e \in Evaluated
    PROVE  Documented(e)
<1>1. HasShape(exprs[e])
  BY DEF ShapesInv, Evaluated
<1>2. CASE exprs[e].shape \in {"literal", "attribute", "reference"}
  BY <1>2 DEF Documented
<1>3. CASE exprs[e].shape = "binary"
  BY <1>3, BinaryIsDocumented DEF Documented
<1>4. CASE exprs[e].shape \in {"unary", "ternary"}
  <2>1. /\ Deps(e) \subseteq Evaluated /\ e \in Expressions
        /\ exprs[e].kind = ResultKind(e) /\ Meaning(e) = Result(e)
    BY <1>4, MeaningIsResult
  <2>2. CASE exprs[e].shape = "unary"
    <3>1. 1 \in 1 .. Len(exprs[e].args) /\ exprs[e].op \in UnaryOps
      <4>1. Len(exprs[e].args) = 1 /\ exprs[e].op \in UnaryOps
        BY <1>1, <2>2 DEF HasShape
      <4> QED BY <4>1
    <3>2. PICK a, op, k, n, m : /\ a = exprs[e].args[1] /\ op = exprs[e].op
                                /\ k = exprs[e].kind /\ n = Meaning(a) /\ m = Meaning(e)
      OBVIOUS
    <3>3. k = Operand(e, 1).kind /\ m = handleUnary(k, op, CastOperand(e, 1, k))
      BY <2>1, <2>2, <3>2, ResultForms
    <3>4. a \in Evaluated /\ Operand(e, 1) = exprs[a] /\ k \in Kinds
      BY <2>1, <3>1, <3>2, <3>3, OperandMeanings
    <3>5. n \in Int /\ InRange(k, n)
      BY <3>2, <3>3, <3>4, MeaningFacts
    <3>6. CastOperand(e, 1, k) = n
      BY <2>1, <3>1, <3>2, <3>4, <3>5, OperandMeanings
    <3>7. op = "-" => m = Cast(k, -n)
      BY <3>1, <3>2, <3>3, <3>4, <3>5, <3>6, UnaryFacts
    <3>8. op = "!" => m = Truth(n = 0)
      BY <3>1, <3>2, <3>3, <3>4, <3>5, <3>6, UnaryFacts
    <3>9. -n \in Int
      BY <3>5
    <3>10. op = "-" /\ InRange(k, -n) => m = -n
      BY <3>4, <3>7, <3>9, CastInRange
    <3> QED BY <2>2, <3>2, <3>3, <3>8, <3>10 DEF Documented
  <2>3. CASE exprs[e].shape = "ternary"
    <3>1. /\ 1 \in 1 .. Len(exprs[e].args) /\ 2 \in 1 .. Len(exprs[e].args)
          /\ 3 \in 1 .. Len(exprs[e].args)
      <4>1. Len(exprs[e].args) = 3
        BY <1>1, <2>3 DEF HasShape
      <4> QED BY <4>1
    <3>2. PICK a, b, c, k, m, i : /\ a = exprs[e].args[1] /\ b = exprs[e].args[2] /\ c = exprs[e].args[3]
                                  /\ k = exprs[e].kind /\ m = Meaning(e)
                                  /\ i = IF Operand(e, 1).value # 0 THEN 2 ELSE 3
      OBVIOUS
    <3>3. /\ k = usualArithmeticConversion(Operand(e, 2).kind, Operand(e, 3).kind)
          /\ m = CastOperand(e, i, k)
      BY <2>1, <2>3, <3>2, ResultForms
    <3>4. a \in Evaluated /\ Operand(e, 1) = exprs[a]
      BY <2>1, <3>1, <3>2, OperandMeanings
    <3>5. /\ Operand(e, 2).kind \in Kinds /\ Operand(e, 3).kind \in Kinds
          /\ \A j \in Kinds : InRange(j, Meaning(b)) => CastOperand(e, 2, j) = Meaning(b)
          /\ \A j \in Kinds : InRange(j, Meaning(c)) => CastOperand(e, 3, j) = Meaning(c)
      BY <2>1, <3>1, <3>2, OperandMeanings
    <3>6. k = Common(Operand(e, 2).kind, Operand(e, 3).kind) /\ k \in Kinds
      BY <3>3, <3>5, ConversionIsDocumented, KindFacts
    <3>7. i = IF Meaning(a) # 0 THEN 2 ELSE 3
      BY <3>2, <3>4, MeaningFacts
    <3>8. LET chosen == IF Meaning(a) # 0 THEN Meaning(b) ELSE Meaning(c)
          IN InRange(k, chosen) => m = chosen
      BY <3>3, <3>5, <3>6, <3>7
    <3> QED BY <2>3, <3>2, <3>6, <3>8 DEF Documented
  <2> QED BY <1>4, <2>2, <2>3
<1> QED BY <1>1, <1>2, <1>3, <1>4 DEF HasShape

-----------------------------------------------------------------------------
\* an enum is stored as those are that it extends
LEMMA SameStorage ==
    ASSUME TypesInv, NEW v \in AllValues, Previous(v) # NoValue
    PROVE  /\ Previous(v) \in AllValues
           /\ types[Previous(v)[1]].storage = types[v[1]].storage
<1>1. PICK T : T = {t \in DOMAIN types : types[t].storage = types[v[1]].storage}
  OBVIOUS
<1>2. ClosedUp(T)
  <2>1. ASSUME NEW t \in T, types[t].super # 0 PROVE types[t].super \in T
    <3>1. types[t].super \in DOMAIN types
      BY <1>1, <2>1, TypeFacts DEF TypesInv
    <3>2. types[types[t].super].storage = types[t].storage
      BY <1>1, <2>1 DEF TypesInv, AreTypes
    <3> QED BY <1>1, <3>1, <3>2
  <2> QED BY <1>1, <2>1 DEF ClosedUp
<1>3. v \in ValuesOf(T)
  BY <1>1, ValueFacts DEF ValuesOf
<1>4. Previous(v) \in ValuesOf(T)
  BY <1>2, <1>3, PreviousStays
<1> QED BY <1>1, <1>4 DEF ValuesOf

LEMMA FilledIsSuccessor ==
    ASSUME GraphInv, EvaluatedInv, ShapesInv, ComputedInv, NEW v \in AllValues, IsFilled(v),
           constExpr(v) \in Evaluated, types[v[1]].storage # "BOOL"
    PROVE  Emitted(v) = IF Previous(v) = NoValue THEN 0
                        ELSE Cast(types[v[1]].storage, Emitted(Previous(v)) + 1)
<1>1. PICK e, s : e = constExpr(v) /\ s = types[v[1]].storage
  OBVIOUS
<1>2. s \in Kinds /\ s # "BOOL"
  <2>1. v[1] \in DOMAIN types
    BY ValueFacts DEF GraphInv
  <2>2. types \in Seq(TypeType(Len(types)))
    BY DEF GraphInv, TypesInv, AreTypes
  <2>3. types[v[1]] \in TypeType(Len(types))
    <3> DEFINE D == TypeType(Len(types))
    <3> HIDE DEF D
    <3> QED BY <2>1, <2>2 DEF D
  <2> QED BY <1>1, <2>3 DEF TypeType
<1>3. Emitted(v) = Cast(s, Meaning(e))
  BY <1>1 DEF Emitted
<1>4. InRange(s, 0) /\ InRange(s, 1)
  BY <1>2, RangeFacts DEF InRange
<1>5. CASE Previous(v) = NoValue
  <2>1. exprs[e].kind = s /\ exprs[e].value = 0
    BY <1>1, <1>5 DEF IsFilled, IsNumber
  <2>2. Meaning(e) = Cast(s, 0)
    BY <2>1 DEF Meaning
  <2>3. Cast(s, 0) = 0
    BY <1>2, <1>4, CastInRange
  <2> QED BY <1>3, <1>5, <2>2, <2>3
<1>6. CASE Previous(v) # NoValue
  <2>1. IsSum(exprs[e], s, Previous(v))
    BY <1>1, <1>6 DEF IsFilled
  <2>2. PICK a, b, d : a = exprs[e].args[1] /\ b = exprs[e].args[2] /\ d = constExpr(Previous(v))
    OBVIOUS
  <2>3. /\ exprs[e].shape = "binary" /\ exprs[e].op = "+" /\ Len(exprs[e].args) = 2
        /\ exprs[a].shape = "reference" /\ exprs[a].ref = Previous(v)
        /\ exprs[b].kind = s /\ exprs[b].value = 1
    BY <2>1, <2>2 DEF IsSum, IsNumber
  <2>4. 1 \in 1 .. Len(exprs[e].args) /\ 2 \in 1 .. Len(exprs[e].args)
    BY <2>3
  <2>5. /\ Deps(e) \subseteq Evaluated /\ e \in Expressions /\ ~StopsProcess(e)
        /\ exprs[e].kind = ResultKind(e) /\ Meaning(e) = Result(e)
    BY <1>1, <2>3, MeaningIsResult
  <2>6. /\ a \in Evaluated /\ b \in Evaluated /\ Operand(e, 1) = exprs[a] /\ Operand(e, 2) = exprs[b]
    BY <2>2, <2>4, <2>5, OperandMeanings
  <2>7. a \in Expressions /\ Deps(a) \subseteq Evaluated /\ d \in Deps(a) /\ d \in Evaluated
    BY <1>6, <2>2, <2>3, <2>6, ReferenceIsDependency DEF EvaluatedInv, Evaluated
  <2>8. Meaning(a) = Meaning(d) /\ Meaning(d) \in Int
    <3>1. exprs[a].kind = exprs[d].kind /\ exprs[a].value = Stored(exprs[d].value)
      <4>1. exprs[a].kind = ResultKind(a) /\ exprs[a].value = Stored(Result(a))
        BY <2>3, <2>6 DEF ComputedInv, IsComputed
      <4> QED BY <2>2, <2>3, <4>1, ResultForms
    <3>2. exprs[d].value = Stored(Meaning(d)) /\ Meaning(d) \in Int
      BY <2>7, MeaningFacts
    <3>3. exprs[a].value = exprs[d].value
      BY <3>1, <3>2, StoredTwice
    <3> QED BY <3>1, <3>2, <3>3 DEF Meaning
  <2>9. PICK n, p, x, y : n = Meaning(d) /\ p = Promoted(e) /\ x = CastOperand(e, 1, p) /\ y = CastOperand(e, 2, p)
    OBVIOUS
  <2>10. Operand(e, 1).kind \in Kinds /\ Operand(e, 2).kind = s
    BY <2>3, <2>4, <2>5, <2>6, OperandMeanings
  <2>11. p \in Kinds /\ p # "BOOL" /\ Width[s] <= Width[p]
    BY <1>2, <2>9, <2>10, PromotedFacts
  <2>12. x \in Int /\ x = Cast(p, n) /\ n \in Int
    BY <2>2, <2>4, <2>5, <2>8, <2>9, <2>11, OperandMeanings
  <2>13. y = 1
    <3>1. InRange(p, 1)
      BY <2>11, RangeFacts DEF InRange
    <3>2. y = Cast(p, 1)
      BY <2>3, <2>6, <2>9 DEF CastOperand
    <3> QED BY <2>11, <3>1, <3>2, CastInRange
  <2>14. Meaning(e) = Cast(p, x + 1)
    <3>1. Meaning(e) = handleBinaryCommon(p, "+", x, y)
      BY <2>3, <2>5, <2>9, ResultForms DEF Arithmetic
    <3> QED BY <2>13, <3>1 DEF handleBinaryCommon, Comparison
  <2>15. PICK q \in Int : x = n + Modulus(p) * q
    BY <2>11, <2>12, CastFacts
  <2>16. Cast(s, Meaning(e)) = Cast(s, n + 1)
    <3>1. x + 1 \in Int /\ n + 1 \in Int
      BY <2>12
    <3>2. Cast(s, Cast(p, x + 1)) = Cast(s, x + 1)
      BY <1>2, <2>11, <3>1, CastTwice
    <3>3. x + 1 = (n + 1) + Modulus(p) * q
      BY <2>11, <2>12, <2>15, RangeFacts
    <3>4. Cast(s, x + 1) = Cast(s, n + 1)
      BY <1>2, <2>11, <3>1, <3>3, CastOfWider
    <3> QED BY <2>14, <3>2, <3>4
  <2>17. Emitted(Previous(v)) = Cast(s, n)
    BY <1>1, <1>6, <2>2, <2>9, SameStorage DEF Emitted, GraphInv
  <2>18. Cast(s, Cast(s, n) + 1) = Cast(s, n + 1)
    <3>1. PICK m : m = Cast(s, n)
      OBVIOUS
    <3>2. m \in Int
      BY <1>2, <2>12, <3>1, CastFacts
    <3>3. PICK t \in Int : m = n + Modulus(s) * t
      BY <1>2, <2>12, <3>1, CastFacts
    <3>4. m + 1 \in Int /\ n + 1 \in Int /\ m + 1 = (n + 1) + Modulus(s) * t
      BY <1>2, <2>12, <3>2, <3>3, RangeFacts
    <3>5. Cast(s, m + 1) = Cast(s, n + 1)
      BY <1>2, <3>4, CastOfCongruent
    <3> QED BY <3>1, <3>5
  <2> QED BY <1>1, <1>3, <1>6, <2>16, <2>17, <2>18
<1> QED BY <1>5, <1>6

-----------------------------------------------------------------------------
(* What a step leaves of the values.                                       *)

LEMMA SamePrevious ==
    ASSUME TypesInv, TypesInv', types' = types, AllValues' = AllValues, NEW v \in AllValues
    PROVE  Previous(v)' = Previous(v)
<1>1. PICK t : t = v[1]
  OBVIOUS
<1>2. t \in DOMAIN types
  BY <1>1, ValueFacts
<1>3. PICK chain : chain = typeChain(t)
  OBVIOUS
<1>4. typeChain(t)' = chain /\ chain \in Seq(DOMAIN types) /\ chain # <<>>
  BY <1>2, <1>3, SameChains
<1>5. \A u \in DOMAIN types : Len(values'[u]) = Len(values[u]) /\ (values'[u] = <<>> <=> values[u] = <<>>)
  BY <1>2, SameChains
<1>6. PICK above : above = Tail(chain)
  OBVIOUS
<1>7. superTypeChain(t) = above /\ superTypeChain(t)' = above
  BY <1>3, <1>4, <1>6 DEF superTypeChain
<1>8. above \in Seq(DOMAIN types)
  BY <1>4, <1>6
<1>9. Len(above) \in Nat /\ DOMAIN above = 1 .. Len(above) /\ \A i \in 1 .. Len(above) : above[i] \in DOMAIN types
  BY <1>8
<1> DEFINE I == {i \in 1 .. Len(above) : values[above[i]] # <<>>}
           J == {i \in 1 .. Len(above) : values'[above[i]] # <<>>}
           place == IF I # {} THEN Min(I) ELSE 0
<1>10. I = J
  BY <1>5, <1>9
<1>11. /\ Previous(v) = IF v[2] > 1 THEN <<t, v[2] - 1>>
                        ELSE IF place = 0 THEN NoValue
                        ELSE <<above[place], Len(values[above[place]])>>
  BY <1>1, <1>7 DEF Previous, SelectInSeq
<1> DEFINE there == IF J # {} THEN Min(J) ELSE 0
<1>12. /\ Previous(v)' = IF v[2] > 1 THEN <<t, v[2] - 1>>
                         ELSE IF there = 0 THEN NoValue
                         ELSE <<above[there], Len(values'[above[there]])>>
  BY <1>1, <1>7 DEF Previous, SelectInSeq
<1>13. place = there /\ (place # 0 => place \in 1 .. Len(above))
  <2>1. I # {} => Min(I) \in I
    <3>1. I \in SUBSET Nat
      OBVIOUS
    <3> HIDE DEF I
    <3> QED BY <3>1, MinIsIn
  <2> QED BY <1>10, <2>1
<1> HIDE DEF place, there
<1>14. place # 0 => Len(values'[above[place]]) = Len(values[above[place]])
  BY <1>5, <1>9, <1>13
<1> QED BY <1>11, <1>12, <1>13, <1>14

\* what was evaluated, and what it was evaluated from, is left alone
KeepsValues ==
    /\ types' = types /\ AllValues' = AllValues /\ TypesInv'
    /\ Expressions \subseteq Expressions'
    /\ \A e \in Expressions :
         /\ exprs'[e].shape = exprs[e].shape /\ exprs'[e].op = exprs[e].op
         /\ exprs'[e].args = exprs[e].args /\ exprs'[e].enum = exprs[e].enum
         /\ e \in Resolved => exprs'[e].ref = exprs[e].ref
         /\ e \in Evaluated =>
              /\ exprs'[e].evaluated
              /\ exprs'[e].kind = exprs[e].kind /\ exprs'[e].value = exprs[e].value
    /\ \A v \in AllValues : constExpr(v) \in Expressions => constExpr(v)' = constExpr(v)

LEMMA ResultStays ==
    ASSUME GraphInv, ShapesInv, KeepsValues, NEW e \in Expressions, e \in Resolved,
           Deps(e) \subseteq Evaluated, exprs[e].shape # "literal"
    PROVE  /\ ResultKind(e)' = ResultKind(e) /\ Result(e)' = Result(e)
           /\ StopsProcess(e)' = StopsProcess(e)
<1>1. /\ exprs'[e].shape = exprs[e].shape /\ exprs'[e].op = exprs[e].op
      /\ exprs'[e].args = exprs[e].args /\ exprs'[e].enum = exprs[e].enum
      /\ exprs'[e].ref = exprs[e].ref
  BY DEF KeepsValues
<1>2. HasShape(exprs[e])
  BY DEF ShapesInv
<1>3. ASSUME NEW i \in 1 .. Len(exprs[e].args)
      PROVE  /\ Operand(e, i)'.kind = Operand(e, i).kind /\ Operand(e, i)'.value = Operand(e, i).value
             /\ \A k : CastOperand(e, i, k)' = CastOperand(e, i, k)
  <2>1. PICK d : d = exprs[e].args[i]
    OBVIOUS
  <2>2. d \in Evaluated /\ d \in Expressions
    BY <2>1, OperandFacts
  <2>3. Operand(e, i) = exprs[d] /\ Operand(e, i)' = exprs'[d]
    BY <1>1, <2>1 DEF Operand
  <2>4. exprs'[d].kind = exprs[d].kind /\ exprs'[d].value = exprs[d].value
    BY <2>2 DEF KeepsValues
  <2> QED BY <2>3, <2>4 DEF CastOperand
<1>4. CASE exprs[e].shape = "unary"
  <2>1. 1 \in 1 .. Len(exprs[e].args)
    <3>1. Len(exprs[e].args) = 1
      BY <1>2, <1>4 DEF HasShape
    <3> QED BY <3>1
  <2>2. ResultKind(e)' = ResultKind(e)
    BY <1>1, <1>3, <1>4, <2>1 DEF ResultKind
  <2>3. Result(e)' = Result(e)
    BY <1>1, <1>3, <1>4, <2>1, <2>2 DEF Result
  <2> QED BY <1>1, <1>4, <2>2, <2>3 DEF StopsProcess
<1>5. CASE exprs[e].shape = "binary"
  <2>1. 1 \in 1 .. Len(exprs[e].args) /\ 2 \in 1 .. Len(exprs[e].args)
    <3>1. Len(exprs[e].args) = 2
      BY <1>2, <1>5 DEF HasShape
    <3> QED BY <3>1
  <2>2. Promoted(e)' = Promoted(e)
    BY <1>3, <2>1 DEF Promoted
  <2>3. PICK op : op = exprs[e].op /\ op \in BinaryOps
    BY <1>2, <1>5 DEF HasShape
  <2>4. numBits(e)' = numBits(e) /\ ShiftOf(e)' = ShiftOf(e)
    BY <1>1, <1>3, <2>1 DEF numBits, ShiftOf
  <2>5. ResultKind(e)' = ResultKind(e) /\ Result(e)' = Result(e)
    <3>1. CASE op \in Arithmetic \cup Bitflip
      <4>1. ResultKind(e)' = ResultKind(e)
        BY <1>1, <1>5, <2>2, <2>3, <3>1, OperatorClasses DEF ResultKind
      <4> QED BY <1>1, <1>3, <1>5, <2>1, <2>2, <2>3, <3>1, <4>1, OperatorClasses DEF Result
    <3>2. CASE op \in Comparison
      <4>1. ResultKind(e)' = ResultKind(e)
        BY <1>1, <1>5, <2>3, <3>2, OperatorClasses DEF ResultKind
      <4> QED BY <1>1, <1>3, <1>5, <2>1, <2>2, <2>3, <3>2, <4>1, OperatorClasses DEF Result
    <3>3. CASE op \in Logical
      <4>1. ResultKind(e)' = ResultKind(e)
        BY <1>1, <1>5, <2>3, <3>3, OperatorClasses DEF ResultKind
      <4> QED BY <1>1, <1>3, <1>5, <2>1, <2>3, <3>3, <4>1, OperatorClasses DEF Result
    <3>4. CASE op \in Shift
      <4>1. ResultKind(e)' = ResultKind(e)
        BY <1>1, <1>3, <1>5, <2>1, <2>3, <3>4, OperatorClasses DEF ResultKind
      <4> QED BY <1>1, <1>3, <1>5, <2>1, <2>3, <2>4, <3>4, <4>1, OperatorClasses DEF Result
    <3> QED BY <2>3, <3>1, <3>2, <3>3, <3>4, OperatorClasses
  <2>6. StopsProcess(e)' = StopsProcess(e)
    BY <1>1, <1>3, <2>1, <2>2 DEF StopsProcess
  <2> QED BY <2>5, <2>6
<1>6. CASE exprs[e].shape = "ternary"
  <2>1. 1 \in 1 .. Len(exprs[e].args) /\ 2 \in 1 .. Len(exprs[e].args) /\ 3 \in 1 .. Len(exprs[e].args)
    <3>1. Len(exprs[e].args) = 3
      BY <1>2, <1>6 DEF HasShape
    <3> QED BY <3>1
  <2>2. ResultKind(e)' = ResultKind(e)
    BY <1>1, <1>3, <1>6, <2>1 DEF ResultKind
  <2>3. Result(e)' = Result(e)
    BY <1>1, <1>3, <1>6, <2>1, <2>2 DEF Result
  <2> QED BY <1>1, <1>6, <2>2, <2>3 DEF StopsProcess
<1>7. CASE exprs[e].shape = "reference"
  <2>1. PICK r : r = exprs[e].ref
    OBVIOUS
  <2>2. r # NoValue /\ r \in AllValues
    BY <1>7, <2>1 DEF Resolved, IsUnresolved, GraphInv, ExprsInv, IsExpression
  <2>3. PICK d : d = constExpr(r)
    OBVIOUS
  <2>4. d \in Evaluated /\ d \in Expressions
    BY <2>1, <2>2, <2>3, ReferenceIsDependency DEF Evaluated
  <2>5. constExpr(r)' = d
    BY <2>2, <2>3, <2>4 DEF KeepsValues
  <2>6. exprs'[d].kind = exprs[d].kind /\ exprs'[d].value = exprs[d].value
    BY <2>4 DEF KeepsValues
  <2>7. ResultKind(e) = exprs[d].kind /\ Result(e) = exprs[d].value
    BY <1>7, <2>1, <2>3, ResultForms
  <2>8. constExpr(exprs[e].ref)' = d
    BY <1>1, <2>1, <2>5 DEF constExpr
  <2>9. ResultKind(e)' = exprs'[d].kind /\ Result(e)' = exprs'[d].value
    BY <1>1, <1>7, <2>8 DEF ResultKind, Result
  <2> QED BY <1>1, <1>7, <2>6, <2>7, <2>9 DEF StopsProcess
<1>8. CASE exprs[e].shape = "attribute"
  <2>1. PICK t : t = exprs[e].enum
    OBVIOUS
  <2>2. t \in DOMAIN types
    BY <1>2, <1>8, <2>1 DEF HasShape, GraphInv, ExprsInv, IsExpression
  <2>3. numValueNames(t)' = numValueNames(t)
    BY <2>2, SameChains DEF numValueNames, KeepsValues, GraphInv
  <2>4. numValueNames(exprs[e].enum)' = numValueNames(exprs[e].enum)
    BY <1>1, <2>1, <2>3 DEF numValueNames
  <2>5. ResultKind(e)' = ResultKind(e) /\ Result(e)' = Result(e)
    BY <1>1, <1>8, <2>4 DEF ResultKind, Result
  <2> QED BY <1>1, <1>8, <2>5 DEF StopsProcess
<1> QED BY <1>2, <1>4, <1>5, <1>6, <1>7, <1>8 DEF HasShape

LEMMA ComputedStays ==
    ASSUME GraphInv, EvaluatedInv, ShapesInv, ComputedInv, KeepsValues, NEW e \in Evaluated
    PROVE  e \in Evaluated' /\ IsComputed(e)'
<1>1. e \in Expressions /\ e \in Resolved /\ Deps(e) \subseteq Evaluated
  BY DEF EvaluatedInv, Evaluated
<1>2. /\ exprs'[e].shape = exprs[e].shape /\ exprs'[e].evaluated
      /\ exprs'[e].kind = exprs[e].kind /\ exprs'[e].value = exprs[e].value
      /\ e \in Expressions'
  BY <1>1 DEF KeepsValues
<1>3. IsComputed(e)
  BY DEF ComputedInv
<1>4. Meaning(e)' = Meaning(e)
  BY <1>2 DEF Meaning
<1>5. exprs[e].shape # "literal" =>
        /\ ResultKind(e)' = ResultKind(e) /\ Result(e)' = Result(e)
        /\ StopsProcess(e)' = StopsProcess(e)
  BY <1>1, ResultStays
<1> QED BY <1>2, <1>3, <1>4, <1>5 DEF IsComputed, Evaluated

LEMMA FilledStays ==
    ASSUME GraphInv, ShapesInv, KeepsValues, NEW v \in AllValues, IsFilled(v)
    PROVE  IsFilled(v)'
<1>1. PICK e : e = constExpr(v)
  OBVIOUS
<1>2. e \in Expressions /\ constExpr(v)' = e /\ e \in Expressions'
  BY <1>1 DEF IsFilled, KeepsValues
<1>3. Previous(v)' = Previous(v) /\ types' = types
  BY SamePrevious DEF GraphInv, KeepsValues
<1>4. ASSUME NEW d \in Expressions, NEW k, NEW n, IsNumber(exprs[d], k, n)
      PROVE  IsNumber(exprs'[d], k, n)
  BY <1>4 DEF IsNumber, KeepsValues, Evaluated
<1>5. CASE Previous(v) = NoValue
  <2>1. IsNumber(exprs[e], types[v[1]].storage, 0)
    BY <1>1, <1>5 DEF IsFilled
  <2>2. IsNumber(exprs'[e], types[v[1]].storage, 0)
    BY <1>2, <1>4, <2>1
  <2> QED BY <1>2, <1>3, <1>5, <2>2 DEF IsFilled
<1>6. CASE Previous(v) # NoValue
  <2>1. PICK p, k, a, b : /\ p = Previous(v) /\ k = types[v[1]].storage
                          /\ a = exprs[e].args[1] /\ b = exprs[e].args[2]
    OBVIOUS
  <2>2. IsSum(exprs[e], k, p)
    BY <1>1, <1>6, <2>1 DEF IsFilled
  <2>3. /\ exprs[e].shape = "binary" /\ exprs[e].op = "+" /\ Len(exprs[e].args) = 2
        /\ exprs[a].shape = "reference" /\ exprs[a].ref = p /\ IsNumber(exprs[b], k, 1)
    BY <2>1, <2>2 DEF IsSum
  <2>4. a \in Expressions /\ b \in Expressions
    <3>1. 1 \in 1 .. Len(exprs[e].args) /\ 2 \in 1 .. Len(exprs[e].args)
      BY <2>3
    <3> QED BY <1>2, <2>1, <3>1, OperandFacts
  <2>5. /\ exprs'[e].shape = "binary" /\ exprs'[e].op = "+" /\ exprs'[e].args = exprs[e].args
        /\ exprs'[a].shape = "reference"
    BY <1>2, <2>3, <2>4 DEF KeepsValues
  <2>6. exprs'[a].ref = p
    <3>1. a \in Resolved
      BY <1>6, <2>1, <2>3, <2>4 DEF Resolved, IsUnresolved
    <3> QED BY <2>3, <2>4, <3>1 DEF KeepsValues
  <2>7. IsNumber(exprs'[b], k, 1)
    BY <1>4, <2>3, <2>4
  <2>8. constExpr(v)' \in Expressions' /\ Previous(v)' # NoValue
    BY <1>2, <1>3, <1>6
  <2> QED BY <1>2, <1>3, <1>6, <2>1, <2>3, <2>5, <2>6, <2>7, <2>8 DEF IsFilled, IsSum
<1> QED BY <1>5, <1>6

\* a step of a pass that evaluates nothing, but may look a name up
LEMMA ValuesStay ==
    ASSUME GraphInv, EvaluatedInv, ValueInv, SameObjects,
           \A e \in Expressions :
              /\ exprs'[e].evaluated = exprs[e].evaluated
              /\ exprs'[e].kind = exprs[e].kind /\ exprs'[e].value = exprs[e].value
              /\ ~IsUnresolved(e) => exprs'[e].ref = exprs[e].ref
    PROVE  ValueInv'
<1>1. /\ Expressions' = Expressions /\ AllValues' = AllValues /\ types' = types /\ TypesInv'
      /\ autofilled' = autofilled /\ \A v : constExpr(v)' = constExpr(v)
  BY SameObjectsFacts DEF SameObjects
<1>2. \A e \in Expressions :
        /\ exprs'[e].shape = exprs[e].shape /\ exprs'[e].op = exprs[e].op
        /\ exprs'[e].args = exprs[e].args /\ exprs'[e].enum = exprs[e].enum
  BY DEF SameObjects
<1>3. Evaluated' = Evaluated
  BY <1>1 DEF Evaluated
<1>4. KeepsValues
  BY <1>1, <1>2, <1>3 DEF KeepsValues, Resolved, Evaluated
<1>5. ShapesInv'
  <2>1. ASSUME NEW e \in Expressions PROVE HasShape(exprs'[e]) /\ exprs'[e].kind \in Kinds
    <3>1. HasShape(exprs[e]) /\ exprs[e].kind \in Kinds
      BY DEF ValueInv, ShapesInv
    <3> QED BY <1>2, <3>1 DEF HasShape
  <2> QED BY <1>1, <2>1 DEF ShapesInv
<1>6. ComputedInv'
  <2>1. ASSUME NEW e \in Evaluated' PROVE IsComputed(e)'
    BY <1>3, <1>4, <2>1, ComputedStays DEF ValueInv
  <2> QED BY <2>1 DEF ComputedInv
<1>7. FilledByRule'
  <2>1. ASSUME NEW v \in autofilled PROVE IsFilled(v)'
    <3>1. v \in AllValues /\ IsFilled(v)
      BY DEF GraphInv, PassInv, ValueInv, FilledByRule
    <3> QED BY <1>4, <3>1, FilledStays DEF ValueInv
  <2> QED BY <1>1, <2>1 DEF FilledByRule
<1> QED BY <1>5, <1>6, <1>7 DEF ValueInv

LEMMA EvaluateKeepsValues ==
    ASSUME GraphInv, OrderInv, ValueInv, Evaluate
    PROVE  ValueInv'
<1>1. PICK u : u = Top.expr
  OBVIOUS
<1>2. /\ u \in Expressions /\ SameObjects
      /\ \A d \in Expressions : d # u => exprs'[d] = exprs[d]
      /\ exprs'[u].evaluated /\ exprs'[u].ref = exprs[u].ref
      /\ exprs'[u].kind = ResultKind(u) /\ exprs'[u].value = Stored(Result(u))
  BY <1>1, EvaluateFacts
<1>3. Leaves("evaluate") /\ ~exprs[u].evaluated /\ ~StopsProcess(u)
  BY <1>1 DEF Evaluate
<1>4. u \in Resolved /\ Deps(u) \subseteq Evaluated /\ u \notin Evaluated
  BY <1>1, <1>3, DependenciesAreEvaluated DEF Evaluated
<1>5. /\ Expressions' = Expressions /\ AllValues' = AllValues /\ types' = types /\ TypesInv'
      /\ autofilled' = autofilled /\ \A v : constExpr(v)' = constExpr(v)
  BY <1>2, SameObjectsFacts DEF SameObjects
<1>6. \A e \in Expressions :
        /\ exprs'[e].shape = exprs[e].shape /\ exprs'[e].op = exprs[e].op
        /\ exprs'[e].args = exprs[e].args /\ exprs'[e].enum = exprs[e].enum
        /\ exprs'[e].ref = exprs[e].ref
  BY <1>2 DEF SameObjects
<1>7. Evaluated' = Evaluated \cup {u}
  BY <1>2, <1>5 DEF Evaluated
<1>8. KeepsValues
  BY <1>2, <1>4, <1>5, <1>6 DEF KeepsValues, Evaluated
<1>9. HasShape(exprs[u]) /\ exprs[u].shape # "literal"
  BY <1>2, <1>3 DEF ValueInv, ShapesInv, HasShape
<1>10. /\ ResultKind(u) \in Kinds /\ Result(u) \in Int
       /\ Stored(Result(u)) = Stored(Cast(ResultKind(u), Stored(Result(u))))
  BY <1>2, <1>3, <1>4, <1>9, ResultFacts DEF ValueInv
<1>11. ShapesInv'
  <2>1. ASSUME NEW e \in Expressions PROVE HasShape(exprs'[e]) /\ exprs'[e].kind \in Kinds
    <3>1. HasShape(exprs[e]) /\ exprs[e].kind \in Kinds
      BY DEF ValueInv, ShapesInv
    <3>2. exprs'[e].kind \in Kinds /\ (exprs[e].evaluated => exprs'[e].evaluated)
      BY <1>2, <1>10, <3>1
    <3> QED BY <1>6, <3>1, <3>2 DEF HasShape
  <2> QED BY <1>5, <2>1 DEF ShapesInv
<1>12. IsComputed(u)'
  <2>1. ResultKind(u)' = ResultKind(u) /\ Result(u)' = Result(u) /\ StopsProcess(u)' = StopsProcess(u)
    BY <1>2, <1>4, <1>8, <1>9, ResultStays DEF ValueInv
  <2>2. Meaning(u)' = Cast(ResultKind(u), Stored(Result(u)))
    BY <1>2 DEF Meaning
  <2>3. Stored(Result(u)) \in Int
    BY <1>10, UINT64Facts, CastOfStored
  <2> QED BY <1>2, <1>3, <1>10, <2>1, <2>2, <2>3 DEF IsComputed
<1>13. ComputedInv'
  <2>1. ASSUME NEW e \in Evaluated PROVE IsComputed(e)'
    BY <1>8, ComputedStays DEF ValueInv, OrderInv
  <2> QED BY <1>7, <1>12, <2>1 DEF ComputedInv
<1>14. FilledByRule'
  <2>1. ASSUME NEW v \in autofilled PROVE IsFilled(v)'
    <3>1. v \in AllValues /\ IsFilled(v)
      BY DEF GraphInv, PassInv, ValueInv, FilledByRule
    <3> QED BY <1>8, <3>1, FilledStays DEF ValueInv
  <2> QED BY <1>5, <2>1 DEF FilledByRule
<1> QED BY <1>11, <1>13, <1>14 DEF ValueInv

\* a literal of zero or one that is filled in
LEMMA NumberIsComputed ==
    ASSUME NEW k \in Kinds, NEW n \in {0, 1}
    PROVE  n \in Int /\ n = Stored(Cast(k, n))
<1>1. n \in Int /\ InRange(k, n) /\ InRange("UINT64", n)
  BY UINT64Facts, RangeFacts DEF InRange
<1> QED BY <1>1, UINT64Facts, CastInRange DEF Stored

LEMMA AutofillObjects ==
    ASSUME GraphInv, Autofill
    PROVE  LET h == Head(todo)
               k == types[h[1]].storage
               n == Len(exprs)
           IN \/ /\ Previous(h) = NoValue /\ Len(exprs') = n + 1
                 /\ IsNumber(exprs'[n + 1], k, 0)
              \/ /\ Previous(h) # NoValue /\ Len(exprs') = n + 3
                 /\ exprs'[n + 1].shape = "reference" /\ exprs'[n + 1].ref = Previous(h)
                 /\ ~exprs'[n + 1].evaluated /\ exprs'[n + 1].kind = "INT32"
                 /\ IsNumber(exprs'[n + 2], k, 1)
                 /\ exprs'[n + 3].shape = "binary" /\ exprs'[n + 3].op = "+"
                 /\ exprs'[n + 3].args = <<n + 1, n + 2>>
                 /\ ~exprs'[n + 3].evaluated /\ exprs'[n + 3].kind = "INT32"
<1> DEFINE h == Head(todo)
           t == h[1]
           k == types[t].storage
           n == Len(exprs)
           F == Filled(h)
           Q == [i \in DOMAIN F |-> [F[i] EXCEPT !.owner = t]]
<1>1. exprs \in Seq(ToSet(exprs)) /\ n \in Nat
  BY DEF GraphInv, ExprsInv
<1>2. exprs' = exprs \o Q
  BY DEF Autofill
<1>3. ASSUME NEW m \in Nat, NEW q, DOMAIN q = 1 .. m, q = [i \in 1 .. m |-> q[i]]
      PROVE  /\ Len(exprs \o q) = n + m
             /\ \A i \in 1 .. m : (exprs \o q)[n + i] = q[i]
  <2>1. PICK S : S = ToSet(exprs) \cup ToSet(q)
    OBVIOUS
  <2>2. q \in Seq(ToSet(q))
    BY <1>3, SequenceOfOwn
  <2>3. exprs \in Seq(S) /\ q \in Seq(S) /\ Len(q) = m
    BY <1>1, <1>3, <2>1, <2>2
  <2>4. ASSUME NEW T, NEW p \in Seq(T), NEW r \in Seq(T)
        PROVE  /\ Len(p \o r) = Len(p) + Len(r)
               /\ \A i \in 1 .. Len(r) : (p \o r)[Len(p) + i] = r[i]
    OBVIOUS
  <2> QED BY <2>3, <2>4
<1>4. F = IF Previous(h) = NoValue
          THEN <<Zero(k)>>
          ELSE <<Unevaluated("reference", "", <<>>, 0, "", Previous(h)), One(k),
                 Unevaluated("binary", "+", <<n + 1, n + 2>>, 0, "", NoValue)>>
  BY DEF Filled
<1> HIDE DEF n, h, k, F
<1>5. CASE Previous(h) = NoValue
  <2> DEFINE z == Zero(k)
             y == [z EXCEPT !.owner = t]
  <2>1. F = <<z>>
    BY <1>4, <1>5
  <2>2. IsNumber(y, k, 0)
    BY DEF Zero, Literal, IsNumber
  <2> HIDE DEF z
  <2>3. DOMAIN F = 1 .. 1 /\ F[1] = z
    BY <2>1
  <2>4. DOMAIN Q = 1 .. 1 /\ Q[1] = y /\ Q = [i \in 1 .. 1 |-> Q[i]]
    BY <2>3
  <2> HIDE DEF y, Q
  <2>5. Len(exprs') = n + 1 /\ exprs'[n + 1] = y
    <3>1. 1 \in Nat /\ 1 \in 1 .. 1
      OBVIOUS
    <3>2. Len(exprs \o Q) = n + 1 /\ \A i \in 1 .. 1 : (exprs \o Q)[n + i] = Q[i]
      BY <1>3, <2>4, <3>1
    <3> QED BY <1>2, <2>4, <3>1, <3>2
  <2> QED BY <1>5, <2>2, <2>5 DEF n, h, k, t
<1>6. CASE Previous(h) # NoValue
  <2> DEFINE a == Unevaluated("reference", "", <<>>, 0, "", Previous(h))
             b == One(k)
             c == Unevaluated("binary", "+", <<n + 1, n + 2>>, 0, "", NoValue)
             ya == [a EXCEPT !.owner = t]
             yb == [b EXCEPT !.owner = t]
             yc == [c EXCEPT !.owner = t]
  <2>1. F = <<a, b, c>>
    BY <1>4, <1>6
  <2>2. ya.shape = "reference" /\ ya.ref = Previous(h) /\ ~ya.evaluated /\ ya.kind = "INT32"
    BY DEF Unevaluated, Literal
  <2>3. IsNumber(yb, k, 1)
    BY DEF One, Literal, IsNumber
  <2>4. /\ yc.shape = "binary" /\ yc.op = "+" /\ yc.args = <<n + 1, n + 2>>
        /\ ~yc.evaluated /\ yc.kind = "INT32"
    BY DEF Unevaluated, Literal
  <2> HIDE DEF a, b, c
  <2>5. DOMAIN F = 1 .. 3 /\ F[1] = a /\ F[2] = b /\ F[3] = c
    BY <2>1
  <2>6. /\ DOMAIN Q = 1 .. 3 /\ Q[1] = ya /\ Q[2] = yb /\ Q[3] = yc /\ Q = [i \in 1 .. 3 |-> Q[i]]
    BY <2>5
  <2> HIDE DEF ya, yb, yc, Q
  <2>7. /\ Len(exprs') = n + 3
        /\ exprs'[n + 1] = ya /\ exprs'[n + 2] = yb /\ exprs'[n + 3] = yc
    <3>1. 3 \in Nat /\ 1 \in 1 .. 3 /\ 2 \in 1 .. 3 /\ 3 \in 1 .. 3
      OBVIOUS
    <3>2. Len(exprs \o Q) = n + 3 /\ \A i \in 1 .. 3 : (exprs \o Q)[n + i] = Q[i]
      BY <1>3, <2>6, <3>1
    <3> QED BY <1>2, <2>6, <3>1, <3>2
  <2> QED BY <1>6, <2>2, <2>3, <2>4, <2>7 DEF n, h, k, t
<1> QED BY <1>5, <1>6

\* the objects of a value that is filled in have their shape, and the numbers
\* among them the value that they are written with
LEMMA NewObjectsAreRight ==
    ASSUME GraphInv, Autofill, NEW e \in Expressions', e \notin Expressions
    PROVE  HasShape(exprs'[e]) /\ exprs'[e].kind \in Kinds /\ (e \in Evaluated' => IsComputed(e)')
<1>1. PICK n, m, h, k : /\ n = Len(exprs) /\ m = Len(exprs') /\ h = Head(todo)
                        /\ k = types[h[1]].storage
  OBVIOUS
<1>2. /\ n \in Nat /\ m \in Nat /\ Expressions = 1 .. n /\ Expressions' = 1 .. m
  BY <1>1, AutofillFacts
<1>3. k \in Kinds
  <2>1. h[1] \in DOMAIN types /\ types \in Seq(TypeType(Len(types)))
    BY <1>1, AutofillValues, ValueFacts DEF GraphInv, TypesInv, AreTypes
  <2> DEFINE T == TypeType(Len(types))
  <2>2. types[h[1]] \in T
    <3> HIDE DEF T
    <3> QED BY <2>1 DEF T
  <2> QED BY <1>1, <2>2 DEF TypeType
<1>4. ASSUME NEW i \in {0, 1}, IsNumber(exprs'[e], k, i)
      PROVE  HasShape(exprs'[e]) /\ exprs'[e].kind \in Kinds /\ IsComputed(e)'
  <2>1. exprs'[e].shape = "literal" /\ exprs'[e].evaluated /\ exprs'[e].kind = k /\ exprs'[e].value = i
    BY <1>4 DEF IsNumber
  <2>2. i \in Int /\ i = Stored(Cast(k, i))
    BY <1>3, NumberIsComputed
  <2>3. IsComputed(e)'
    BY <2>1, <2>2 DEF IsComputed, Meaning
  <2> QED BY <1>3, <2>1, <2>3 DEF HasShape
<1>5. CASE Previous(h) = NoValue
  <2>1. m = n + 1 /\ IsNumber(exprs'[n + 1], k, 0)
    BY <1>1, <1>5, AutofillObjects
  <2>2. e = n + 1
    BY <1>2, <2>1
  <2> QED BY <1>4, <2>1, <2>2
<1>6. CASE Previous(h) # NoValue
  <2>1. /\ m = n + 3
        /\ exprs'[n + 1].shape = "reference"
        /\ ~exprs'[n + 1].evaluated /\ exprs'[n + 1].kind = "INT32"
        /\ IsNumber(exprs'[n + 2], k, 1)
        /\ exprs'[n + 3].shape = "binary" /\ exprs'[n + 3].op = "+"
        /\ exprs'[n + 3].args = <<n + 1, n + 2>>
        /\ ~exprs'[n + 3].evaluated /\ exprs'[n + 3].kind = "INT32"
    BY <1>1, <1>6, AutofillObjects
  <2>2. e \in {n + 1, n + 2, n + 3}
    BY <1>2, <2>1
  <2>3. CASE e = n + 1
    BY <2>1, <2>3 DEF HasShape, Kinds, SignedKinds, Evaluated
  <2>4. CASE e = n + 2
    BY <1>4, <2>1, <2>4
  <2>5. CASE e = n + 3
    <3>1. Len(exprs'[e].args) = 2 /\ "+" \in BinaryOps
      BY <2>1, <2>5 DEF BinaryOps, Arithmetic
    <3> QED BY <2>1, <2>5, <3>1 DEF HasShape, Kinds, SignedKinds, Evaluated
  <2> QED BY <2>2, <2>3, <2>4, <2>5
<1> QED BY <1>5, <1>6

LEMMA AutofillKeepsValues ==
    ASSUME GraphInv, OrderInv, ValueInv, Autofill
    PROVE  ValueInv'
<1>1. PICK n, m, h : n = Len(exprs) /\ m = Len(exprs') /\ h = Head(todo)
  OBVIOUS
<1>2. /\ n \in Nat /\ m \in Nat /\ n < m /\ Expressions = 1 .. n /\ Expressions' = 1 .. m
      /\ \A e \in 1 .. n : exprs'[e] = exprs[e]
  BY <1>1, AutofillFacts
<1>3. /\ types' = types /\ h \in AllValues /\ AllValues' = AllValues
      /\ \A v \in AllValues : constExpr(v)' = IF v = h THEN m ELSE constExpr(v)
  BY <1>1, AutofillValues
<1>4. constExpr(h) \notin Expressions /\ autofilled' = autofilled \cup {h}
  BY <1>1, <1>2 DEF Autofill
<1>5. TypesInv' /\ TypesInv
  BY AutofillKeepsGraph DEF GraphInv
<1>6. KeepsValues
  BY <1>2, <1>3, <1>4, <1>5 DEF KeepsValues, Evaluated
<1>7. ShapesInv'
  <2>1. ASSUME NEW e \in Expressions' PROVE HasShape(exprs'[e]) /\ exprs'[e].kind \in Kinds
    <3>1. CASE e \in Expressions
      BY <1>2, <3>1 DEF ValueInv, ShapesInv
    <3> QED BY <2>1, <3>1, NewObjectsAreRight
  <2>2. \A e \in Expressions' : HasShape(exprs'[e]) /\ exprs'[e].kind \in Kinds
    BY <2>1
  <2> QED BY <2>2 DEF ShapesInv, HasShape
<1>8. ComputedInv'
  <2>1. ASSUME NEW e \in Evaluated' PROVE IsComputed(e)'
    <3>1. e \in Expressions' /\ exprs'[e].evaluated
      BY <2>1 DEF Evaluated
    <3>2. CASE e \in Expressions
      <4>1. e \in Evaluated
        BY <1>2, <3>1, <3>2 DEF Evaluated
      <4> QED BY <1>6, <4>1, ComputedStays DEF ValueInv, OrderInv
    <3> QED BY <2>1, <3>1, <3>2, NewObjectsAreRight
  <2> QED BY <2>1 DEF ComputedInv
<1>9. IsFilled(h)'
  <2>1. PICK k, p : k = types[h[1]].storage /\ p = Previous(h)
    OBVIOUS
  <2>2. Previous(h)' = p /\ types'[h[1]].storage = k
    BY <1>3, <1>5, <2>1, SamePrevious
  <2>3. constExpr(h)' = m /\ m \in Expressions'
    BY <1>2, <1>3
  <2>4. CASE p = NoValue
    <3>1. IsNumber(exprs'[m], k, 0)
      BY <1>1, <2>1, <2>4, AutofillObjects
    <3> QED BY <2>2, <2>3, <2>4, <3>1 DEF IsFilled
  <2>5. CASE p # NoValue
    <3>1. /\ m = n + 3
          /\ exprs'[n + 1].shape = "reference" /\ exprs'[n + 1].ref = p
          /\ IsNumber(exprs'[n + 2], k, 1)
          /\ exprs'[m].shape = "binary" /\ exprs'[m].op = "+"
          /\ exprs'[m].args = <<n + 1, n + 2>>
      BY <1>1, <2>1, <2>5, AutofillObjects
    <3>2. Len(exprs'[m].args) = 2 /\ exprs'[m].args[1] = n + 1 /\ exprs'[m].args[2] = n + 2
      BY <3>1
    <3> QED BY <2>2, <2>3, <2>5, <3>1, <3>2 DEF IsFilled, IsSum
  <2> QED BY <2>4, <2>5
<1>10. FilledByRule'
  <2>1. ASSUME NEW v \in autofilled PROVE IsFilled(v)'
    <3>1. v \in AllValues /\ IsFilled(v)
      BY DEF GraphInv, PassInv, ValueInv, FilledByRule
    <3> QED BY <1>6, <3>1, FilledStays DEF ValueInv
  <2> QED BY <1>4, <1>9, <2>1 DEF FilledByRule
<1> QED BY <1>7, <1>8, <1>10 DEF ValueInv

LEMMA InitValues == Init => ValueInv
<1> SUFFICES ASSUME Init PROVE ValueInv
  OBVIOUS
<1>1. PICK p \in Programs : types = p.types /\ exprs = p.exprs /\ values = p.values
  BY DEF Init
<1>2. AreExpressions(types, exprs)
  BY <1>1, ProgramsAssumption DEF IsProgram
<1>3. ASSUME NEW e \in Expressions
      PROVE  IsOfGrammar(exprs[e]) /\ exprs[e].kind \in Kinds /\ exprs[e].value \in Int
  <2> DEFINE T == ExpressionType(types, Len(exprs))
  <2>1. exprs[e] \in T
    <3>1. exprs \in Seq(T)
      BY <1>2 DEF AreExpressions
    <3> HIDE DEF T
    <3> QED BY <3>1 DEF Expressions
  <2> QED BY <1>2, <2>1 DEF AreExpressions, Expressions, ExpressionType
<1>4. ShapesInv
  BY <1>3 DEF ShapesInv, HasShape, IsOfGrammar
<1>5. ComputedInv
  <2>1. ASSUME NEW e \in Evaluated PROVE IsComputed(e)
    <3>1. e \in Expressions /\ exprs[e].evaluated
      BY DEF Evaluated
    <3>2. exprs[e].shape = "literal" /\ IsLiteral(exprs[e].kind, exprs[e].value)
      BY <1>3, <3>1 DEF IsOfGrammar
    <3>3. exprs[e].value = Stored(Meaning(e))
      BY <1>3, <3>1, <3>2, LiteralFacts DEF Meaning
    <3> QED BY <1>3, <3>1, <3>2, <3>3 DEF IsComputed
  <2> QED BY <2>1 DEF ComputedInv
<1>6. FilledByRule
  BY DEF Init, FilledByRule
<1> QED BY <1>4, <1>5, <1>6 DEF ValueInv

\* only four actions change an object
LEMMA ProgramSteps ==
    ASSUME [Next]_vars
    PROVE  UNCHANGED program \/ Autofill \/ LookUp \/ Evaluate \/ setPostParseCompleted
<1>1. CASE NextPhase \/ KeepExplicit \/ PassOver \/ Leave
  BY <1>1 DEF NextPhase, KeepExplicit, PassOver, Leave
<1>2. CASE FailLookup \/ FindCycle \/ FailValidate \/ Trap
  BY <1>2 DEF FailLookup, FindCycle, FailValidate, Trap
<1>3. CASE CheckAcyclic \/ CheckedBefore \/ LeaveAcyclic \/ Validate \/ Descend \/ IsEvaluated
  BY <1>3 DEF CheckAcyclic, CheckedBefore, LeaveAcyclic, Validate, Descend, IsEvaluated
<1>4. CASE Terminated \/ UNCHANGED vars
  BY <1>4 DEF Terminated, vars
<1> QED BY <1>1, <1>2, <1>3, <1>4 DEF Next

LEMMA NextKeepsValues ==
    ASSUME GraphInv, OrderInv, ValueInv, [Next]_vars
    PROVE  ValueInv'
<1>1. CASE UNCHANGED program
  <2>1. SameObjects /\ exprs' = exprs
    BY <1>1, ProgramStays DEF program
  <2> QED BY <2>1, ValuesStay DEF OrderInv
<1>2. CASE Autofill
  BY <1>2, AutofillKeepsValues
<1>3. CASE LookUp
  <2>1. /\ SameObjects
        /\ \A d \in Expressions : d # Called => exprs'[d] = exprs[d]
        /\ exprs'[Called].evaluated = exprs[Called].evaluated
        /\ exprs'[Called].kind = exprs[Called].kind /\ exprs'[Called].value = exprs[Called].value
        /\ ~IsUnresolved(Called) => exprs' = exprs
    BY <1>3, LookUpFacts
  <2>2. PICK c : c = Called
    OBVIOUS
  <2>3. \A e \in Expressions :
          /\ exprs'[e].evaluated = exprs[e].evaluated
          /\ exprs'[e].kind = exprs[e].kind /\ exprs'[e].value = exprs[e].value
          /\ ~IsUnresolved(e) => exprs'[e].ref = exprs[e].ref
    BY <2>1, <2>2
  <2> QED BY <2>1, <2>3, ValuesStay DEF OrderInv
<1>4. CASE Evaluate
  BY <1>4, EvaluateKeepsValues
<1>5. CASE setPostParseCompleted
  <2>1. /\ SameObjects
        /\ \A d \in Expressions : d # Called => exprs'[d] = exprs[d]
        /\ exprs'[Called].evaluated = exprs[Called].evaluated
        /\ exprs'[Called].ref = exprs[Called].ref
        /\ exprs'[Called].kind = exprs[Called].kind /\ exprs'[Called].value = exprs[Called].value
    BY <1>5, CompleteFacts
  <2>2. PICK c : c = Called
    OBVIOUS
  <2>3. \A e \in Expressions :
          /\ exprs'[e].evaluated = exprs[e].evaluated
          /\ exprs'[e].kind = exprs[e].kind /\ exprs'[e].value = exprs[e].value
          /\ exprs'[e].ref = exprs[e].ref
    BY <2>1, <2>2
  <2> QED BY <2>1, <2>3, ValuesStay DEF OrderInv
<1> QED BY <1>1, <1>2, <1>3, <1>4, <1>5, ProgramSteps

(* On every program and for all widths, what is evaluated is what          *)
(* evaluate() would compute of its operands again, stored as a cast to     *)
(* uint64_t leaves it; and what autofill made is still the value before    *)
(* and one.                                                                *)
THEOREM ValueInvHolds == Spec => []ValueInv
<1>1. GraphInv /\ OrderInv /\ ValueInv /\ [Next]_vars => ValueInv'
  BY NextKeepsValues
<1> QED BY <1>1, InitValues, GraphInvHolds, OrderInvHolds, PTL DEF Spec

(* Every variable has its type, and a value that is evaluated is stored as *)
(* a cast of its own kind to uint64_t leaves it, whatever computed it; an  *)
(* expression that later files pass over is evaluated.                     *)
THEOREM TypeOKHolds == Spec => []TypeOK
<1>1. ASSUME GraphInv, OrderInv, ValueInv
      PROVE  TypeOK
  <2>1. GraphOK
    BY <1>1, GraphInvGivesGraphOK
  <2>2. ASSUME NEW e \in Expressions
        PROVE  /\ exprs[e].kind \in Kinds
               /\ exprs[e].evaluated => exprs[e].value = Stored(Meaning(e))
               /\ exprs[e].completed => exprs[e].evaluated
    <3>1. exprs[e].kind \in Kinds
      BY <1>1 DEF ValueInv, ShapesInv
    <3>2. exprs[e].evaluated => exprs[e].value = Stored(Meaning(e))
      BY <1>1 DEF ValueInv, ComputedInv, IsComputed, Evaluated
    <3>3. exprs[e].completed => exprs[e].evaluated
      BY <1>1 DEF OrderInv, EvaluatedInv, Completed, Evaluated
    <3> QED BY <3>1, <3>2, <3>3
  <2> QED BY <2>1, <2>2 DEF TypeOK
<1> QED BY <1>1, GraphInvHolds, OrderInvHolds, ValueInvHolds, PTL

(* On every program and for all widths, a value that is not written is     *)
(* emitted as the one before it and one, around the end of the storage     *)
(* type; and an expression has the kind of the documented rules, but for   *)
(* "!", of which no kind is stated, and, where operands and result fit     *)
(* into it, the exact value (ConstantExpression.cpp:745-828).              *)
THEOREM ValuesAreRightHolds == Spec => []ValuesAreRight
<1>1. ASSUME GraphInv, OrderInv, ValueInv
      PROVE  ValuesAreRight
  <2>1. ASSUME NEW v \in autofilled, Done(v), types[v[1]].storage # "BOOL"
        PROVE  Emitted(v) = IF Previous(v) = NoValue THEN 0
                            ELSE Cast(types[v[1]].storage, Emitted(Previous(v)) + 1)
    <3>1. v \in AllValues /\ IsFilled(v)
      BY <1>1 DEF GraphInv, PassInv, ValueInv, FilledByRule
    <3>2. constExpr(v) \in Evaluated
      BY <2>1, <3>1 DEF Done, IsFilled, Evaluated
    <3> QED BY <1>1, <2>1, <3>1, <3>2, FilledIsSuccessor DEF ValueInv, OrderInv
  <2>2. ASSUME NEW e \in Expressions, exprs[e].evaluated PROVE Documented(e)
    <3>1. e \in Evaluated
      BY <2>2 DEF Evaluated
    <3> QED BY <1>1, <3>1, ExpressionIsDocumented DEF ValueInv, OrderInv
  <2> QED BY <2>1, <2>2 DEF ValuesAreRight, AutofillIsSuccessor, ValueIsDocumented
<1> QED BY <1>1, GraphInvHolds, OrderInvHolds, ValueInvHolds, PTL
=============================================================================
