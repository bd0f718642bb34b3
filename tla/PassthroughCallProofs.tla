----------------------- MODULE PassthroughCallProofs ------------------------
(***************************************************************************)
(* What a caller of a passthrough object may rely on, for any number of    *)
(* calls and threads and every bound of the queue.                         *)
(***************************************************************************)
EXTENDS PassthroughCall, SequenceTheorems, TLAPS

In(c, s) == \E i \in DOMAIN s : s[i] = c
Oneway(c) == Kind(c) = "oneway"

(* A call begins after those its thread made before have returned.         *)
BegunInOrder == \A c \in Calls : method[c] # "idle" => \A d \in Before[c] : method[d] = "returned"

(* Where the call is tells what was done of it.                            *)
MethodInv(c) ==
    /\ method[c] \in {"idle", "entered"} => ~In(c, started) /\ ~In(c, mOnewayQueue)
    /\ In(c, mOnewayQueue) => Oneway(c)
    /\ Oneway(c) /\ (In(c, started) \/ In(c, mOnewayQueue)) =>
            method[c] = "returned" /\ status[c] = "ok"
    /\ Oneway(c) => method[c] # "inside"
    /\ status[c] # "none" => method[c] = "returned"
    /\ nullAnswers[c] # 0 => hidlError[c]
    /\ method[c] \in {"idle", "entered"} => nullAnswers[c] = 0

(* The calls of a list are different, and the one-way calls of a thread    *)
(* are in the order in which it made them.                                 *)
InOrder(s) ==
    /\ \A i, j \in DOMAIN s : s[i] = s[j] => i = j
    /\ \A i, j \in DOMAIN s :
        Oneway(s[i]) /\ Oneway(s[j]) /\ s[i] \in Before[s[j]] => i < j

(* What waits was neither started nor made before what was.                *)
WaitsAfter ==
    \A c, d \in Calls :
        In(c, started) /\ In(d, mOnewayQueue) =>
            /\ c # d
            /\ Oneway(c) => d \notin Before[c]

IInv ==
    /\ TypeOK
    /\ BegunInOrder
    /\ \A c \in Calls : MethodInv(c)
    /\ InOrder(started) /\ InOrder(mOnewayQueue)
    /\ WaitsAfter
    /\ \A c \in Calls : status[c] = "ok" => nullAnswers[c] = 0

-----------------------------------------------------------------------------
LEMMA ElementIn ==
    ASSUME NEW S, NEW s \in Seq(S), NEW n, In(n, s)
    PROVE  n \in S
BY LenProperties, ElementOfSeq DEF In

LEMMA Appended ==
    ASSUME NEW S, NEW s \in Seq(S), NEW e \in S
    PROVE  /\ Append(s, e) \in Seq(S)
           /\ \A n : In(n, Append(s, e)) <=> In(n, s) \/ n = e
           /\ /\ DOMAIN s = 1..Len(s) /\ Len(s) \in Nat
              /\ DOMAIN Append(s, e) = 1..Len(s) + 1 /\ Len(Append(s, e)) = Len(s) + 1
              /\ \A i \in 1..Len(s) : Append(s, e)[i] = s[i]
              /\ Append(s, e)[Len(s) + 1] = e
<1>1. /\ DOMAIN s = 1..Len(s) /\ Len(s) \in Nat
      /\ Append(s, e) \in Seq(S) /\ DOMAIN Append(s, e) = 1..Len(s) + 1
      /\ Len(Append(s, e)) = Len(s) + 1
      /\ \A i \in 1..Len(s) : Append(s, e)[i] = s[i]
      /\ Append(s, e)[Len(s) + 1] = e
  BY AppendProperties, LenProperties
<1>2. ASSUME NEW n
      PROVE  In(n, Append(s, e)) <=> In(n, s) \/ n = e
  BY <1>1 DEF In
<1> QED  BY <1>1, <1>2

(* A new call that no call of the list comes after keeps the order.        *)
LEMMA AppendedInOrder ==
    ASSUME NEW s \in Seq(Calls), NEW c \in Calls, InOrder(s), ~In(c, s),
           \A d \in Calls : (In(d, s) \/ d = c) /\ Oneway(d) /\ Oneway(c) => c \notin Before[d]
    PROVE  InOrder(Append(s, c))
<1>1. /\ DOMAIN s = 1..Len(s) /\ Len(s) \in Nat
      /\ DOMAIN Append(s, c) = 1..Len(s) + 1
      /\ \A i \in 1..Len(s) : Append(s, c)[i] = s[i]
      /\ Append(s, c)[Len(s) + 1] = c
  BY Appended
<1>2. \A i \in 1..Len(s) : In(s[i], s) /\ s[i] \in Calls
  BY <1>1, ElementOfSeq DEF In
<1> DEFINE r == Append(s, c)
<1> HIDE DEF r
<1>3. ASSUME NEW i \in DOMAIN r, NEW j \in DOMAIN r, r[i] = r[j]
      PROVE  i = j
  BY <1>1, <1>2, <1>3 DEF InOrder, r
<1>4. ASSUME NEW i \in DOMAIN r, NEW j \in DOMAIN r,
             Oneway(r[i]), Oneway(r[j]), r[i] \in Before[r[j]]
      PROVE  i < j
  <2>1. CASE i = Len(s) + 1
    <3>1. r[i] = c /\ r[j] \in Calls /\ (In(r[j], s) \/ r[j] = c)
      BY <2>1, <1>1, <1>2 DEF r
    <3> QED  BY <3>1, <1>4
  <2>2. CASE i # Len(s) + 1 /\ j # Len(s) + 1
    <3>1. i \in DOMAIN s /\ j \in DOMAIN s /\ r[i] = s[i] /\ r[j] = s[j]
      BY <2>2, <1>1 DEF r
    <3> QED  BY <3>1, <1>4 DEF InOrder
  <2>3. CASE i # Len(s) + 1 /\ j = Len(s) + 1
    BY <2>3, <1>1 DEF r
  <2> QED  BY <2>1, <2>2, <2>3
<1> QED  BY <1>3, <1>4 DEF InOrder, r

LEMMA HeadTaken ==
    ASSUME NEW s \in Seq(Calls), s # <<>>, InOrder(s)
    PROVE  /\ Tail(s) \in Seq(Calls) /\ Head(s) \in Calls /\ In(Head(s), s)
           /\ Len(Tail(s)) = Len(s) - 1 /\ Len(s) \in Nat
           /\ InOrder(Tail(s))
           /\ \A n : In(n, Tail(s)) => In(n, s) /\ n # Head(s)
           /\ \A n : In(n, s) /\ Oneway(n) /\ Oneway(Head(s)) => n \notin Before[Head(s)]
<1>1. /\ Len(s) \in Nat \ {0} /\ DOMAIN s = 1..Len(s) /\ Head(s) = s[1] /\ Head(s) \in Calls
      /\ Tail(s) \in Seq(Calls) /\ Len(Tail(s)) = Len(s) - 1
      /\ DOMAIN Tail(s) = 1..Len(s) - 1
      /\ \A i \in 1..Len(s) - 1 : Tail(s)[i] = s[i + 1]
  BY HeadTailProperties, LenProperties, EmptySeq
<1>2. InOrder(Tail(s))
  BY <1>1 DEF InOrder
<1>3. ASSUME NEW n, In(n, Tail(s))
      PROVE  In(n, s) /\ n # Head(s)
  BY <1>1, <1>3 DEF In, InOrder
<1>4. ASSUME NEW n, In(n, s), Oneway(n), Oneway(Head(s)), n \in Before[Head(s)]
      PROVE  FALSE
  <2>1. PICK k \in 1..Len(s) : s[k] = n
    BY <1>1, <1>4 DEF In
  <2>2. k < 1
    BY <2>1, <1>1, <1>4 DEF InOrder
  <2> QED  BY <2>2, <1>1
<1> QED  BY <1>1, <1>2, <1>3, <1>4 DEF In

(* A step of one call forward leaves the order in which calls begin.       *)
LEMMA MovedOn ==
    ASSUME TypeOK, BegunInOrder, NEW c \in Calls, NEW m,
           method' = [method EXCEPT ![c] = m],
           method[c] # "returned",
           \A d \in Before[c] : method[d] = "returned"
    PROVE  BegunInOrder'
<1>1. \A d \in Calls : method'[d] = IF d = c THEN m ELSE method[d]
  BY DEF TypeOK
<1>2. ASSUME NEW d \in Calls, method'[d] # "idle", NEW e \in Before[d]
      PROVE  method'[e] = "returned"
  <2>1. e \in Calls
    BY BeforeAssumption
  <2>2. method[e] = "returned"
    BY <1>1, <1>2 DEF BegunInOrder
  <2> QED  BY <1>1, <2>1, <2>2
<1> QED  BY <1>2 DEF BegunInOrder

(* What a step that does not touch the lists keeps.                        *)
LEMMA ListsKept ==
    ASSUME request' = request, started' = started, mOnewayQueue' = mOnewayQueue
    PROVE  /\ InOrder(started) => InOrder(started)'
           /\ InOrder(mOnewayQueue) => InOrder(mOnewayQueue)'
           /\ WaitsAfter => WaitsAfter'
           /\ \A c : Oneway(c)' = Oneway(c) /\ Kind(c)' = Kind(c)
           /\ \A c : In(c, started)' = In(c, started) /\ In(c, mOnewayQueue)' = In(c, mOnewayQueue)
BY DEF InOrder, WaitsAfter, Oneway, Kind, In

LEMMA InitInv == Init => IInv
<1> SUFFICES ASSUME Init PROVE IInv
  OBVIOUS
<1>1. <<>> \in Seq(Calls) /\ Len(<<>>) = 0
  BY EmptySeq
<1>2. TypeOK
  BY <1>1, RequestsAssumption, LimitAssumption DEF Init, TypeOK, MaxAnswers
<1>3. BegunInOrder /\ WaitsAfter /\ InOrder(started) /\ InOrder(mOnewayQueue)
  BY DEF Init, BegunInOrder, WaitsAfter, InOrder, In
<1>4. ASSUME NEW c \in Calls
      PROVE  MethodInv(c) /\ (status[c] = "ok" => nullAnswers[c] = 0)
  BY DEF Init, MethodInv, In
<1> QED  BY <1>2, <1>3, <1>4 DEF IInv

LEMMA BeginStep ==
    ASSUME IInv, NEW c \in Calls, Begin(c)
    PROVE  IInv'
<1>1. /\ TypeOK /\ BegunInOrder /\ \A d \in Calls : MethodInv(d)
      /\ InOrder(started) /\ InOrder(mOnewayQueue) /\ WaitsAfter
      /\ \A d \in Calls : status[d] = "ok" => nullAnswers[d] = 0
  BY DEF IInv
<1>2. /\ method[c] = "idle" /\ \A d \in Before[c] : method[d] = "returned"
      /\ method' = [method EXCEPT ![c] = "entered"]
      /\ request' = request /\ status' = status /\ hidlError' = hidlError
      /\ answers' = answers /\ nullAnswers' = nullAnswers
      /\ mOnewayQueue' = mOnewayQueue /\ task' = task /\ started' = started
  BY DEF Begin
<1>3. TypeOK'
  BY <1>1, <1>2 DEF TypeOK
<1>4. BegunInOrder'
  BY <1>1, <1>2, MovedOn
<1>5. ASSUME NEW d \in Calls
      PROVE  MethodInv(d)'
  <2>1. method'[d] = IF d = c THEN "entered" ELSE method[d]
    BY <1>1, <1>2 DEF TypeOK
  <2> QED  BY <2>1, <1>1, <1>2, ListsKept DEF MethodInv
<1> QED  BY <1>1, <1>2, <1>3, <1>4, <1>5, ListsKept DEF IInv

LEMMA RefuseStep ==
    ASSUME IInv, NEW c \in Calls, Refuse(c)
    PROVE  IInv'
<1>1. /\ TypeOK /\ BegunInOrder /\ \A d \in Calls : MethodInv(d)
      /\ InOrder(started) /\ InOrder(mOnewayQueue) /\ WaitsAfter
      /\ \A d \in Calls : status[d] = "ok" => nullAnswers[d] = 0
  BY DEF IInv
<1>2. /\ method[c] = "entered"
      /\ method' = [method EXCEPT ![c] = "returned"]
      /\ status' = [status EXCEPT ![c] = "error"]
      /\ request' = request /\ hidlError' = hidlError
      /\ answers' = answers /\ nullAnswers' = nullAnswers
      /\ mOnewayQueue' = mOnewayQueue /\ task' = task /\ started' = started
  BY DEF Refuse, ReturnWith
<1>3. TypeOK'
  BY <1>1, <1>2 DEF TypeOK
<1>4. BegunInOrder'
  BY <1>1, <1>2, MovedOn DEF BegunInOrder
<1>5. \A d \in Calls : /\ method'[d] = IF d = c THEN "returned" ELSE method[d]
                       /\ status'[d] = IF d = c THEN "error" ELSE status[d]
  BY <1>1, <1>2 DEF TypeOK
<1>6. ASSUME NEW d \in Calls
      PROVE  MethodInv(d)'
  BY <1>1, <1>2, <1>5, ListsKept DEF MethodInv
<1>7. \A d \in Calls : status'[d] = "ok" => nullAnswers'[d] = 0
  BY <1>1, <1>2, <1>5
<1> QED  BY <1>1, <1>2, <1>3, <1>4, <1>6, <1>7, ListsKept DEF IInv

LEMMA AddOnewayTaskStep ==
    ASSUME IInv, NEW c \in Calls, AddOnewayTask(c)
    PROVE  IInv'
<1>1. /\ TypeOK /\ BegunInOrder /\ \A d \in Calls : MethodInv(d)
      /\ InOrder(started) /\ InOrder(mOnewayQueue) /\ WaitsAfter
      /\ \A d \in Calls : status[d] = "ok" => nullAnswers[d] = 0
  BY DEF IInv
<1>2. /\ method[c] = "entered" /\ Oneway(c)
      /\ method' = [method EXCEPT ![c] = "returned"]
      /\ request' = request /\ hidlError' = hidlError
      /\ answers' = answers /\ nullAnswers' = nullAnswers
      /\ task' = task /\ started' = started
  BY DEF AddOnewayTask, ReturnWith, Oneway
<1>3. BegunInOrder'
  BY <1>1, <1>2, MovedOn DEF BegunInOrder
<1>4. /\ ~In(c, started) /\ ~In(c, mOnewayQueue)
      /\ status[c] = "none" /\ nullAnswers[c] \in Nat
  BY <1>1, <1>2 DEF MethodInv, TypeOK
<1>5. CASE ~(Len(mOnewayQueue) < Limit)
  <2>1. mOnewayQueue' = mOnewayQueue /\ status' = [status EXCEPT ![c] = "error"]
    BY <1>5 DEF AddOnewayTask, ReturnWith
  <2>2. \A d \in Calls : /\ method'[d] = IF d = c THEN "returned" ELSE method[d]
                         /\ status'[d] = IF d = c THEN "error" ELSE status[d]
    BY <1>1, <1>2, <2>1 DEF TypeOK
  <2>3. TypeOK'
    BY <1>1, <1>2, <2>1 DEF TypeOK
  <2>4. ASSUME NEW d \in Calls
        PROVE  MethodInv(d)'
    BY <1>1, <1>2, <1>4, <2>1, <2>2, ListsKept DEF MethodInv
  <2>5. \A d \in Calls : status'[d] = "ok" => nullAnswers'[d] = 0
    BY <1>1, <1>2, <2>2
  <2> QED  BY <1>1, <1>2, <1>3, <2>1, <2>3, <2>4, <2>5, ListsKept DEF IInv
<1>6. CASE Len(mOnewayQueue) < Limit
  <2>1. /\ mOnewayQueue' = Append(mOnewayQueue, c) /\ status' = [status EXCEPT ![c] = "ok"]
    BY <1>6 DEF AddOnewayTask, ReturnWith
  <2>2. \A d \in Calls : /\ method'[d] = IF d = c THEN "returned" ELSE method[d]
                         /\ status'[d] = IF d = c THEN "ok" ELSE status[d]
    BY <1>1, <1>2, <2>1 DEF TypeOK
  <2>3. mOnewayQueue \in Seq(Calls) /\ Limit \in Nat
    BY <1>1, LimitAssumption DEF TypeOK
  <2>4. /\ mOnewayQueue' \in Seq(Calls) /\ Len(mOnewayQueue') = Len(mOnewayQueue) + 1
        /\ Len(mOnewayQueue) \in Nat
        /\ \A n : In(n, mOnewayQueue') <=> In(n, mOnewayQueue) \/ n = c
    BY <2>1, <2>3, Appended
  <2>5. TypeOK'
    <3>1. Len(mOnewayQueue') <= Limit
      BY <2>3, <2>4, <1>6
    <3> QED  BY <3>1, <1>1, <1>2, <2>1, <2>4 DEF TypeOK
  <2>6. ASSUME NEW d \in Calls, method[d] # "idle"
        PROVE  c \notin Before[d]
    BY <2>6, <1>1, <1>2 DEF BegunInOrder
  <2>7. \A n : Oneway(n)' = Oneway(n) /\ In(n, started)' = In(n, started)
    BY <1>2 DEF Oneway, Kind, In
  <2>8. ASSUME NEW d \in Calls, Oneway(d), In(d, started) \/ In(d, mOnewayQueue)
        PROVE  method[d] = "returned"
    BY <2>8, <1>1 DEF MethodInv
  <2>9. InOrder(mOnewayQueue)'
    <3>1. \A d \in Calls : (In(d, mOnewayQueue) \/ d = c) /\ Oneway(d) /\ Oneway(c) => c \notin Before[d]
      BY <2>6, <2>8, <1>2
    <3>2. InOrder(Append(mOnewayQueue, c))
      BY <3>1, <1>1, <1>4, <2>3, AppendedInOrder
    <3> QED  BY <3>2, <2>1, <2>7 DEF InOrder
  <2>10. InOrder(started)'
    BY <1>1, <1>2, <2>7 DEF InOrder
  <2>11. WaitsAfter'
    <3> SUFFICES ASSUME NEW a \in Calls, NEW d \in Calls, In(a, started), In(d, mOnewayQueue')
                 PROVE  a # d /\ (Oneway(a) => d \notin Before[a])
      BY <2>7 DEF WaitsAfter, In
    <3>1. CASE d = c
      BY <3>1, <1>4, <2>6, <2>8
    <3>2. CASE d # c
      BY <3>2, <1>1, <2>4 DEF WaitsAfter
    <3> QED  BY <3>1, <3>2
  <2>12. ASSUME NEW d \in Calls
         PROVE  MethodInv(d)'
    <3>1. In(d, mOnewayQueue)' <=> In(d, mOnewayQueue) \/ d = c
      BY <2>4 DEF In
    <3> QED  BY <3>1, <1>1, <1>2, <2>2, <2>7 DEF MethodInv
  <2>13. \A d \in Calls : status'[d] = "ok" => nullAnswers'[d] = 0
    <3>1. nullAnswers[c] = 0
      BY <1>1, <1>2 DEF MethodInv
    <3> QED  BY <3>1, <1>1, <1>2, <2>2
  <2> QED  BY <1>3, <2>5, <2>9, <2>10, <2>11, <2>12, <2>13 DEF IInv
<1> QED  BY <1>5, <1>6

LEMMA CallImplementationStep ==
    ASSUME IInv, NEW c \in Calls, CallImplementation(c)
    PROVE  IInv'
<1>1. /\ TypeOK /\ BegunInOrder /\ \A d \in Calls : MethodInv(d)
      /\ InOrder(started) /\ InOrder(mOnewayQueue) /\ WaitsAfter
      /\ \A d \in Calls : status[d] = "ok" => nullAnswers[d] = 0
  BY DEF IInv
<1>2. /\ method[c] = "entered" /\ ~Oneway(c)
      /\ method' = [method EXCEPT ![c] = "inside"]
      /\ started' = Append(started, c)
      /\ request' = request /\ status' = status /\ hidlError' = hidlError
      /\ answers' = answers /\ nullAnswers' = nullAnswers
      /\ mOnewayQueue' = mOnewayQueue /\ task' = task
  BY DEF CallImplementation, Oneway
<1>3. BegunInOrder'
  BY <1>1, <1>2, MovedOn DEF BegunInOrder
<1>4. ~In(c, started) /\ ~In(c, mOnewayQueue)
  BY <1>1, <1>2 DEF MethodInv
<1>5. /\ started' \in Seq(Calls)
      /\ \A n : In(n, started') <=> In(n, started) \/ n = c
  BY <1>1, <1>2, Appended DEF TypeOK
<1>6. TypeOK'
  BY <1>1, <1>2, <1>5 DEF TypeOK
<1>7. \A n : Oneway(n)' = Oneway(n) /\ In(n, mOnewayQueue)' = In(n, mOnewayQueue)
  BY <1>2 DEF Oneway, Kind, In
<1>8. InOrder(started)'
  <2>1. InOrder(Append(started, c))
    BY <1>1, <1>2, <1>4, AppendedInOrder DEF TypeOK
  <2> QED  BY <2>1, <1>2, <1>7 DEF InOrder
<1>9. InOrder(mOnewayQueue)'
  BY <1>1, <1>2, <1>7 DEF InOrder
<1>10. WaitsAfter'
  <2> SUFFICES ASSUME NEW a \in Calls, NEW d \in Calls, In(a, started'), In(d, mOnewayQueue)
               PROVE  a # d /\ (Oneway(a) => d \notin Before[a])
    BY <1>2, <1>7 DEF WaitsAfter, In
  <2>1. CASE a = c
    BY <2>1, <1>2, <1>4
  <2>2. CASE a # c
    BY <2>2, <1>1, <1>5 DEF WaitsAfter
  <2> QED  BY <2>1, <2>2
<1>11. ASSUME NEW d \in Calls
       PROVE  MethodInv(d)'
  <2>1. In(d, started)' <=> In(d, started) \/ d = c
    BY <1>5 DEF In
  <2>2. method'[d] = IF d = c THEN "inside" ELSE method[d]
    BY <1>1, <1>2 DEF TypeOK
  <2>3. status[c] = "none"
    BY <1>1, <1>2 DEF MethodInv, TypeOK
  <2> QED  BY <2>1, <2>2, <2>3, <1>1, <1>2, <1>7 DEF MethodInv
<1> QED  BY <1>1, <1>2, <1>3, <1>6, <1>8, <1>9, <1>10, <1>11 DEF IInv

LEMMA WrapResultFacts ==
    ASSUME TypeOK, NEW c \in Calls, NEW wraps \in BOOLEAN, WrapResult(c, wraps),
           nullAnswers[c] # 0 => hidlError[c]
    PROVE  /\ hidlError' \in [Calls -> BOOLEAN] /\ nullAnswers' \in [Calls -> Nat]
           /\ \A d \in Calls : d # c => /\ hidlError'[d] = hidlError[d]
                                        /\ nullAnswers'[d] = nullAnswers[d]
           /\ nullAnswers'[c] # 0 => hidlError'[c]
<1>1. /\ hidlError \in [Calls -> BOOLEAN] /\ nullAnswers \in [Calls -> Nat]
  BY DEF TypeOK
<1>2. /\ hidlError' = [hidlError EXCEPT ![c] = hidlError[c] \/ ~wraps]
      /\ nullAnswers' = [nullAnswers EXCEPT ![c] =
                            IF wraps THEN nullAnswers[c] ELSE nullAnswers[c] + 1]
  BY DEF WrapResult
<1>3. hidlError' \in [Calls -> BOOLEAN]
  BY <1>1, <1>2
<1>4. nullAnswers' \in [Calls -> Nat]
  BY <1>1, <1>2
<1>5. hidlError'[c] <=> hidlError[c] \/ ~wraps
  BY <1>1, <1>2
<1>6. wraps => nullAnswers'[c] = nullAnswers[c]
  BY <1>1, <1>2
<1>7. \A d \in Calls : d # c => hidlError'[d] = hidlError[d] /\ nullAnswers'[d] = nullAnswers[d]
  BY <1>1, <1>2
<1> QED  BY <1>3, <1>4, <1>5, <1>6, <1>7

LEMMA CallBackStep ==
    ASSUME IInv, NEW c \in Calls, CallBack(c)
    PROVE  IInv'
<1>1. /\ TypeOK /\ BegunInOrder /\ \A d \in Calls : MethodInv(d)
      /\ InOrder(started) /\ InOrder(mOnewayQueue) /\ WaitsAfter
      /\ \A d \in Calls : status[d] = "ok" => nullAnswers[d] = 0
  BY DEF IInv
<1>2. /\ method[c] = "inside"
      /\ answers' = [answers EXCEPT ![c] = answers[c] + 1] /\ answers[c] < MaxAnswers
      /\ request' = request /\ method' = method /\ status' = status
      /\ mOnewayQueue' = mOnewayQueue /\ task' = task /\ started' = started
  BY DEF CallBack
<1>3. PICK wraps \in BOOLEAN : WrapResult(c, wraps)
  BY DEF CallBack
<1>4. nullAnswers[c] # 0 => hidlError[c]
  BY <1>1 DEF MethodInv
<1>5. /\ hidlError' \in [Calls -> BOOLEAN] /\ nullAnswers' \in [Calls -> Nat]
      /\ \A d \in Calls : d # c => /\ hidlError'[d] = hidlError[d]
                                   /\ nullAnswers'[d] = nullAnswers[d]
      /\ nullAnswers'[c] # 0 => hidlError'[c]
  BY <1>1, <1>3, <1>4, WrapResultFacts
<1>6. TypeOK'
  <2>1. answers' \in [Calls -> 0..MaxAnswers]
    <3>1. answers[c] \in 0..MaxAnswers /\ MaxAnswers = 2
      BY <1>1 DEF TypeOK, MaxAnswers
    <3>2. answers[c] + 1 \in 0..MaxAnswers
      BY <3>1, <1>2
    <3> QED  BY <3>2, <1>1, <1>2 DEF TypeOK
  <2> QED  BY <2>1, <1>1, <1>2, <1>5 DEF TypeOK
<1>7. BegunInOrder'
  BY <1>1, <1>2 DEF BegunInOrder
<1>8. status[c] = "none"
  BY <1>1, <1>2 DEF MethodInv, TypeOK
<1>9. ASSUME NEW d \in Calls
      PROVE  MethodInv(d)'
  <2>1. CASE d = c
    BY <2>1, <1>1, <1>2, <1>5, ListsKept DEF MethodInv
  <2>2. CASE d # c
    BY <2>2, <1>1, <1>2, <1>5, ListsKept DEF MethodInv
  <2> QED  BY <2>1, <2>2
<1>10. \A d \in Calls : status'[d] = "ok" => nullAnswers'[d] = 0
  BY <1>1, <1>2, <1>5, <1>8
<1> QED  BY <1>1, <1>2, <1>6, <1>7, <1>9, <1>10, ListsKept DEF IInv

LEMMA FinishStep ==
    ASSUME IInv, NEW c \in Calls, Finish(c)
    PROVE  IInv'
<1>1. /\ TypeOK /\ BegunInOrder /\ \A d \in Calls : MethodInv(d)
      /\ InOrder(started) /\ InOrder(mOnewayQueue) /\ WaitsAfter
      /\ \A d \in Calls : status[d] = "ok" => nullAnswers[d] = 0
  BY DEF IInv
<1>2. /\ method[c] = "inside"
      /\ method' = [method EXCEPT ![c] = "returned"]
      /\ request' = request /\ answers' = answers
      /\ mOnewayQueue' = mOnewayQueue /\ task' = task /\ started' = started
  BY DEF Finish, ReturnWith
<1>3. PICK s \in {"ok", "error"} :
        status' = [status EXCEPT ![c] = IF hidlError'[c] THEN "error" ELSE s]
  BY DEF Finish, ReturnWith
<1>4. nullAnswers[c] # 0 => hidlError[c]
  BY <1>1 DEF MethodInv
<1>5. /\ hidlError' \in [Calls -> BOOLEAN] /\ nullAnswers' \in [Calls -> Nat]
      /\ \A d \in Calls : d # c => /\ hidlError'[d] = hidlError[d]
                                   /\ nullAnswers'[d] = nullAnswers[d]
      /\ nullAnswers'[c] # 0 => hidlError'[c]
  <2>1. CASE Kind(c) = "elided"
    <3>1. PICK wraps \in BOOLEAN : WrapResult(c, wraps)
      BY <2>1 DEF Finish
    <3> QED  BY <3>1, <1>1, <1>4, WrapResultFacts
  <2>2. CASE Kind(c) # "elided"
    <3>1. hidlError' = hidlError /\ nullAnswers' = nullAnswers
      BY <2>2 DEF Finish
    <3> QED  BY <3>1, <1>1, <1>4 DEF TypeOK
  <2> QED  BY <2>1, <2>2
<1>6. /\ \A d \in Calls : method'[d] = IF d = c THEN "returned" ELSE method[d]
      /\ status' \in [Calls -> {"none", "ok", "error"}]
      /\ \A d \in Calls : d # c => status'[d] = status[d]
      /\ status'[c] = "ok" => ~hidlError'[c]
      /\ status'[c] # "none"
  BY <1>1, <1>2, <1>3 DEF TypeOK
<1>7. TypeOK'
  BY <1>1, <1>2, <1>5, <1>6 DEF TypeOK
<1>8. BegunInOrder'
  BY <1>1, <1>2, MovedOn DEF BegunInOrder
<1>9. ~Oneway(c)
  BY <1>1, <1>2 DEF MethodInv
<1>10. ASSUME NEW d \in Calls
       PROVE  MethodInv(d)'
  <2>1. CASE d = c
    BY <2>1, <1>1, <1>2, <1>5, <1>6, <1>9, ListsKept DEF MethodInv
  <2>2. CASE d # c
    BY <2>2, <1>1, <1>2, <1>5, <1>6, ListsKept DEF MethodInv
  <2> QED  BY <2>1, <2>2
<1>11. \A d \in Calls : status'[d] = "ok" => nullAnswers'[d] = 0
  BY <1>1, <1>5, <1>6
<1> QED  BY <1>1, <1>2, <1>7, <1>8, <1>10, <1>11, ListsKept DEF IInv

LEMMA StartTaskStep == IInv /\ StartTask => IInv'
<1> SUFFICES ASSUME IInv, StartTask PROVE IInv'
  OBVIOUS
<1> DEFINE h == Head(mOnewayQueue)
<1>1. /\ TypeOK /\ BegunInOrder /\ \A d \in Calls : MethodInv(d)
      /\ InOrder(started) /\ InOrder(mOnewayQueue) /\ WaitsAfter
      /\ \A d \in Calls : status[d] = "ok" => nullAnswers[d] = 0
  BY DEF IInv
<1>2. /\ mOnewayQueue # <<>> /\ task' = <<h>>
      /\ mOnewayQueue' = Tail(mOnewayQueue) /\ started' = Append(started, h)
      /\ request' = request /\ method' = method /\ status' = status
      /\ hidlError' = hidlError /\ answers' = answers /\ nullAnswers' = nullAnswers
  BY DEF StartTask
<1>3. mOnewayQueue \in Seq(Calls) /\ started \in Seq(Calls)
      /\ Len(mOnewayQueue) <= Limit /\ Limit \in Nat
  BY <1>1, LimitAssumption DEF TypeOK
<1>4. /\ mOnewayQueue' \in Seq(Calls) /\ h \in Calls /\ In(h, mOnewayQueue)
      /\ Len(mOnewayQueue') = Len(mOnewayQueue) - 1 /\ Len(mOnewayQueue) \in Nat
      /\ InOrder(Tail(mOnewayQueue))
      /\ \A n : In(n, mOnewayQueue') => In(n, mOnewayQueue) /\ n # h
      /\ \A n : In(n, mOnewayQueue) /\ Oneway(n) /\ Oneway(h) => n \notin Before[h]
  BY <1>1, <1>2, <1>3, HeadTaken
<1> HIDE DEF h
<1>5. /\ started' \in Seq(Calls)
      /\ \A n : In(n, started') <=> In(n, started) \/ n = h
  BY <1>2, <1>3, <1>4, Appended
<1>6. TypeOK'
  <2>1. task' \in Seq(Calls)
    BY <1>2, <1>4
  <2>2. Len(mOnewayQueue') <= Limit
    BY <1>3, <1>4
  <2> QED  BY <2>1, <2>2, <1>1, <1>2, <1>4, <1>5 DEF TypeOK
<1>7. BegunInOrder'
  BY <1>1, <1>2 DEF BegunInOrder
<1>8. \A n : Oneway(n)' = Oneway(n)
  BY <1>2 DEF Oneway, Kind
<1>9. Oneway(h) /\ method[h] = "returned" /\ status[h] = "ok" /\ ~In(h, started)
  BY <1>1, <1>4 DEF MethodInv, WaitsAfter
<1>10. InOrder(started)'
  <2>1. \A d \in Calls : (In(d, started) \/ d = h) /\ Oneway(d) /\ Oneway(h) => h \notin Before[d]
    BY <1>1, <1>4 DEF WaitsAfter
  <2>2. InOrder(Append(started, h))
    BY <2>1, <1>1, <1>3, <1>4, <1>9, AppendedInOrder
  <2> QED  BY <2>2, <1>2, <1>8 DEF InOrder
<1>11. InOrder(mOnewayQueue)'
  BY <1>2, <1>4, <1>8 DEF InOrder
<1>12. ASSUME NEW d \in Calls, In(d, mOnewayQueue)
       PROVE  Oneway(d)
  BY <1>1, <1>12 DEF MethodInv
<1>13. WaitsAfter'
  <2> SUFFICES ASSUME NEW a \in Calls, NEW d \in Calls, In(a, started'), In(d, mOnewayQueue')
               PROVE  a # d /\ (Oneway(a) => d \notin Before[a])
    BY <1>8 DEF WaitsAfter, In
  <2>1. In(d, mOnewayQueue) /\ d # h /\ Oneway(d)
    BY <1>4, <1>12
  <2>2. CASE a = h
    BY <2>1, <2>2, <1>4, <1>9
  <2>3. CASE a # h
    BY <2>1, <2>3, <1>1, <1>5 DEF WaitsAfter
  <2> QED  BY <2>2, <2>3
<1>14. ASSUME NEW d \in Calls
       PROVE  MethodInv(d)'
  <2>1. /\ In(d, started)' <=> In(d, started) \/ d = h
        /\ In(d, mOnewayQueue)' => In(d, mOnewayQueue)
    BY <1>4, <1>5 DEF In
  <2> QED  BY <2>1, <1>1, <1>2, <1>8, <1>9 DEF MethodInv
<1> QED  BY <1>1, <1>2, <1>6, <1>7, <1>10, <1>11, <1>13, <1>14 DEF IInv

LEMMA OnlyTaskStep ==
    ASSUME IInv, task' \in Seq(Calls),
           request' = request, method' = method, status' = status, hidlError' = hidlError,
           answers' = answers, nullAnswers' = nullAnswers,
           mOnewayQueue' = mOnewayQueue, started' = started
    PROVE  IInv'
<1>1. TypeOK' /\ BegunInOrder'
  BY DEF IInv, TypeOK, BegunInOrder
<1>2. ASSUME NEW d \in Calls
      PROVE  MethodInv(d)'
  BY ListsKept DEF IInv, MethodInv
<1> QED  BY <1>1, <1>2, ListsKept DEF IInv

LEMMA StepInv == IInv /\ [Next]_vars => IInv'
<1> SUFFICES ASSUME IInv, [Next]_vars PROVE IInv'
  OBVIOUS
<1>1. ASSUME NEW c \in Calls, Begin(c) \/ Step(c)
      PROVE  IInv'
  BY <1>1, BeginStep, RefuseStep, AddOnewayTaskStep, CallImplementationStep, CallBackStep,
     FinishStep DEF Step
<1>2. CASE FinishTask
  BY <1>2, OnlyTaskStep, EmptySeq DEF FinishTask
<1>3. CASE UNCHANGED vars
  <2>1. task \in Seq(Calls)
    BY DEF IInv, TypeOK
  <2> QED  BY <1>3, <2>1, OnlyTaskStep DEF vars
<1> QED  BY <1>1, <1>2, <1>3, StartTaskStep DEF Next, Rest

LEMMA InvariantHolds == Spec => []IInv
BY InitInv, StepInv, PTL DEF Spec

(* A caller that got nullptr in place of a result gets an error, too       *)
(* (the wrapping of results in generatePassthroughMethod).                 *)
THEOREM NullIsReportedHolds == Spec => []NullIsReported
<1>1. IInv => NullIsReported
  BY DEF IInv, NullIsReported
<1> QED  BY <1>1, InvariantHolds, PTL

(* The queue has its bound; one-way calls of one thread are carried out in *)
(* order, each at most once, and only those that were accepted             *)
(* (addOnewayTask).                                                        *)
THEOREM QueueIsSoundHolds == Spec => []QueueIsSound
<1>1. IInv => QueueIsSound
  <2> SUFFICES ASSUME IInv PROVE QueueIsSound
    OBVIOUS
  <2>1. TypeOK /\ InOrder(started) /\ \A c \in Calls : MethodInv(c)
    BY DEF IInv
  <2>2. ASSUME NEW k \in DOMAIN started, Kind(started[k]) = "oneway"
        PROVE  status[started[k]] # "error"
    <3>1. In(started[k], started)
      BY DEF In
    <3>2. started[k] \in Calls
      BY <3>1, <2>1, ElementIn DEF TypeOK
    <3> QED  BY <3>1, <3>2, <2>1, <2>2 DEF MethodInv, Oneway
  <2>3. OnewayInOrder
    BY <2>1, <2>2 DEF OnewayInOrder, InOrder, Oneway
  <2> QED  BY <2>1, <2>3 DEF QueueIsSound
<1> QED  BY <1>1, InvariantHolds, PTL
=============================================================================
