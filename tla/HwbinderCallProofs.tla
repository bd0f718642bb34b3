------------------------- MODULE HwbinderCallProofs -------------------------
(***************************************************************************)
(* Proxy, stub and hwbinder keep the contract of a call, for every number  *)
(* of calls, of clients and of threads of the server.                      *)
(***************************************************************************)
EXTENDS HwbinderCallProperties, TLAPS

Oneway(c) == Kind(c) = "oneway"
Waiting(c) == (\E i \in DOMAIN asyncTodo : asyncTodo[i] = c) \/ c \in twoWay

(* Where a call is in the proxy, and what the proxy knows by then.         *)
ProxyInv(c) ==
    /\ (status[c] # "none") <=> (proxy[c] = "returned")
    /\ proxy[c] \in {"transact", "read", "answer"} => ~Oneway(c)
    /\ proxy[c] = "answer" => Kind(c) = "callback"
    /\ proxy[c] \in {"read", "answer"} => reply[c] \in {"ok", "short"}
    /\ proxy[c] = "exit" \/ status[c] = "ok" => Oneway(c) \/ reply[c] \in {"ok", "short"}
    /\ answers[c] = IF Kind(c) = "callback" /\ (proxy[c] = "exit" \/ status[c] = "ok")
                    THEN 1 ELSE 0

(* A transaction is with the server only if the proxy sent it, once; while *)
(* it may still be carried out no caller was told that it failed.          *)
SentInv(c) ==
    /\ Waiting(c) => stub[c] = "none"
    /\ proxy[c] \in {"idle", "entered"} => ~Waiting(c) /\ stub[c] = "none"
    /\ Waiting(c) \/ stub[c] = "entered" =>
        IF Oneway(c) THEN status[c] # "error"
                     ELSE proxy[c] = "transact" \/ server = "down"

(* Where a call is in the stub, and what the stub has done by then.        *)
StubInv(c) ==
    /\ stub[c] \in {"none", "entered"} => started[c] = 0 /\ callbacks[c] = 0 /\ reply[c] = "none"
    /\ stub[c] = "serving" => started[c] = 1 /\ request[c].fits
    /\ stub[c] = "serving" /\ callbacks[c] = 0 => reply[c] = "none"
    /\ stub[c] = "done" => started[c] = IF request[c].fits THEN 1 ELSE 0
    /\ stub[c] = "done" /\ ~request[c].fits => reply[c] \notin {"ok", "short"}
    /\ stub[c] = "done" /\ ~Oneway(c) => reply[c] # "none"
    /\ Kind(c) # "callback" => callbacks[c] = 0
    /\ callbacks[c] = 2 => server = "down"

CallInv(c) == ProxyInv(c) /\ SentInv(c) /\ StubInv(c)

\* a transaction waits at most once, and among those of its kind
TodoInv ==
    /\ \A i, j \in DOMAIN asyncTodo : asyncTodo[i] = asyncTodo[j] => i = j
    /\ \A i \in DOMAIN asyncTodo : Oneway(asyncTodo[i])
    /\ \A c \in twoWay : ~Oneway(c)

\* the stub lets an implementation return only after it called _hidl_cb once
CalledBackOnce ==
    \A c \in Calls :
        stub[c] = "done" /\ request[c].fits /\ Kind(c) = "callback" => callbacks[c] = 1

IInv ==
    /\ TypeOK
    /\ TodoInv
    /\ \A c \in Calls : CallInv(c)
    /\ CalledBackOnce

-----------------------------------------------------------------------------
(* A step that leaves a call alone, but perhaps takes its transaction out  *)
(* of hwbinder or ends the server.                                         *)
LeavesAlone(d) ==
    /\ proxy'[d] = proxy[d] /\ status'[d] = status[d] /\ answers'[d] = answers[d]
    /\ stub'[d] = stub[d] /\ callbacks'[d] = callbacks[d]
    /\ reply'[d] = reply[d] /\ started'[d] = started[d]
    /\ Waiting(d)' => Waiting(d)

LEMMA LeftAlone ==
    ASSUME NEW d \in Calls, CallInv(d), LeavesAlone(d), request' = request,
           server = "down" => server' = "down"
    PROVE  CallInv(d)'
<1>1. Kind(d)' = Kind(d) /\ Oneway(d)' = Oneway(d)
  BY DEF Kind, Oneway
<1>2. ProxyInv(d)'
  BY <1>1 DEF CallInv, ProxyInv, LeavesAlone
<1>3. SentInv(d)'
  BY <1>1 DEF CallInv, SentInv, LeavesAlone
<1>4. StubInv(d)'
  BY <1>1 DEF CallInv, StubInv, LeavesAlone
<1> QED
  BY <1>2, <1>3, <1>4 DEF CallInv

LEMMA Binderless ==
    ASSUME UNCHANGED binder, request' = request
    PROVE  /\ \A d \in Calls : Waiting(d)' = Waiting(d)
           /\ TodoInv => TodoInv'
  BY DEF binder, Waiting, TodoInv, Oneway, Kind

(* The steps of the proxy that do not reach hwbinder.                      *)
LEMMA ProxyKeeps ==
    ASSUME IInv, NEW c \in Calls,
           Begin(c) \/ RefuseNullCallback(c) \/ FailToSend(c) \/ ReceiveError(c)
             \/ ReceiveReply(c) \/ FailToRead(c) \/ Read(c) \/ Answer(c) \/ Exit(c)
    PROVE  IInv'
<1> USE DEF GoTo, ReturnWith
<1>1. /\ request' = request /\ server' = server /\ UNCHANGED binder
      /\ stub' = stub /\ callbacks' = callbacks /\ reply' = reply /\ started' = started
  BY DEF Begin, RefuseNullCallback, FailToSend, ReceiveError, ReceiveReply, FailToRead, Read,
         Answer, Exit, service
<1>2. ProxyInv(c) /\ SentInv(c) /\ StubInv(c) /\ TypeOK
  BY DEF IInv, CallInv
<1>3. Kind(c)' = Kind(c) /\ Oneway(c)' = Oneway(c) /\ Kind(c) \in Kinds
  BY <1>1, <1>2 DEF Kind, Oneway, TypeOK, RequestType
<1>4. TypeOK'
  <2>1. answers' \in [Calls -> 0 .. 1]
    BY <1>2 DEF Begin, RefuseNullCallback, FailToSend, ReceiveError, ReceiveReply, FailToRead,
         Read, Answer, Exit, TypeOK, ProxyInv
  <2>2. proxy' \in [Calls -> Places] /\ status' \in [Calls -> {"none", "ok", "error"}]
    BY <1>2 DEF Begin, RefuseNullCallback, FailToSend, ReceiveError, ReceiveReply, FailToRead,
         Read, Answer, Exit, TypeOK, Places
  <2> QED
    BY <1>1, <1>2, <2>1, <2>2 DEF TypeOK, binder
<1>5. ProxyInv(c)'
  BY <1>1, <1>2, <1>3 DEF Begin, RefuseNullCallback, FailToSend, ReceiveError, ReceiveReply,
     FailToRead, Read, Answer, Exit, TypeOK, ProxyInv, Transactable, Oneway
<1>6. SentInv(c)'
  BY <1>1, <1>2, <1>3, Binderless DEF Begin, RefuseNullCallback, FailToSend, ReceiveError,
     ReceiveReply, FailToRead, Read, Answer, Exit, TypeOK, SentInv, StubInv, ProxyInv, Transactable
<1>7. StubInv(c)'
  BY <1>1, <1>2, <1>3 DEF StubInv
<1>8. \A d \in Calls \ {c} : LeavesAlone(d)
  BY <1>1, <1>2, Binderless DEF Begin, RefuseNullCallback, FailToSend, ReceiveError, ReceiveReply,
     FailToRead, Read, Answer, Exit, TypeOK, LeavesAlone
<1>9. \A d \in Calls : CallInv(d)'
  BY <1>1, <1>5, <1>6, <1>7, <1>8, LeftAlone DEF CallInv, IInv
<1>10. TodoInv' /\ CalledBackOnce'
  BY <1>1, Binderless DEF IInv, CalledBackOnce, Kind
<1> QED
  BY <1>4, <1>9, <1>10 DEF IInv

LEMMA TransactOnewayKeeps ==
    ASSUME IInv, NEW c \in Calls, TransactOneway(c)
    PROVE  IInv'
<1> USE DEF TransactOneway, Transactable, GoTo, service
<1>1. ProxyInv(c) /\ SentInv(c) /\ StubInv(c) /\ TypeOK /\ TodoInv
  BY DEF IInv, CallInv
<1>2. Kind(c)' = Kind(c) /\ Oneway(c)' = Oneway(c) /\ Oneway(c)
  BY DEF Kind, Oneway
<1>3. \A i \in DOMAIN asyncTodo : asyncTodo[i] # c
  BY <1>1 DEF SentInv, Waiting
<1>4. /\ asyncTodo' \in Seq(Calls) /\ Len(asyncTodo') = Len(asyncTodo) + 1
      /\ DOMAIN asyncTodo = 1 .. Len(asyncTodo) /\ DOMAIN asyncTodo' = 1 .. Len(asyncTodo) + 1
      /\ Len(asyncTodo) \in Nat
      /\ \A i \in DOMAIN asyncTodo : asyncTodo'[i] = asyncTodo[i]
      /\ asyncTodo'[Len(asyncTodo) + 1] = c
  BY <1>1 DEF TypeOK
<1>5. TypeOK'
  BY <1>1, <1>4 DEF TypeOK, Places
<1>6. TodoInv'
  BY <1>1, <1>2, <1>3, <1>4 DEF TodoInv, Oneway, Kind
<1>7. ProxyInv(c)' /\ StubInv(c)'
  BY <1>1, <1>2 DEF ProxyInv, StubInv, TypeOK, Oneway
<1>8. c \notin twoWay
  BY <1>1 DEF SentInv, Waiting
<1>9. SentInv(c)'
  BY <1>1, <1>2 DEF SentInv, TypeOK, ProxyInv
<1>10. \A d \in Calls \ {c} : LeavesAlone(d)
  <2> SUFFICES ASSUME NEW d \in Calls \ {c}
               PROVE  LeavesAlone(d)
    OBVIOUS
  <2>1. Waiting(d)' => Waiting(d)
    BY <1>4 DEF Waiting
  <2> QED
    BY <1>1, <2>1 DEF LeavesAlone, TypeOK
<1>11. \A d \in Calls : CallInv(d)'
  BY <1>7, <1>9, <1>10, LeftAlone DEF CallInv, IInv
<1> QED
  BY <1>5, <1>6, <1>11 DEF IInv, CalledBackOnce, Kind

LEMMA TransactKeeps ==
    ASSUME IInv, NEW c \in Calls, Transact(c)
    PROVE  IInv'
<1> USE DEF Transact, Transactable, GoTo, service
<1>1. ProxyInv(c) /\ SentInv(c) /\ StubInv(c) /\ TypeOK
  BY DEF IInv, CallInv
<1>2. Kind(c)' = Kind(c) /\ Oneway(c)' = Oneway(c) /\ ~Oneway(c)
  BY DEF Kind, Oneway
<1>3. TypeOK'
  BY <1>1 DEF TypeOK, Places
<1>4. ProxyInv(c)' /\ StubInv(c)' /\ SentInv(c)'
  BY <1>1, <1>2 DEF ProxyInv, StubInv, SentInv, TypeOK, Oneway
<1>5. \A d \in Calls \ {c} : LeavesAlone(d)
  BY <1>1 DEF LeavesAlone, TypeOK, Waiting
<1>6. \A d \in Calls : CallInv(d)'
  BY <1>4, <1>5, LeftAlone DEF CallInv, IInv
<1> QED
  BY <1>2, <1>3, <1>6 DEF IInv, CalledBackOnce, Kind, TodoInv, Oneway

(* A thread of the server takes a transaction: what was waiting for it is  *)
(* now in the stub, and nowhere else.                                      *)
LEMMA TakeKeeps ==
    ASSUME IInv, NEW c \in Calls, Waiting(c), ~Waiting(c)',
           TypeOK', TodoInv', UNCHANGED <<request, client, server, callbacks, reply, started>>,
           stub' = [stub EXCEPT ![c] = "entered"],
           \A d \in Calls \ {c} : Waiting(d)' => Waiting(d)
    PROVE  IInv'
<1> USE DEF client
<1>1. ProxyInv(c) /\ SentInv(c) /\ StubInv(c) /\ TypeOK
  BY DEF IInv, CallInv
<1>2. Kind(c)' = Kind(c) /\ Oneway(c)' = Oneway(c)
  BY DEF Kind, Oneway
<1>3. ProxyInv(c)' /\ StubInv(c)'
  BY <1>1, <1>2 DEF ProxyInv, StubInv, SentInv, TypeOK
<1>4. SentInv(c)'
  BY <1>1, <1>2 DEF SentInv, TypeOK
<1>5. \A d \in Calls \ {c} : LeavesAlone(d)
  BY <1>1 DEF LeavesAlone, TypeOK
<1>6. \A d \in Calls : CallInv(d)'
  BY <1>3, <1>4, <1>5, LeftAlone DEF CallInv, IInv
<1>7. CalledBackOnce'
  BY <1>1 DEF IInv, CalledBackOnce, Kind, TypeOK
<1> QED
  BY <1>6, <1>7 DEF IInv

LEMMA TakeOnewayKeeps ==
    ASSUME IInv, TakeOneway
    PROVE  IInv'
<1>1. TypeOK /\ TodoInv
  BY DEF IInv
<1>2. PICK c \in Calls : c = Head(asyncTodo)
  BY <1>1 DEF TypeOK, TakeOneway
<1>3. /\ asyncTodo \in Seq(Calls) /\ asyncTodo # <<>> /\ Len(asyncTodo) \in Nat \ {0}
      /\ DOMAIN asyncTodo = 1 .. Len(asyncTodo) /\ c = asyncTodo[1]
      /\ asyncTodo' \in Seq(Calls) /\ DOMAIN asyncTodo' = 1 .. Len(asyncTodo) - 1
      /\ \A i \in DOMAIN asyncTodo' : asyncTodo'[i] = asyncTodo[i + 1]
  BY <1>1, <1>2 DEF TypeOK, TakeOneway
<1>4. /\ stub' = [stub EXCEPT ![c] = "entered"]
      /\ UNCHANGED <<request, client, server, twoWay, callbacks, reply, started>>
  BY <1>2 DEF TakeOneway
<1>5. \A i \in DOMAIN asyncTodo' : i + 1 \in DOMAIN asyncTodo
  BY <1>3
<1>6. \A i \in DOMAIN asyncTodo' : asyncTodo'[i] # c
  <2> SUFFICES ASSUME NEW i \in 1 .. Len(asyncTodo) - 1, asyncTodo[i + 1] = asyncTodo[1]
               PROVE  FALSE
    BY <1>3
  <2>1. i + 1 \in DOMAIN asyncTodo /\ 1 \in DOMAIN asyncTodo /\ i + 1 # 1
    BY <1>3
  <2> QED
    BY <1>1, <2>1 DEF TodoInv
<1>7. Waiting(c) /\ Oneway(c) /\ c \notin twoWay
  <2>1. 1 \in DOMAIN asyncTodo
    BY <1>3
  <2> QED
    BY <1>1, <1>3, <2>1 DEF Waiting, TodoInv
<1>8. ~Waiting(c)'
  BY <1>4, <1>6, <1>7 DEF Waiting
<1>9. \A d \in Calls \ {c} : Waiting(d)' => Waiting(d)
  BY <1>3, <1>4, <1>5, Zenon DEF Waiting
<1>10. TodoInv'
  <2>1. \A i, j \in DOMAIN asyncTodo' : asyncTodo'[i] = asyncTodo'[j] => i = j
    <3> SUFFICES ASSUME NEW i \in DOMAIN asyncTodo', NEW j \in DOMAIN asyncTodo',
                        asyncTodo[i + 1] = asyncTodo[j + 1]
                 PROVE  i = j
      BY <1>3
    <3>1. i + 1 = j + 1 /\ i \in Nat /\ j \in Nat
      BY <1>1, <1>3, <1>5 DEF TodoInv
    <3> QED
      BY <3>1
  <2> QED
    BY <1>1, <1>3, <1>4, <1>5, <2>1 DEF TodoInv, Oneway, Kind
<1>11. TypeOK'
  BY <1>1, <1>3, <1>4 DEF TypeOK, client
<1> QED
  BY <1>3, <1>4, <1>7, <1>8, <1>9, <1>10, <1>11, TakeKeeps

LEMMA TakeTwoWayKeeps ==
    ASSUME IInv, NEW c \in Calls, TakeTwoWay(c)
    PROVE  IInv'
<1> USE DEF TakeTwoWay
<1>1. TypeOK /\ TodoInv
  BY DEF IInv
<1>2. Waiting(c) /\ ~Waiting(c)'
  BY <1>1 DEF Waiting, TodoInv
<1>3. \A d \in Calls \ {c} : Waiting(d)' => Waiting(d)
  BY DEF Waiting
<1>4. TodoInv'
  BY <1>1 DEF TodoInv, Oneway, Kind
<1>5. TypeOK'
  BY <1>1 DEF TypeOK, client
<1> QED
  BY <1>2, <1>3, <1>4, <1>5, TakeKeeps

(* The steps of the stub: with a server that is up, and on a transaction   *)
(* that waits no more.                                                     *)
LEMMA StubKeeps ==
    ASSUME IInv, NEW c \in Calls,
           Refuse(c) \/ Enter(c) \/ CallBack(c) \/ CallBackAgain(c) \/ Finish(c)
    PROVE  IInv'
<1> USE DEF Serving, Sent
<1>1. /\ UNCHANGED <<request, client, binder>> /\ server = "up"
      /\ stub[c] \in {"entered", "serving"}
  BY DEF Refuse, Enter, CallBack, CallBackAgain, Finish
<1>2. ProxyInv(c) /\ SentInv(c) /\ StubInv(c) /\ TypeOK
  BY DEF IInv, CallInv
<1>3. Kind(c)' = Kind(c) /\ Oneway(c)' = Oneway(c) /\ Kind(c) \in Kinds
  BY <1>1, <1>2 DEF Kind, Oneway, TypeOK, RequestType
<1>4. server' \in {"up", "down"}
  BY <1>1 DEF Refuse, Enter, CallBack, CallBackAgain, Finish
<1>5. TypeOK'
  <2>1. /\ stub' \in [Calls -> {"none", "entered", "serving", "done"}]
        /\ callbacks' \in [Calls -> 0 .. 2]
        /\ started' \in [Calls -> 0 .. 1]
    BY <1>2 DEF Refuse, Enter, CallBack, CallBackAgain, Finish, TypeOK, StubInv
  <2>2. reply' \in [Calls -> {"none", "ok", "short", "error"}]
    BY <1>2 DEF Refuse, Enter, CallBack, CallBackAgain, Finish, TypeOK
  <2> QED
    BY <1>1, <1>2, <1>4, <2>1, <2>2 DEF TypeOK, client, binder
<1>6. StubInv(c)'
  BY <1>1, <1>2, <1>3 DEF Refuse, Enter, CallBack, CallBackAgain, Finish, TypeOK, StubInv, Oneway,
     Kinds
<1>7. ProxyInv(c)'
  <2>1. reply[c] \in {"ok", "short"} => reply'[c] = reply[c]
    BY <1>2 DEF Refuse, Enter, CallBack, CallBackAgain, Finish, TypeOK
  <2> QED
    BY <1>1, <1>2, <1>3, <2>1 DEF ProxyInv, client
<1>8. SentInv(c)'
  <2>1. ~Waiting(c)' /\ stub'[c] # "none"
    BY <1>1, <1>2, Binderless DEF SentInv, Refuse, Enter, CallBack, CallBackAgain, Finish, TypeOK
  <2>2. stub'[c] # "entered"
    BY <1>1, <1>2 DEF Refuse, Enter, CallBack, CallBackAgain, Finish, TypeOK
  <2> QED
    BY <1>1, <1>2, <2>1, <2>2 DEF SentInv, client
<1>9. \A d \in Calls \ {c} : LeavesAlone(d)
  BY <1>1, <1>2, Binderless DEF Refuse, Enter, CallBack, CallBackAgain, Finish, TypeOK,
     LeavesAlone, client
<1>10. \A d \in Calls : CallInv(d)'
  BY <1>1, <1>6, <1>7, <1>8, <1>9, LeftAlone DEF CallInv, IInv
<1>11. TodoInv'
  BY <1>1, Binderless DEF IInv
<1>12. CalledBackOnce'
  BY <1>1, <1>2 DEF IInv, CalledBackOnce, Kind, TypeOK, Refuse, Enter, CallBack, CallBackAgain,
     Finish
<1> QED
  BY <1>5, <1>10, <1>11, <1>12 DEF IInv

LEMMA DieKeeps ==
    ASSUME IInv, Die
    PROVE  IInv'
<1>1. TypeOK' /\ TodoInv' /\ CalledBackOnce'
  BY Binderless DEF Die, IInv, TypeOK, client, binder, service, CalledBackOnce, Kind
<1>2. \A d \in Calls : LeavesAlone(d)
  BY Binderless DEF Die, LeavesAlone, client, service
<1>3. \A d \in Calls : CallInv(d)'
  BY <1>2, LeftAlone DEF Die, IInv
<1> QED
  BY <1>1, <1>3 DEF IInv

LEMMA StepKeeps ==
    ASSUME IInv, [Next]_vars
    PROVE  IInv'
<1>1. ASSUME UNCHANGED vars
      PROVE  IInv'
  <2>1. TypeOK' /\ TodoInv' /\ CalledBackOnce'
    BY <1>1, Binderless DEF vars, IInv, TypeOK, client, binder, service, CalledBackOnce, Kind
  <2>2. \A d \in Calls : LeavesAlone(d)
    BY <1>1, Binderless DEF vars, LeavesAlone, client, binder, service
  <2>3. \A d \in Calls : CallInv(d)'
    BY <1>1, <2>2, LeftAlone DEF vars, IInv
  <2> QED
    BY <2>1, <2>3 DEF IInv
<1>2. ASSUME NEW c \in Calls, Begin(c) \/ ProxyStep(c) \/ StubStep(c)
      PROVE  IInv'
  BY <1>2, ProxyKeeps, TransactOnewayKeeps, TransactKeeps, TakeTwoWayKeeps, StubKeeps
     DEF ProxyStep, StubStep
<1> QED
  BY <1>1, <1>2, TakeOnewayKeeps, DieKeeps DEF Next, Rest

LEMMA InitHolds ==
    ASSUME Init
    PROVE  IInv
<1>1. request \in [Calls -> RequestType]
  BY RequestsAssumption DEF Init
<1>2. TypeOK
  BY <1>1 DEF Init, TypeOK, Places
<1>3. TodoInv /\ CalledBackOnce
  BY DEF Init, TodoInv, CalledBackOnce
<1>4. \A c \in Calls : CallInv(c)
  BY DEF Init, CallInv, ProxyInv, SentInv, StubInv, Waiting
<1> QED
  BY <1>2, <1>3, <1>4 DEF IInv

LEMMA IInvHolds == Spec => []IInv
<1> QED
  BY InitHolds, StepKeeps, PTL DEF Spec

-----------------------------------------------------------------------------
(* Every variable has its type; in particular the implementation is        *)
(* entered at most once for a call, and the callback of the caller runs at *)
(* most once.                                                              *)
THEOREM TypeCorrect == Spec => []TypeOK
<1>1. IInv => TypeOK
  BY DEF IInv
<1> QED
  BY <1>1, IInvHolds, PTL

(* A call that returned without an error was accepted by the server and,   *)
(* unless its reply is sent by a callback, is over there.                  *)
THEOREM OkIsFinishedHolds == Spec => []OkIsFinished
<1>1. ASSUME IInv
      PROVE  OkIsFinished
  <2> SUFFICES ASSUME NEW c \in Calls, status[c] = "ok", Kind(c) # "oneway"
               PROVE  request[c].fits /\ (Kind(c) # "callback" => stub[c] = "done")
    BY DEF OkIsFinished
  <2>1. ProxyInv(c) /\ StubInv(c) /\ TypeOK
    BY <1>1 DEF IInv, CallInv
  <2>2. reply[c] \in {"ok", "short"}
    BY <2>1 DEF ProxyInv, Oneway
  <2>3. request[c].fits
    BY <2>1, <2>2 DEF StubInv, TypeOK
  <2>4. Kind(c) # "callback" => callbacks[c] = 0
    BY <2>1 DEF StubInv
  <2> QED
    BY <2>1, <2>2, <2>3, <2>4 DEF StubInv, TypeOK
<1> QED
  BY <1>1, IInvHolds, PTL

-----------------------------------------------------------------------------
(* The refinement: of the steps of a call only those that a caller can     *)
(* notice are steps of the contract.                                       *)

LEMMA MappedInit ==
    ASSUME Init
    PROVE  Contract!Init
<1>1. request \in [Calls -> RequestType]
  BY RequestsAssumption DEF Init
<1> QED
  BY <1>1 DEF Init, Contract!Init, Contract!Kinds, Kinds, Kind, CallState, RequestType

States == [c \in Calls |-> CallState(c)]
KindOf == [c \in Calls |-> Kind(c)]

\* the variables of the contract, which the provers see as functions
LEMMA Mapped ==
    /\ \A c \in Calls : States[c] = CallState(c) /\ KindOf[c] = Kind(c)
    /\ Contract!vars = <<KindOf, States, started, answers>>
    /\ Contract!vars' = <<KindOf', States', started', answers'>>
  BY DEF States, KindOf, Contract!vars

\* what a step of the call c does to the states of all calls
LEMMA StateOf ==
    ASSUME NEW c \in Calls, request' = request,
           \A d \in Calls \ {c} : proxy'[d] = proxy[d] /\ status'[d] = status[d]
    PROVE  /\ States' = [States EXCEPT ![c] = CallState(c)']
           /\ KindOf' = KindOf
  BY DEF States, KindOf, CallState, Kind

\* a reply with the status OK is from an implementation that was entered
LEMMA Replied ==
    ASSUME IInv, NEW c \in Calls, reply[c] \in {"ok", "short"}
    PROVE  started[c] = 1
  BY DEF IInv, CallInv, StubInv, TypeOK

LEMMA SilentStep ==
    ASSUME IInv, NEW c \in Calls, request' = request, started' = started, answers' = answers,
           \A d \in Calls \ {c} : proxy'[d] = proxy[d] /\ status'[d] = status[d],
           CallState(c)' = CallState(c)
    PROVE  UNCHANGED Contract!vars
<1>1. States' = States /\ KindOf' = KindOf
  BY StateOf DEF States
<1> QED
  BY <1>1, Mapped

LEMMA ProxyMapped ==
    ASSUME IInv, NEW c \in Calls, Begin(c) \/ ProxyStep(c)
    PROVE  \/ Contract!Begin(c) \/ Contract!Answer(c) \/ Contract!Return(c) \/ Contract!Fail(c)
           \/ UNCHANGED Contract!vars
<1> USE DEF GoTo, ReturnWith, service, Transactable
<1>1. ProxyInv(c) /\ SentInv(c) /\ StubInv(c) /\ TypeOK
  BY DEF IInv, CallInv
<1>2. /\ request' = request /\ started' = started
      /\ \A d \in Calls \ {c} : proxy'[d] = proxy[d] /\ status'[d] = status[d]
  BY <1>1 DEF Begin, ProxyStep, RefuseNullCallback, FailToSend, TransactOneway, Transact,
     ReceiveError, ReceiveReply, FailToRead, Read, Answer, Exit, TypeOK
<1>3. States' = [States EXCEPT ![c] = CallState(c)'] /\ KindOf' = KindOf
  BY <1>2, StateOf
<1>4. ASSUME Begin(c)
      PROVE  Contract!Begin(c)
  <2>1. CallState(c) = "idle" /\ CallState(c)' = "running" /\ answers' = answers
    BY <1>1, <1>4 DEF Begin, CallState, TypeOK
  <2> QED
    BY <1>2, <1>3, <2>1, Mapped DEF Contract!Begin, States, KindOf
<1>5. ASSUME RefuseNullCallback(c) \/ FailToSend(c) \/ ReceiveError(c) \/ FailToRead(c)
      PROVE  Contract!Fail(c)
  <2>1. CallState(c) = "running" /\ CallState(c)' = "error" /\ answers' = answers
    BY <1>1, <1>5 DEF RefuseNullCallback, FailToSend, ReceiveError, FailToRead, CallState, TypeOK
  <2>2. answers[c] = 0 /\ (Kind(c) = "oneway" => started[c] = 0)
    BY <1>1, <1>5 DEF RefuseNullCallback, FailToSend, ReceiveError, FailToRead, ProxyInv,
       SentInv, StubInv, Oneway
  <2> QED
    BY <1>2, <1>3, <2>1, <2>2, Mapped DEF Contract!Fail, States, KindOf
<1>6. ASSUME TransactOneway(c) \/ Transact(c) \/ ReceiveReply(c) \/ Read(c)
      PROVE  UNCHANGED Contract!vars
  <2>1. CallState(c)' = CallState(c) /\ answers' = answers
    BY <1>1, <1>6 DEF TransactOneway, Transact, ReceiveReply, Read, CallState, TypeOK
  <2> QED
    BY <1>2, <2>1, SilentStep
<1>7. ASSUME Answer(c)
      PROVE  Contract!Answer(c)
  <2>1. CallState(c) = "running" /\ CallState(c)' = "running"
    BY <1>1, <1>7 DEF Answer, CallState, TypeOK
  <2>2. Kind(c) = "callback" /\ started[c] = 1 /\ answers[c] = 0
    BY <1>1, <1>7, Replied DEF Answer, ProxyInv
  <2>3. answers' = [answers EXCEPT ![c] = 1]
    BY <1>1, <1>7, <2>2 DEF Answer, TypeOK
  <2>4. States' = States
    BY <1>3, <2>1 DEF States
  <2> QED
    BY <1>2, <1>3, <2>1, <2>2, <2>3, <2>4, Mapped DEF Contract!Answer, States, KindOf
<1>8. ASSUME Exit(c)
      PROVE  Contract!Return(c)
  <2>1. CallState(c) = "running" /\ CallState(c)' = "ok" /\ answers' = answers
    BY <1>1, <1>8 DEF Exit, CallState, TypeOK
  <2>2. Kind(c) # "oneway" => started[c] = 1
    BY <1>1, <1>8, Replied DEF Exit, ProxyInv, Oneway
  <2>3. Kind(c) = "callback" => answers[c] = 1
    BY <1>1, <1>8 DEF Exit, ProxyInv
  <2> QED
    BY <1>2, <1>3, <2>1, <2>2, <2>3, Mapped DEF Contract!Return, States, KindOf
<1> QED
  BY <1>4, <1>5, <1>6, <1>7, <1>8 DEF ProxyStep

LEMMA EnterMapped ==
    ASSUME IInv, NEW c \in Calls, Enter(c)
    PROVE  Contract!Run(c)
<1>1. ProxyInv(c) /\ SentInv(c) /\ StubInv(c) /\ TypeOK
  BY DEF IInv, CallInv
<1>2. request' = request /\ proxy' = proxy /\ status' = status /\ answers' = answers
  BY DEF Enter, client
<1>3. States' = States /\ KindOf' = KindOf
  BY <1>2 DEF States, KindOf, CallState, Kind
<1>4. started[c] = 0 /\ started' = [started EXCEPT ![c] = 1]
  BY <1>1 DEF Enter, StubInv, TypeOK
<1>5. CallState(c) = "running" \/ (Kind(c) = "oneway" /\ CallState(c) = "ok")
  BY <1>1 DEF Enter, SentInv, ProxyInv, Oneway, CallState, TypeOK, Places
<1> QED
  BY <1>2, <1>3, <1>4, <1>5, Mapped DEF Contract!Run, States, KindOf

LEMMA NextMapped ==
    ASSUME IInv, [Next]_vars
    PROVE  [Contract!Next]_Contract!vars
<1>1. ASSUME request' = request, proxy' = proxy, status' = status, started' = started,
             answers' = answers
      PROVE  UNCHANGED Contract!vars
  <2>1. States' = States /\ KindOf' = KindOf
    BY <1>1 DEF States, KindOf, CallState, Kind
  <2> QED
    BY <1>1, <2>1, Mapped
<1>2. ASSUME UNCHANGED vars \/ TakeOneway \/ Die \/ Rest
      PROVE  UNCHANGED Contract!vars
  BY <1>1, <1>2 DEF vars, TakeOneway, Die, Rest, client, service
<1>3. ASSUME NEW c \in Calls, TakeTwoWay(c) \/ Refuse(c) \/ CallBack(c) \/ CallBackAgain(c)
                                \/ Finish(c)
      PROVE  UNCHANGED Contract!vars
  BY <1>1, <1>3 DEF TakeTwoWay, Refuse, CallBack, CallBackAgain, Finish, client
<1>4. ASSUME NEW c \in Calls, Begin(c) \/ ProxyStep(c) \/ StubStep(c)
      PROVE  [Contract!Next]_Contract!vars
  BY <1>3, <1>4, ProxyMapped, EnterMapped DEF StubStep, Contract!Next
<1> QED
  BY <1>2, <1>4 DEF Next

(* Proxy, stub and hwbinder together implement the contract of a call.     *)
THEOREM ContractKept == Spec => KeepsContract
<1> QED
  BY MappedInit, NextMapped, IInvHolds, PTL DEF Spec, KeepsContract, Contract!Spec
=============================================================================
