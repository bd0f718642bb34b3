---------------------------- MODULE HwbinderCall ----------------------------
(***************************************************************************)
(* Calls through the code that hidl-gen generates for a binderized         *)
(* interface: the proxy (AST::generateStaticProxyMethodSource) in the      *)
(* threads of clients, the stub (AST::generateStubSource,                  *)
(* AST::generateStaticStubMethodSource) in the threads of a server that    *)
(* may die, and between them hwbinder, which is external: two-way          *)
(* transactions are served concurrently, one-way ones of an object one     *)
(* after the other, and the death of the server fails what waits for it.   *)
(*                                                                         *)
(* Arguments and results are abstracted to whether writing and reading     *)
(* them succeeds.                                                          *)
(***************************************************************************)
EXTENDS Naturals, Sequences, FiniteSets

CONSTANTS
    Calls,     \* the calls made by all clients
    Before,    \* Before[c]: the calls that the thread of c makes before c
    Requests,  \* what the calls may be
    Threads    \* how many threads of the server take transactions

Kinds == {"oneway", "void", "elided", "callback"}

(* The kind of the method: one-way, without results, with one result that  *)
(* is returned (Method::canElideCallback), or with a synchronous callback; *)
(* whether the caller passed that callback; and whether the server has     *)
(* this method with these arguments.                                       *)
RequestType == [kind : Kinds, cb : BOOLEAN, fits : BOOLEAN]

ASSUME RequestsAssumption == Requests \subseteq [Calls -> RequestType]
ASSUME ThreadsAssumption == Threads \in Nat \ {0}
ASSUME BeforeAssumption == Before \in [Calls -> SUBSET Calls]

VARIABLES
    request,    \* the input, which does not change
    proxy,      \* where each call is in the proxy's method
    status,     \* what the proxy's method returned
    answers,    \* how often it ran the callback of the caller
    server,     \* "up", or "down" when its process has ended
    asyncTodo,  \* one-way transactions that wait, of this one object
    twoWay,     \* two-way transactions that wait
    stub,       \* where each call is in the stub's method
    callbacks,  \* how often the implementation called _hidl_cb
    reply,      \* the reply that was sent: with all results, some, or an error
    started     \* how often the implementation was entered

client == <<proxy, status, answers>>
binder == <<asyncTodo, twoWay>>
service == <<stub, callbacks, reply, started>>
vars == <<request, client, server, binder, service>>

Kind(c) == request[c].kind

Init ==
    /\ request \in Requests
    /\ proxy = [c \in Calls |-> "idle"]
    /\ status = [c \in Calls |-> "none"]
    /\ answers = [c \in Calls |-> 0]
    /\ server = "up"
    /\ asyncTodo = <<>>
    /\ twoWay = {}
    /\ stub = [c \in Calls |-> "none"]
    /\ callbacks = [c \in Calls |-> 0]
    /\ reply = [c \in Calls |-> "none"]
    /\ started = [c \in Calls |-> 0]

-----------------------------------------------------------------------------
(* The proxy.                                                              *)

GoTo(c, place) == proxy' = [proxy EXCEPT ![c] = place]

ReturnWith(c, s) ==
    /\ proxy' = [proxy EXCEPT ![c] = "returned"]
    /\ status' = [status EXCEPT ![c] = s]

Begin(c) ==
    /\ proxy[c] = "idle"
    /\ \A d \in Before[c] : proxy[d] = "returned"
    /\ GoTo(c, "entered")
    /\ UNCHANGED <<request, status, answers, server, binder, service>>

\* "Null synchronous callback passed."
RefuseNullCallback(c) ==
    /\ proxy[c] = "entered"
    /\ Kind(c) = "callback" /\ ~request[c].cb
    /\ ReturnWith(c, "error")
    /\ UNCHANGED <<request, answers, server, binder, service>>

Transactable(c) == proxy[c] = "entered" /\ (Kind(c) = "callback" => request[c].cb)

\* the arguments cannot be written, or the transaction cannot be sent: goto _hidl_error
FailToSend(c) ==
    /\ Transactable(c)
    /\ ReturnWith(c, "error")
    /\ UNCHANGED <<request, answers, server, binder, service>>

\* (A fault: FLAG_ONE_WAY is not passed, and so the stub refuses the call.)
TransactOnewayUnflagged(c) ==
    /\ Transactable(c)
    /\ Kind(c) = "oneway"
    /\ server = "up"
    /\ stub' = [stub EXCEPT ![c] = "done"]
    /\ GoTo(c, "exit")
    /\ UNCHANGED <<request, status, answers, server, binder, callbacks, reply, started>>

TransactOneway(c) ==
    /\ Transactable(c)
    /\ Kind(c) = "oneway"
    /\ server = "up"
    /\ asyncTodo' = Append(asyncTodo, c)
    /\ GoTo(c, "exit")
    /\ UNCHANGED <<request, status, answers, server, twoWay, service>>

Transact(c) ==
    /\ Transactable(c)
    /\ Kind(c) # "oneway"
    /\ server = "up"
    /\ twoWay' = twoWay \cup {c}
    /\ GoTo(c, "transact")
    /\ UNCHANGED <<request, status, answers, server, asyncTodo, service>>

\* transact() fails, or the status in the reply is not OK
ReceiveError(c) ==
    /\ proxy[c] = "transact"
    /\ reply[c] = "error" \/ (reply[c] = "none" /\ server = "down")
    /\ ReturnWith(c, "error")
    /\ UNCHANGED <<request, answers, server, binder, service>>

ReceiveReply(c) ==
    /\ proxy[c] = "transact"
    /\ reply[c] \in {"ok", "short"}
    /\ GoTo(c, "read")
    /\ UNCHANGED <<request, status, answers, server, binder, service>>

\* (A fault: the callback runs between the two passes of reading.)
FailToReadAnswered(c) ==
    /\ proxy[c] = "read"
    /\ Kind(c) # "void"
    /\ answers' = [answers EXCEPT ![c] = @ + 1]
    /\ ReturnWith(c, "error")
    /\ UNCHANGED <<request, server, binder, service>>

\* a result is missing in the reply, or reading one fails: goto _hidl_error
FailToRead(c) ==
    /\ proxy[c] = "read"
    /\ Kind(c) # "void"
    /\ ReturnWith(c, "error")
    /\ UNCHANGED <<request, answers, server, binder, service>>

Read(c) ==
    /\ proxy[c] = "read"
    /\ reply[c] = "ok"
    /\ GoTo(c, IF Kind(c) = "callback" THEN "answer" ELSE "exit")
    /\ UNCHANGED <<request, status, answers, server, binder, service>>

\* the proxy runs the callback of the caller
Answer(c) ==
    /\ proxy[c] = "answer"
    /\ answers' = [answers EXCEPT ![c] = @ + 1]
    /\ GoTo(c, "exit")
    /\ UNCHANGED <<request, status, server, binder, service>>

Exit(c) ==
    /\ proxy[c] = "exit"
    /\ ReturnWith(c, "ok")
    /\ UNCHANGED <<request, answers, server, binder, service>>

-----------------------------------------------------------------------------
(* hwbinder hands transactions to the threads of the server.               *)

Busy == {c \in Calls : stub[c] \in {"entered", "serving"}}

TakeOneway ==
    /\ server = "up"
    /\ Cardinality(Busy) < Threads
    /\ asyncTodo # <<>>
    /\ \A c \in Busy : Kind(c) # "oneway"
    /\ asyncTodo' = Tail(asyncTodo)
    /\ stub' = [stub EXCEPT ![Head(asyncTodo)] = "entered"]
    /\ UNCHANGED <<request, client, server, twoWay, callbacks, reply, started>>

TakeTwoWay(c) ==
    /\ server = "up"
    /\ Cardinality(Busy) < Threads
    /\ c \in twoWay
    /\ twoWay' = twoWay \ {c}
    /\ stub' = [stub EXCEPT ![c] = "entered"]
    /\ UNCHANGED <<request, client, server, asyncTodo, callbacks, reply, started>>

(* The stub.  hwbinder sends one reply to a two-way transaction: the first *)
(* that is handed to it, or else one with what onTransact returned.        *)

Sent(c, r) == reply' = [reply EXCEPT ![c] = IF @ = "none" /\ Kind(c) # "oneway" THEN r ELSE @]

\* an unknown code, another one-way flag, another interface token, or an
\* argument that cannot be read: onTransact returns the error
Refuse(c) ==
    /\ server = "up"
    /\ stub[c] = "entered"
    /\ ~request[c].fits
    /\ stub' = [stub EXCEPT ![c] = "done"]
    /\ Sent(c, "error")
    /\ UNCHANGED <<request, client, server, binder, callbacks, started>>

\* (A fault: Status::ok() is written before the implementation is called.)
EnterReplying(c) ==
    /\ server = "up"
    /\ stub[c] = "entered"
    /\ request[c].fits
    /\ stub' = [stub EXCEPT ![c] = "serving"]
    /\ started' = [started EXCEPT ![c] = @ + 1]
    /\ Sent(c, "ok")
    /\ UNCHANGED <<request, client, server, binder, callbacks>>

Enter(c) ==
    /\ server = "up"
    /\ stub[c] = "entered"
    /\ request[c].fits
    /\ stub' = [stub EXCEPT ![c] = "serving"]
    /\ started' = [started EXCEPT ![c] = @ + 1]
    /\ UNCHANGED <<request, client, server, binder, callbacks, reply>>

Serving(c) == server = "up" /\ stub[c] = "serving"

\* the implementation calls _hidl_cb: the reply is sent before it returns.
\* The errors of writing the results are ignored.
CallBack(c) ==
    /\ Serving(c)
    /\ Kind(c) = "callback"
    /\ callbacks[c] = 0
    /\ callbacks' = [callbacks EXCEPT ![c] = @ + 1]
    /\ \E r \in {"ok", "short"} : Sent(c, r)
    /\ UNCHANGED <<request, client, server, binder, stub, started>>

\* LOG_ALWAYS_FATAL: _hidl_cb is called a second time
CallBackAgain(c) ==
    /\ Serving(c)
    /\ Kind(c) = "callback"
    /\ callbacks[c] = 1
    /\ callbacks' = [callbacks EXCEPT ![c] = @ + 1]
    /\ server' = "down"
    /\ UNCHANGED <<request, client, binder, stub, reply, started>>

\* the implementation returns without an error
Finish(c) ==
    /\ Serving(c)
    /\ Kind(c) = "callback" => callbacks[c] = 1
    /\ stub' = [stub EXCEPT ![c] = "done"]
    /\ \E r \in (IF Kind(c) = "elided" THEN {"ok", "short"} ELSE {"ok"}) : Sent(c, r)
    /\ UNCHANGED <<request, client, server, binder, callbacks, started>>

\* the implementation returns an error (assertOk), or _hidl_cb was not
\* called (LOG_ALWAYS_FATAL); or the server dies for a reason of its own
Die ==
    /\ server = "up"
    /\ server' = "down"
    /\ UNCHANGED <<request, client, binder, service>>

-----------------------------------------------------------------------------
ProxyStep(c) ==
    \/ RefuseNullCallback(c) \/ FailToSend(c) \/ TransactOneway(c) \/ Transact(c)
    \/ ReceiveError(c) \/ ReceiveReply(c) \/ FailToRead(c) \/ Read(c) \/ Answer(c) \/ Exit(c)

StubStep(c) ==
    \/ TakeTwoWay(c) \/ Refuse(c) \/ Enter(c) \/ CallBack(c) \/ CallBackAgain(c) \/ Finish(c)

\* every call that was begun has returned and the server has nothing to do
Rest ==
    /\ \A c \in Calls : proxy[c] = "returned"
    /\ server = "down" \/ (asyncTodo = <<>> /\ twoWay = {} /\ Busy = {})
    /\ UNCHANGED vars

Next ==
    \/ \E c \in Calls : Begin(c) \/ ProxyStep(c) \/ StubStep(c)
    \/ TakeOneway
    \/ Die
    \/ Rest

Spec == Init /\ [][Next]_vars

(* Threads of clients run while they can; those of the server while it is  *)
(* up.  An implementation returns; an endless one blocks its caller.       *)
FairSpec ==
    /\ Spec
    /\ \A c \in Calls : WF_vars(ProxyStep(c)) /\ WF_vars(StubStep(c))
    /\ WF_vars(TakeOneway)
=============================================================================
