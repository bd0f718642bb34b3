-------------------------- MODULE PassthroughCall --------------------------
(***************************************************************************)
(* Calls through the code that hidl-gen generates for a passthrough        *)
(* interface (AST::generatePassthroughMethod and                           *)
(* AST::generatePassthroughSource): the implementation runs in the thread  *)
(* of the caller, but one-way calls are tasks of a bounded queue that a    *)
(* thread of its own works off (TaskRunner, which is external).            *)
(* Interfaces among the arguments and results are wrapped into passthrough *)
(* objects, which may fail.                                                *)
(***************************************************************************)
EXTENDS Naturals, Sequences

CONSTANTS
    Calls,     \* the calls made by all threads
    Before,    \* Before[c]: the calls that the thread of c makes before c
    Requests,  \* what the calls may be
    Limit      \* the argument of mOnewayQueue.start

Kinds == {"oneway", "void", "elided", "callback"}

(* The kind of the method, whether the caller passed a callback, and       *)
(* whether the interfaces among the arguments can be wrapped.              *)
RequestType == [kind : Kinds, cb : BOOLEAN, wraps : BOOLEAN]

ASSUME RequestsAssumption == Requests \subseteq [Calls -> RequestType]
ASSUME LimitAssumption == Limit \in Nat \ {0}
ASSUME BeforeAssumption == Before \in [Calls -> SUBSET Calls]

VARIABLES
    request,       \* the input, which does not change
    method,        \* where each call is in the generated method
    status,        \* what the method returned
    hidlError,     \* its variable _hidl_error is set
    answers,       \* how often the callback of the caller ran
    nullAnswers,   \* how often it, or the caller, got nullptr in place of a result
    mOnewayQueue,  \* tasks that wait
    task,          \* the task the thread of the queue runs, as a sequence
    started        \* the calls in the order in which the implementation was entered

vars == <<request, method, status, hidlError, answers, nullAnswers, mOnewayQueue, task, started>>

Kind(c) == request[c].kind

Init ==
    /\ request \in Requests
    /\ method = [c \in Calls |-> "idle"]
    /\ status = [c \in Calls |-> "none"]
    /\ hidlError = [c \in Calls |-> FALSE]
    /\ answers = [c \in Calls |-> 0]
    /\ nullAnswers = [c \in Calls |-> 0]
    /\ mOnewayQueue = <<>>
    /\ task = <<>>
    /\ started = <<>>

ReturnWith(c, s) ==
    /\ method' = [method EXCEPT ![c] = "returned"]
    /\ status' = [status EXCEPT ![c] = s]

Begin(c) ==
    /\ method[c] = "idle"
    /\ \A d \in Before[c] : method[d] = "returned"
    /\ method' = [method EXCEPT ![c] = "entered"]
    /\ UNCHANGED <<request, status, hidlError, answers, nullAnswers, mOnewayQueue, task, started>>

\* "Null synchronous callback passed.", "Cannot wrap passthrough interface."
Refused(c) == ~request[c].wraps \/ (Kind(c) = "callback" /\ ~request[c].cb)

Refuse(c) ==
    /\ method[c] = "entered"
    /\ Refused(c)
    /\ ReturnWith(c, "error")
    /\ UNCHANGED <<request, hidlError, answers, nullAnswers, mOnewayQueue, task, started>>

\* (A fault: the answer of push is not looked at.)
AddOnewayTaskUnchecked(c) ==
    /\ method[c] = "entered"
    /\ ~Refused(c)
    /\ Kind(c) = "oneway"
    /\ mOnewayQueue' = IF Len(mOnewayQueue) < Limit THEN Append(mOnewayQueue, c) ELSE mOnewayQueue
    /\ ReturnWith(c, "ok")
    /\ UNCHANGED <<request, hidlError, answers, nullAnswers, task, started>>

\* (A fault: a task goes to the front of the queue.)
AddOnewayTaskInFront(c) ==
    /\ method[c] = "entered"
    /\ ~Refused(c)
    /\ Kind(c) = "oneway"
    /\ IF Len(mOnewayQueue) < Limit
       THEN mOnewayQueue' = <<c>> \o mOnewayQueue /\ ReturnWith(c, "ok")
       ELSE mOnewayQueue' = mOnewayQueue /\ ReturnWith(c, "error")
    /\ UNCHANGED <<request, hidlError, answers, nullAnswers, task, started>>

\* "Passthrough oneway function queue exceeds maximum size."
AddOnewayTask(c) ==
    /\ method[c] = "entered"
    /\ ~Refused(c)
    /\ Kind(c) = "oneway"
    /\ IF Len(mOnewayQueue) < Limit
       THEN mOnewayQueue' = Append(mOnewayQueue, c) /\ ReturnWith(c, "ok")
       ELSE mOnewayQueue' = mOnewayQueue /\ ReturnWith(c, "error")
    /\ UNCHANGED <<request, hidlError, answers, nullAnswers, task, started>>

CallImplementation(c) ==
    /\ method[c] = "entered"
    /\ ~Refused(c)
    /\ Kind(c) # "oneway"
    /\ method' = [method EXCEPT ![c] = "inside"]
    /\ started' = Append(started, c)
    /\ UNCHANGED <<request, status, hidlError, answers, nullAnswers, mOnewayQueue, task>>

\* a result is an interface that cannot be wrapped, or not
WrapResult(c, wraps) ==
    /\ hidlError' = [hidlError EXCEPT ![c] = @ \/ ~wraps]
    /\ nullAnswers' = [nullAnswers EXCEPT ![c] = IF wraps THEN @ ELSE @ + 1]

MaxAnswers == 2   \* bound: how often an implementation calls _hidl_cb

\* (A fault: a callback sets the error anew.)
CallBackForgets(c) ==
    /\ method[c] = "inside"
    /\ Kind(c) = "callback"
    /\ answers[c] < MaxAnswers
    /\ \E wraps \in BOOLEAN :
        /\ hidlError' = [hidlError EXCEPT ![c] = ~wraps]
        /\ nullAnswers' = [nullAnswers EXCEPT ![c] = IF wraps THEN @ ELSE @ + 1]
    /\ answers' = [answers EXCEPT ![c] = @ + 1]
    /\ UNCHANGED <<request, method, status, mOnewayQueue, task, started>>

\* the implementation calls _hidl_cb; nothing tests how often it does.
\* A result that cannot be wrapped is handed to the caller as nullptr.
CallBack(c) ==
    /\ method[c] = "inside"
    /\ Kind(c) = "callback"
    /\ answers[c] < MaxAnswers
    /\ \E wraps \in BOOLEAN : WrapResult(c, wraps)
    /\ answers' = [answers EXCEPT ![c] = @ + 1]
    /\ UNCHANGED <<request, method, status, mOnewayQueue, task, started>>

(* The implementation returns, with an error or without.  (Where it        *)
(* returns a value, to take that of an error ends the process.)  A value   *)
(* is wrapped last.                                                        *)
Finish(c) ==
    /\ method[c] = "inside"
    /\ IF Kind(c) = "elided"
       THEN \E wraps \in BOOLEAN : WrapResult(c, wraps)
       ELSE UNCHANGED <<hidlError, nullAnswers>>
    /\ \E s \in (IF Kind(c) = "elided" THEN {"ok"} ELSE {"ok", "error"}) :
        ReturnWith(c, IF hidlError'[c] THEN "error" ELSE s)
    /\ UNCHANGED <<request, answers, mOnewayQueue, task, started>>

(* The thread of the queue.                                                *)
StartTask ==
    /\ task = <<>>
    /\ mOnewayQueue # <<>>
    /\ task' = <<Head(mOnewayQueue)>>
    /\ mOnewayQueue' = Tail(mOnewayQueue)
    /\ started' = Append(started, Head(mOnewayQueue))
    /\ UNCHANGED <<request, method, status, hidlError, answers, nullAnswers>>

FinishTask ==
    /\ task # <<>>
    /\ task' = <<>>
    /\ UNCHANGED <<request, method, status, hidlError, answers, nullAnswers, mOnewayQueue, started>>

-----------------------------------------------------------------------------
Step(c) ==
    \/ Refuse(c) \/ AddOnewayTask(c) \/ CallImplementation(c) \/ CallBack(c) \/ Finish(c)

Rest ==
    /\ \A c \in Calls : method[c] = "returned"
    /\ mOnewayQueue = <<>> /\ task = <<>>
    /\ UNCHANGED vars

Next ==
    \/ \E c \in Calls : Begin(c) \/ Step(c)
    \/ StartTask
    \/ FinishTask
    \/ Rest

Spec == Init /\ [][Next]_vars

(* The thread of the queue runs, and an implementation returns.            *)
FairSpec ==
    /\ Spec
    /\ \A c \in Calls : WF_vars(Step(c))
    /\ WF_vars(StartTask)
    /\ WF_vars(FinishTask)

-----------------------------------------------------------------------------
Elements(s) == {s[i] : i \in DOMAIN s}

(* Every variable has its type.                                            *)
TypeOK ==
    /\ request \in [Calls -> RequestType]
    /\ method \in [Calls -> {"idle", "entered", "inside", "returned"}]
    /\ status \in [Calls -> {"none", "ok", "error"}]
    /\ hidlError \in [Calls -> BOOLEAN]
    /\ answers \in [Calls -> 0 .. MaxAnswers]
    /\ nullAnswers \in [Calls -> Nat]
    /\ mOnewayQueue \in Seq(Calls)
    /\ Len(mOnewayQueue) <= Limit
    /\ task \in Seq(Calls)
    /\ started \in Seq(Calls)

(* A caller that got nullptr in place of an interface that could not be    *)
(* wrapped learns of it: the method returns an error, in whichever of its  *)
(* answers it was.                                                         *)
NullIsReported == \A c \in Calls : status[c] = "ok" => nullAnswers[c] = 0

(* One-way calls of one thread are carried out in the order in which they  *)
(* were made, each at most once, and never one that returned an error.     *)
OnewayInOrder ==
    /\ \A i, j \in DOMAIN started : started[i] = started[j] => i = j
    /\ \A i, j \in DOMAIN started :
        /\ Kind(started[i]) = "oneway" /\ Kind(started[j]) = "oneway"
        /\ started[i] \in Before[started[j]]
        => i < j
    /\ \A i \in DOMAIN started : Kind(started[i]) = "oneway" => status[started[i]] # "error"

(* The queue of one-way calls has its bound and keeps its order.           *)
QueueIsSound == TypeOK /\ OnewayInOrder

(* A one-way call that returned without an error is carried out, whatever  *)
(* the implementation does in the calls before it.                         *)
AcceptedIsRun ==
    \A c \in Calls :
        Kind(c) = "oneway" /\ status[c] = "ok" ~> c \in Elements(started)
=============================================================================
