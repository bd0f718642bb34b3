----------------------- MODULE HwbinderCallProperties -----------------------
(***************************************************************************)
(* What the generated proxy and stub promise to the two sides of a call.   *)
(***************************************************************************)
EXTENDS HwbinderCall

Places == {"idle", "entered", "transact", "read", "answer", "exit", "returned"}

(* Every variable has its type.                                            *)
TypeOK ==
    /\ request \in [Calls -> RequestType]
    /\ proxy \in [Calls -> Places]
    /\ status \in [Calls -> {"none", "ok", "error"}]
    /\ answers \in [Calls -> 0 .. 1]
    /\ server \in {"up", "down"}
    /\ asyncTodo \in Seq(Calls)
    /\ twoWay \subseteq Calls
    /\ stub \in [Calls -> {"none", "entered", "serving", "done"}]
    /\ callbacks \in [Calls -> 0 .. 2]
    /\ reply \in [Calls -> {"none", "ok", "short", "error"}]
    /\ started \in [Calls -> 0 .. 1]

(* The state of a call as the caller sees it.                              *)
CallState(c) ==
    CASE proxy[c] = "idle" -> "idle"
      [] proxy[c] = "returned" -> status[c]
      [] OTHER -> "running"

Contract == INSTANCE CallContract WITH
    kind <- [c \in Calls |-> Kind(c)],
    state <- [c \in Calls |-> CallState(c)],
    ran <- started,
    answered <- answers

(* Proxy, stub and hwbinder together keep the contract of a call, whatever *)
(* the implementation does and whenever the server dies.                   *)
KeepsContract == Contract!Spec

(* A call that returned without an error was accepted by the server.  If   *)
(* its method hands nothing to a callback, it is over in the server; with  *)
(* a callback the reply is sent in the middle of the method.               *)
OkIsFinished ==
    \A c \in Calls :
        status[c] = "ok" /\ Kind(c) # "oneway" =>
            /\ request[c].fits
            /\ Kind(c) # "callback" => stub[c] = "done"

(* Every call returns, also when the server dies.                          *)
EveryCallReturns == \A c \in Calls : proxy[c] = "entered" ~> proxy[c] = "returned"

(* A one-way call that returned without an error is carried out, unless    *)
(* the server refuses it or dies.                                          *)
OnewayIsServed ==
    \A c \in Calls :
        Kind(c) = "oneway" /\ status[c] = "ok" /\ request[c].fits
            ~> started[c] = 1 \/ server = "down"

(* No call is left waiting, whatever its kind and whoever dies.            *)
CallsAreServed == EveryCallReturns /\ OnewayIsServed
=============================================================================
