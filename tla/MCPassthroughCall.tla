------------------------- MODULE MCPassthroughCall -------------------------
(***************************************************************************)
(* Four calls, three of them by one thread, and a queue of two tasks.      *)
(***************************************************************************)
EXTENDS PassthroughCall

MCCalls == 1 .. 4
MCBefore == <<{}, {1}, {1, 2}, {}>>

\* whether a callback was passed matters for one kind of method only
SomeRequest == {r \in RequestType : r.kind # "callback" => r.cb}
Plain == {r \in SomeRequest : r.cb /\ r.wraps}
MCRequests ==
    {<<r, s, t, u>> : r \in SomeRequest, s, t \in Plain, u \in {a \in Plain : a.kind = "oneway"}}
=============================================================================
