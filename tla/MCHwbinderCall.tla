--------------------------- MODULE MCHwbinderCall ---------------------------
(***************************************************************************)
(* Three calls, two of them by one thread, of any kind, to a server with   *)
(* two threads.                                                            *)
(***************************************************************************)
EXTENDS HwbinderCallProperties

MCCalls == 1 .. 3
MCBefore == <<{}, {1}, {}>>

\* whether a callback was passed matters for one kind of method only
SomeRequest ==
    {r \in RequestType : r.kind # "callback" => r.cb}

\* the first call may be any; the others are such as the stub accepts
Plain(kinds) == {r \in SomeRequest : r.fits /\ r.cb /\ r.kind \in kinds}
MCRequests ==
    {<<r, s, t>> : r \in SomeRequest, s \in Plain({"oneway", "void", "callback"}),
                   t \in Plain({"oneway", "callback"})}
=============================================================================
