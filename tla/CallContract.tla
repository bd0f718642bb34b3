---------------------------- MODULE CallContract ----------------------------
(***************************************************************************)
(* What a caller of a method of a .hal interface may rely on, however the  *)
(* call is carried out: the implementation runs at most once; a call that  *)
(* is not one-way and returns without an error was carried out; and the    *)
(* synchronous callback runs exactly once in a call that returns without   *)
(* an error, and never in one that returns with one.                       *)
(***************************************************************************)
CONSTANT Calls   \* the calls that are made

(* What a method returns, and how: nothing and at once; nothing; a value;  *)
(* or values that are handed to a callback before it returns.              *)
Kinds == {"oneway", "void", "elided", "callback"}

VARIABLES
    kind,     \* of the method of each call
    state,    \* of each call: "idle", "running", "ok", "error"
    ran,      \* how often the implementation was run for each call
    answered  \* how often the synchronous callback of each call was run

vars == <<kind, state, ran, answered>>

Init ==
    /\ kind \in [Calls -> Kinds]
    /\ state = [c \in Calls |-> "idle"]
    /\ ran = [c \in Calls |-> 0]
    /\ answered = [c \in Calls |-> 0]

Begin(c) ==
    /\ state[c] = "idle"
    /\ state' = [state EXCEPT ![c] = "running"]
    /\ UNCHANGED <<kind, ran, answered>>

\* a one-way call may be carried out after it has returned
Run(c) ==
    /\ state[c] = "running" \/ (kind[c] = "oneway" /\ state[c] = "ok")
    /\ ran[c] = 0
    /\ ran' = [ran EXCEPT ![c] = 1]
    /\ UNCHANGED <<kind, state, answered>>

Answer(c) ==
    /\ state[c] = "running"
    /\ kind[c] = "callback"
    /\ ran[c] = 1
    /\ answered[c] = 0
    /\ answered' = [answered EXCEPT ![c] = 1]
    /\ UNCHANGED <<kind, state, ran>>

Return(c) ==
    /\ state[c] = "running"
    /\ kind[c] # "oneway" => ran[c] = 1
    /\ kind[c] = "callback" => answered[c] = 1
    /\ state' = [state EXCEPT ![c] = "ok"]
    /\ UNCHANGED <<kind, ran, answered>>

\* with an error it is not known whether the implementation has run, unless
\* the call is one-way
Fail(c) ==
    /\ state[c] = "running"
    /\ answered[c] = 0
    /\ kind[c] = "oneway" => ran[c] = 0
    /\ state' = [state EXCEPT ![c] = "error"]
    /\ UNCHANGED <<kind, ran, answered>>

Next == \E c \in Calls : Begin(c) \/ Run(c) \/ Answer(c) \/ Return(c) \/ Fail(c)

Spec == Init /\ [][Next]_vars
=============================================================================
