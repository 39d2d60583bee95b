-------------------------- MODULE MCControllerUpdate --------------------------
(***************************************************************************)
(* Instances of ControllerUpdate: a resize, a provision, a suspend and a   *)
(* scale of one controller with two containers.                            *)
(***************************************************************************)
EXTENDS ControllerUpdate

CONSTANTS grow, out, in, by, c1, c2

ResizeOutIn == {grow, out, in}
JustGrow == {grow}
JustOut == {out}
TwoContainers == {c1, c2}

Kinds == [a \in Actions |-> CASE a = grow -> "resize" [] a = out -> "provision"
                              [] a = in -> "suspend" [] OTHER -> "scale"]
ByOne == [a \in Actions |-> 1]

Limit(old, new) == [commodity |-> "limit", current |-> old, new |-> new]
Request(old, new) == [commodity |-> "request", current |-> old, new |-> new]

\* c1 has no request, c2 has both.
Start == [c \in Containers |-> IF c = c1 THEN [limit |-> 2, request |-> Unset]
                                         ELSE [limit |-> 4, request |-> 3]]

\* The resize takes c1's limit up and leaves c2 alone.
GrowFirst == [a \in Actions |-> [c \in Containers |->
                IF a = grow /\ c = c1 THEN <<Limit(2, 4)>> ELSE <<>>]]

\* The resize takes c2's limit below its request.
ShrinkSecond == [a \in Actions |-> [c \in Containers |->
                IF a = grow /\ c = c2 THEN <<Limit(4, 2)>> ELSE <<>>]]
==============================================================================
