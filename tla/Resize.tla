------------------------------- MODULE Resize --------------------------------
(***************************************************************************)
(* What a resize does to a container (resize_container.go and              *)
(* resize_container_util.go), for one resource.  A container has a limit   *)
(* and a request, either of which may be Unset.                            *)
(***************************************************************************)
EXTENDS Integers, Sequences

Unset == -1
Amounts == Nat \cup {Unset}
ContainerSpecs == [limit : Amounts, request : Amounts]

\* An action item: one commodity of one container, from its current to its new
\* capacity.  Capacities are whole units, the smallest is 1.
ItemSet == [commodity : {"limit", "request"}, current : Nat, new : Nat]

\* containerResizeSpec: NewCapacity and NewRequest.
ResizeSpecs == [cap : Amounts, req : Amounts]

\* getNewAmount: nothing if the capacity does not change.
NewAmount(item) ==
    IF item.current = item.new THEN Unset ELSE IF item.new < 1 THEN 1 ELSE item.new

\* buildResizeSpec: the new capacity goes to the commodity's list; setZeroRequest
\* adds a zero request to a new limit if the container has no request.
BuildResizeSpec(item, container) ==
    LET amount == NewAmount(item)
        limit == item.commodity = "limit" /\ amount # Unset
    IN  [cap |-> IF limit THEN amount ELSE Unset,
         req |-> CASE item.commodity = "request" -> amount
                   [] limit /\ container.request = Unset -> 0
                   [] OTHER -> Unset]

\* buildResizeSpec refuses an empty specification.
EmptySpec(spec) == spec.cap = Unset /\ spec.req = Unset

UpdateLimits(container, spec) == spec.cap # Unset /\ spec.cap # container.limit
UpdateRequests(container, spec) == spec.req # Unset /\ spec.req # container.request

\* checkLimitsRequests
CheckLimitsRequests(container) ==
    container.limit # Unset /\ container.request # Unset => container.request <= container.limit

\* One specification of updateResourceAmount.  The requests are looked at only if
\* the limits did not change (the || of the code); a container that fails the
\* check keeps what was written to it, but does not count as changed.
UpdateOne(st, spec) ==
    LET limits == UpdateLimits(st.container, spec)
        requests == ~limits /\ UpdateRequests(st.container, spec)
        container == [limit |-> IF limits THEN spec.cap ELSE st.container.limit,
                      request |-> IF requests THEN spec.req ELSE st.container.request]
    IN  [container |-> container,
         changed |-> st.changed \/ ((limits \/ requests) /\ CheckLimitsRequests(container))]

\* updateResourceAmount for the specifications of one container, of which there
\* is at most one per commodity.
UpdateResourceAmount(container, specs) ==
    LET first == [container |-> container, changed |-> FALSE]
    IN  CASE Len(specs) = 0 -> first
          [] Len(specs) = 1 -> UpdateOne(first, specs[1])
          [] OTHER -> UpdateOne(UpdateOne(first, specs[1]), specs[2])
==============================================================================
