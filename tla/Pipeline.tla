-------------------------------- MODULE Pipeline --------------------------------
(***************************************************************************)
(* What a worker promises about its pipeline of operations, whatever the   *)
(* operation and whatever the ring does: a slot (a context with its        *)
(* buffer) is filled when the worker starts and from then on always has    *)
(* exactly one operation, until an operation of it fails or the worker is  *)
(* told to stop.  A slot that has left never comes back.  ClientWorker and *)
(* ReceiveWorker implement it.                                             *)
(***************************************************************************)
CONSTANT Slots      \* the contexts a worker may have

VARIABLES
    slot,       \* of each context the worker has: "busy" or "retired"
    told,       \* the worker was told to stop
    failed,     \* contexts an operation of which failed
    fragile     \* whether one failure is a reason to end

vars == <<slot, told, failed, fragile>>

Init ==
    /\ slot = <<>>
    /\ told = FALSE
    /\ failed = {}
    /\ fragile = FALSE

MayEnd == told \/ (fragile /\ failed # {})

\* Every slot gets its first operation, or the worker has nothing to run on.
Begin ==
    /\ slot = <<>>
    /\ \E S \in SUBSET Slots, to \in {"busy", "retired"} : slot' = [s \in S |-> to]
    /\ fragile' \in BOOLEAN
    /\ UNCHANGED <<told, failed>>

Leave(s) ==
    /\ slot[s] = "busy"
    /\ slot' = [slot EXCEPT ![s] = "retired"]

Fail(s) ==
    /\ Leave(s)
    /\ failed' = failed \cup {s}
    /\ UNCHANGED <<told, fragile>>

\* Told to stop, the worker does not give the slot another operation.
Rest(s) ==
    /\ told
    /\ Leave(s)
    /\ UNCHANGED <<told, failed, fragile>>

\* The worker returns, with whatever operations there are.
End ==
    /\ MayEnd
    /\ \E s \in DOMAIN slot : slot[s] = "busy"
    /\ slot' = [s \in DOMAIN slot |-> "retired"]
    /\ UNCHANGED <<told, failed, fragile>>

Tell ==
    /\ ~told
    /\ told' = TRUE
    /\ UNCHANGED <<slot, failed, fragile>>

WindDown == End \/ \E s \in DOMAIN slot : Fail(s) \/ Rest(s)

Next == Begin \/ WindDown \/ Tell

Spec == Init /\ [][Next]_vars

\* A worker with a reason to end does end.
LiveSpec == Spec /\ WF_vars(MayEnd /\ WindDown)
================================================================================
