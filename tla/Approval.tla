------------------------------ MODULE Approval ------------------------------
(***************************************************************************)
(* What the human-in-the-loop gate of a durable run promises, with nothing *)
(* of how it is kept: an approval is asked for, one resumer is granted it, *)
(* and the grant lets the suspended step finish at most once.  A grant may *)
(* be lost (its process died, the step raised) but never handed out again, *)
(* and a run has at most one open request.                                 *)
(*                                                                         *)
(* docs/chains/hitl.md ("Atomic resume claim") and the Checkpointer        *)
(* contract in docs/durability/api-reference.md describe this; ChainRun    *)
(* implements it with the pending_interrupts table.                        *)
(***************************************************************************)
EXTENDS Naturals, Sequences

VARIABLE request    \* the approvals asked for so far, oldest first: their phases

Phase == {"open", "granted", "spent", "lost"}

TypeOK == request \in Seq(Phase)

Init == request = <<>>

\* A node suspends the run.
Ask == /\ \A t \in DOMAIN request : request[t] # "open"
       /\ request' = Append(request, "open")

\* One resumer wins the request.
Grant(t) == /\ request[t] = "open"
            /\ request' = [request EXCEPT ![t] = "granted"]

\* The suspended step runs to its end under the grant.
Spend(t) == /\ request[t] = "granted"
            /\ request' = [request EXCEPT ![t] = "spent"]

\* The winner dies, or its step raises, before the step ends.
Lose(t) == /\ request[t] = "granted"
           /\ request' = [request EXCEPT ![t] = "lost"]

Next == \/ Ask
        \/ \E t \in DOMAIN request : Grant(t) \/ Spend(t) \/ Lose(t)

Spec == Init /\ [][Next]_request
=============================================================================
