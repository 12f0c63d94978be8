------------------------- MODULE WebhooksRefinement -------------------------
(***************************************************************************)
(* The dispatcher and the promise chains of Webhooks implement the FIFO of *)
(* WebhookFifo: a project's queue is made of its jobs that are in the      *)
(* chain, in the order of their tickets.                                   *)
(***************************************************************************)
EXTENDS Webhooks, Sequences

\* The place of a job among others, by their numbers.
Place(jobs, number, e) == Cardinality({d \in jobs : number[d] <= number[e]})

InOrder(jobs, number) ==
    [i \in 1 .. Cardinality(jobs) |-> CHOOSE e \in jobs : Place(jobs, number, e) = i]

Jobs(p) == {e \in Events : ProjectOf[e] = p /\ status[e] \in InChain}

QueueOf(p) == InOrder(Jobs(p), ticket)

Fifo == INSTANCE WebhookFifo WITH
            queue <- [p \in Projects |-> QueueOf(p)],
            over  <- {e \in Events : Settled(e)}

\* Promise chaining, retries, removed configurations and failed reads never
\* let an event reach its endpoint out of turn, twice after its end, or
\* through another project's queue.
ImplementsFifo == Fifo!Spec

=============================================================================
