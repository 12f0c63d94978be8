---------------------------- MODULE MCBackground -----------------------------
(***************************************************************************)
(* Two parts of the server that work on after the request that started     *)
(* them: the delivery of webhooks with the FIFO it implements, and the     *)
(* pool of media workers, on the instances that TLC checks.  They share no *)
(* state, and one of them acts in each behaviour.                          *)
(*                                                                         *)
(* The first of two projects emits two of the three events: its chain is   *)
(* started, forgotten and started again, and a job queues behind one.  The *)
(* pool has one worker; it and the first of its replacements may die.      *)
(***************************************************************************)
EXTENDS WebhooksRefinement, WorkerPool

CONSTANTS p1, p2

MCProjectOf == <<p1, p2, p1>>

VARIABLE acting  \* the part that acts

BackgroundInit ==
    /\ acting \in {"webhooks", "workers"}
    /\ Init /\ PoolInit
    /\ acting = "webhooks" \/ configured = {}

BackgroundNext ==
    /\ UNCHANGED acting
    /\ \/ acting = "webhooks" /\ Next /\ UNCHANGED workerVars
       \/ acting = "workers" /\ PoolNext /\ UNCHANGED vars

\* Nothing is under way in the part that does not act, and so its fairness
\* asks for nothing.
BackgroundSpec ==
    /\ BackgroundInit /\ [][BackgroundNext]_<<vars, workerVars, acting>>
    /\ Fairness /\ PoolFairness
=============================================================================
