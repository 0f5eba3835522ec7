----------------------------- MODULE ProcQueue ------------------------------
(* What AE.next_tick and AE.call_from_other_thread each promise a caller:    *)
(* while the engine accepts procs, they run one at a time in the order they  *)
(* were accepted, none is lost or run twice, and each one runs eventually    *)
(* unless the engine stops first, which drops all that are still waiting.    *)
EXTENDS Sequences

CONSTANT Proc

VARIABLES queue,      \* accepted and not yet begun, in order
          open        \* procs are accepted

vars == <<queue, open>>

Init == queue = <<>> /\ open = FALSE

(* A run begins, with the proc given to AE.run already in one of the queues. *)
Open == /\ ~open /\ open' = TRUE
        /\ queue' = <<>> \/ \E p \in Proc : queue' = <<p>>

Accept(p) == /\ open /\ UNCHANGED open
             /\ queue' = Append(queue, p)

Run == /\ open /\ UNCHANGED open
       /\ queue # <<>> /\ queue' = Tail(queue)

Close == /\ open /\ open' = FALSE
         /\ queue' = <<>>

Next == Open \/ (\E p \in Proc : Accept(p)) \/ Run \/ Close

Spec == Init /\ [][Next]_vars

FairSpec == Spec /\ WF_vars(Run)
=============================================================================
