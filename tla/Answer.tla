------------------------------- MODULE Answer -------------------------------
(* What AsyncEngine promises to who passes a block to a request: the block   *)
(* is called once, while the run of the engine it was passed to lasts, or    *)
(* dropped when that run is released; AE.run does not return before, and no  *)
(* later run ever calls it.                                                  *)
CONSTANT Blocks

VARIABLES engine,   \* "running", "releasing", "stopped", or "crashed"
          block     \* what became of each block

vars == <<engine, block>>

Init == engine = "running" /\ block = [b \in Blocks |-> "unused"]

Become(b, before, after) ==
  /\ block[b] = before
  /\ block' = [block EXCEPT ![b] = after]
  /\ UNCHANGED engine

Pass(b) == engine \in {"running", "releasing"} /\ Become(b, "unused", "waiting")
Refuse(b) == engine \in {"running", "releasing"} /\ Become(b, "unused", "refused")
Reply(b) == engine = "running" /\ Become(b, "waiting", "called")
Drop(b) == engine = "releasing" /\ Become(b, "waiting", "dropped")

Release == engine = "running" /\ engine' = "releasing" /\ UNCHANGED block
Crash == engine = "running" /\ engine' = "crashed" /\ UNCHANGED block
Restart == engine = "stopped" /\ engine' = "running" /\ UNCHANGED block

Stop ==
  /\ engine = "releasing" /\ \A b \in Blocks : block[b] # "waiting"
  /\ engine' = "stopped" /\ UNCHANGED block

Next ==
  \/ Release \/ Crash \/ Restart \/ Stop
  \/ \E b \in Blocks : Pass(b) \/ Refuse(b) \/ Reply(b) \/ Drop(b)

(* A block is not left waiting, and a released engine stops.                 *)
Fairness ==
  /\ WF_vars(Stop)
  /\ \A b \in Blocks : WF_vars(Reply(b) \/ Drop(b))

Spec == Init /\ [][Next]_vars /\ Fairness
=============================================================================
