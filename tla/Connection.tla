----------------------------- MODULE Connection -----------------------------
(* What TCPSocket promises to the application through its hooks: a socket is *)
(* told once whether it is connected; once connected it is told exactly once *)
(* that it is disconnected; and AE.run does not return before every socket   *)
(* was told how it ended.                                                    *)
CONSTANT Sockets

VARIABLES engine,   \* "running", "releasing" or "stopped"
          phase     \* what each socket was last told

vars == <<engine, phase>>

Over == {"none", "failed", "disconnected"}

Init == engine = "running" /\ phase = [s \in Sockets |-> "none"]

Tell(s, before, after) ==
  /\ phase[s] = before
  /\ phase' = [phase EXCEPT ![s] = after]
  /\ UNCHANGED engine

New(s) == engine = "running" /\ Tell(s, "none", "connecting")
Connected(s) == engine = "running" /\ Tell(s, "connecting", "connected")
End(s) == Tell(s, "connecting", "failed") \/ Tell(s, "connected", "disconnected")

Release == engine = "running" /\ engine' = "releasing" /\ UNCHANGED phase

Stop ==
  /\ engine = "releasing" /\ \A s \in Sockets : phase[s] \in Over
  /\ engine' = "stopped" /\ UNCHANGED phase

Next ==
  \/ Release \/ Stop
  \/ \E s \in Sockets : New(s) \/ Connected(s) \/ End(s)

(* A released engine ends every connection, and then stops.                  *)
Fairness ==
  /\ WF_vars(Stop)
  /\ \A s \in Sockets : WF_vars(engine = "releasing" /\ End(s))

Spec == Init /\ [][Next]_vars /\ Fairness
=============================================================================
