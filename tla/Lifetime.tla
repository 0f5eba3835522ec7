------------------------------ MODULE Lifetime ------------------------------
(* What the engine promises to whatever is opened in it, from AE.run to its  *)
(* return: nothing is forgotten without being closed; the release closes     *)
(* everything that is open and nothing is opened after it began; and AE.run  *)
(* returns only when every close was reported and every request has ended.   *)
(* Timers, sockets and requests are things here; each component implements   *)
(* this for its own.                                                         *)
VARIABLES phase,      \* "stopped", "running", "destroying" while release_loop
                      \* visits the handles, "draining"; "crashed" when the
                      \* process is gone
          open,       \* things that libuv has open
          closing,    \* things whose close libuv has still to report
          pending     \* requests that libuv has still to report

vars == <<phase, open, closing, pending>>
things == <<open, closing, pending>>

Phases == {"stopped", "running", "destroying", "draining", "crashed"}

Init ==
  /\ phase \in {"stopped", "running"}
  /\ open = {} /\ closing = {} /\ pending = {}

Enter(from, to) == phase = from /\ phase' = to /\ UNCHANGED things

Start == Enter("stopped", "running")
Crash == Enter("running", "crashed")

(* A running engine opens, closes and reports; all that is open stays open   *)
(* until it is closed.                                                       *)
Closed == open \ open' \subseteq closing'

Work == phase = "running" /\ UNCHANGED phase /\ Closed

(* The release begins.  Its hooks may close and ask for more, while the loop *)
(* does not turn: nothing is opened and nothing is reported.                 *)
Begin == Enter("running", "destroying")

Destroy ==
  /\ phase = "destroying" /\ UNCHANGED phase
  /\ Closed
  /\ open' \subseteq open
  /\ closing \subseteq closing' /\ closing' \ closing \subseteq open
  /\ pending \subseteq pending'

Destroyed == open = {} /\ Enter("destroying", "draining")

(* The loop then only reports what is left, and returns when nothing is.     *)
Drain ==
  /\ phase = "draining" /\ UNCHANGED <<phase, open>>
  /\ closing' \subseteq closing /\ pending' \subseteq pending

Stop ==
  /\ open = {} /\ closing = {} /\ pending = {}
  /\ Enter("draining", "stopped")

Next == \/ Start \/ Crash \/ Work \/ Begin \/ Destroy \/ Destroyed
        \/ Drain \/ Stop

Spec == Init /\ [][Next]_vars
=============================================================================
