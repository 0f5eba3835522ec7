------------------------------- MODULE Alarm -------------------------------
(* What timers promise: an alarm rings once, or once per period, never       *)
(* before its time and never while it is paused or after it was closed; the  *)
(* one that has been due for longest rings first; and a released engine      *)
(* rings none.  "left" is the time an alarm has left, negative when late.    *)
EXTENDS Integers

CONSTANT Alarms

VARIABLES engine,   \* "running", "releasing" or "stopped"
          phase,    \* "none", "set", "paused" or "over"
          ringing,  \* the alarms in their proc: none, or the one that rang
          period,   \* 0 for an alarm that rings once, and when it is over
          left

vars == <<engine, phase, ringing, period, left>>

Init ==
  /\ engine = "running" /\ ringing = {}
  /\ phase = [a \in Alarms |-> "none"]
  /\ period = [a \in Alarms |-> 0] /\ left = [a \in Alarms |-> 0]

Become(a, next, time) ==
  /\ phase' = [phase EXCEPT ![a] = next]
  /\ left' = [left EXCEPT ![a] = time]

Set(a) ==
  /\ engine = "running" /\ phase[a] = "none"
  /\ left'[a] >= 1 /\ period'[a] >= 0
  /\ Become(a, "set", left'[a])
  /\ period' = [period EXCEPT ![a] = period'[a]]
  /\ UNCHANGED <<engine, ringing>>

(* Set again: an alarm that rings once stays one, a periodic one too.        *)
Reset(a) ==
  /\ phase[a] \in {"set", "paused"}
  /\ left'[a] >= 1 /\ (period'[a] = 0 <=> period[a] = 0)
  /\ Become(a, "set", left'[a])
  /\ period' = [period EXCEPT ![a] = period'[a]]
  /\ UNCHANGED <<engine, ringing>>

Pause(a) ==
  phase[a] = "set" /\ Become(a, "paused", 0) /\ UNCHANGED <<engine, ringing, period>>

End(a) == Become(a, "over", 0) /\ period' = [period EXCEPT ![a] = 0]

Close(a) == phase[a] # "over" /\ End(a) /\ UNCHANGED <<engine, ringing>>

Ring(a) ==
  /\ engine = "running" /\ ringing = {} /\ ringing' = {a}
  /\ phase[a] = "set" /\ left[a] <= 0
  /\ \A b \in Alarms : phase[b] = "set" => left[a] <= left[b]
  /\ IF period[a] = 0 THEN End(a)
                       ELSE Become(a, "set", period[a]) /\ UNCHANGED period
  /\ UNCHANGED engine

Rung ==
  ringing # {} /\ ringing' = {} /\ UNCHANGED <<engine, phase, period, left>>

(* Time stands still while a proc runs.                                      *)
Pass(n) ==
  /\ ringing = {}
  /\ left' = [a \in Alarms |-> IF phase[a] = "set" THEN left[a] - n ELSE left[a]]
  /\ UNCHANGED <<engine, phase, ringing, period>>

TimePasses == \E n \in 1 .. 3 : Pass(n)

Release ==
  /\ engine = "running" /\ ringing = {} /\ engine' = "releasing"
  /\ UNCHANGED <<phase, ringing, period, left>>

(* A release ends every alarm that was set.                                  *)
Expire(a) ==
  engine = "releasing" /\ phase[a] \in {"set", "paused"} /\ Close(a)

Stop ==
  /\ engine = "releasing" /\ \A a \in Alarms : phase[a] \in {"none", "over"}
  /\ engine' = "stopped" /\ UNCHANGED <<phase, ringing, period, left>>

Next ==
  \/ \E a \in Alarms : Set(a) \/ Reset(a) \/ Pause(a) \/ Close(a) \/ Ring(a)
  \/ Rung \/ TimePasses \/ Release \/ Stop

(* An alarm that is due is not passed over for ever, and a release ends.     *)
Fairness ==
  /\ WF_vars(Rung) /\ WF_vars(Stop)
  /\ \A a \in Alarms : WF_vars(Ring(a)) /\ WF_vars(Expire(a))

Spec == Init /\ [][Next]_vars /\ Fairness
=============================================================================
