--------------------------- MODULE LifetimeProofs ---------------------------
(* What Lifetime implies, and why it may be shown of one component at a      *)
(* time: components that live through the same phases have it together, and  *)
(* a part of what is opened has it by itself.                                *)
EXTENDS Lifetime, TLAPS

(* Nothing is open once the release is over, nothing at all is left when     *)
(* AE.run has returned.                                                      *)
NothingStays ==
  /\ phase \in Phases
  /\ phase \in {"draining", "stopped"} => open = {}
  /\ phase = "stopped" => closing = {} /\ pending = {}

(* It holds of everything that has this lifetime.                            *)
THEOREM NothingStaysHolds == Spec => []NothingStays
<1>1. Init => NothingStays
  BY DEF Init, NothingStays, Phases
<1>2. NothingStays /\ [Next]_vars => NothingStays'
  <2> SUFFICES ASSUME NothingStays, [Next]_vars PROVE NothingStays'
    OBVIOUS
  <2> USE DEF NothingStays, Phases, Enter, things
  <2>1. CASE Start      BY <2>1 DEF Start
  <2>2. CASE Crash      BY <2>2 DEF Crash
  <2>3. CASE Work       BY <2>3 DEF Work
  <2>4. CASE Begin      BY <2>4 DEF Begin
  <2>5. CASE Destroy    BY <2>5 DEF Destroy
  <2>6. CASE Destroyed  BY <2>6 DEF Destroyed
  <2>7. CASE Drain      BY <2>7 DEF Drain
  <2>8. CASE Stop       BY <2>8 DEF Stop
  <2>9. CASE UNCHANGED vars BY <2>9 DEF vars
  <2>10. QED BY <2>1, <2>2, <2>3, <2>4, <2>5, <2>6, <2>7, <2>8, <2>9 DEF Next
<1>3. QED BY <1>1, <1>2, PTL DEF Spec

-----------------------------------------------------------------------------
(* Two components of one engine, and what both have open together.           *)
VARIABLES open1, closing1, pending1, open2, closing2, pending2

One == INSTANCE Lifetime WITH
  open <- open1, closing <- closing1, pending <- pending1
Two == INSTANCE Lifetime WITH
  open <- open2, closing <- closing2, pending <- pending2
Both == INSTANCE Lifetime WITH
  open <- open1 \cup open2, closing <- closing1 \cup closing2,
  pending <- pending1 \cup pending2

(* A step of both components is a step of what they have together.  While    *)
(* the phase stays, each works, destroys or drains, or stands still; a new   *)
(* phase is entered by both.                                                 *)
LEMMA StepTogether ==
  ASSUME [One!Next]_(One!vars), [Two!Next]_(Two!vars)
  PROVE  [Both!Next]_(Both!vars)
<1> USE DEF One!vars, Two!vars, Both!vars, One!things, Two!things, Both!things,
            One!Enter, Two!Enter, Both!Enter
<1>1. CASE UNCHANGED phase /\ phase = "running"
  <2>1. One!Work \/ UNCHANGED One!vars
    BY <1>1 DEF One!Next, One!Start, One!Crash, One!Begin, One!Destroy,
                One!Destroyed, One!Drain, One!Stop
  <2>2. Two!Work \/ UNCHANGED Two!vars
    BY <1>1 DEF Two!Next, Two!Start, Two!Crash, Two!Begin, Two!Destroy,
                Two!Destroyed, Two!Drain, Two!Stop
  <2>3. Both!Work
    BY <1>1, <2>1, <2>2 DEF One!Work, Two!Work, Both!Work,
                            One!Closed, Two!Closed, Both!Closed
  <2>4. QED BY <2>3 DEF Both!Next
<1>2. CASE UNCHANGED phase /\ phase = "destroying"
  <2>1. One!Destroy \/ UNCHANGED One!vars
    BY <1>2 DEF One!Next, One!Start, One!Crash, One!Begin, One!Work,
                One!Destroyed, One!Drain, One!Stop
  <2>2. Two!Destroy \/ UNCHANGED Two!vars
    BY <1>2 DEF Two!Next, Two!Start, Two!Crash, Two!Begin, Two!Work,
                Two!Destroyed, Two!Drain, Two!Stop
  <2>3. Both!Destroy
    BY <1>2, <2>1, <2>2 DEF One!Destroy, Two!Destroy, Both!Destroy,
                            One!Closed, Two!Closed, Both!Closed
  <2>4. QED BY <2>3 DEF Both!Next
<1>3. CASE UNCHANGED phase /\ phase = "draining"
  <2>1. One!Drain \/ UNCHANGED One!vars
    BY <1>3 DEF One!Next, One!Start, One!Crash, One!Begin, One!Work,
                One!Destroyed, One!Destroy, One!Stop
  <2>2. Two!Drain \/ UNCHANGED Two!vars
    BY <1>3 DEF Two!Next, Two!Start, Two!Crash, Two!Begin, Two!Work,
                Two!Destroyed, Two!Destroy, Two!Stop
  <2>3. Both!Drain
    BY <1>3, <2>1, <2>2 DEF One!Drain, Two!Drain, Both!Drain
  <2>4. QED BY <2>3 DEF Both!Next
<1>4. CASE UNCHANGED phase /\ phase \notin {"running", "destroying", "draining"}
  <2>1. UNCHANGED One!vars
    BY <1>4 DEF One!Next, One!Start, One!Crash, One!Begin, One!Work,
                One!Destroyed, One!Destroy, One!Drain, One!Stop
  <2>2. UNCHANGED Two!vars
    BY <1>4 DEF Two!Next, Two!Start, Two!Crash, Two!Begin, Two!Work,
                Two!Destroyed, Two!Destroy, Two!Drain, Two!Stop
  <2>3. QED BY <2>1, <2>2
<1>5. CASE ~UNCHANGED phase
  <2>1. \/ One!Start \/ One!Crash \/ One!Begin \/ One!Destroyed \/ One!Stop
    BY <1>5 DEF One!Next, One!Work, One!Destroy, One!Drain
  <2>2. \/ Two!Start \/ Two!Crash \/ Two!Begin \/ Two!Destroyed \/ Two!Stop
    BY <1>5 DEF Two!Next, Two!Work, Two!Destroy, Two!Drain
  <2> USE DEF One!Start, One!Crash, One!Begin, One!Destroyed, One!Stop,
              Two!Start, Two!Crash, Two!Begin, Two!Destroyed, Two!Stop
  <2>3. CASE One!Start      BY <2>2, <2>3 DEF Both!Start, Both!Next
  <2>4. CASE One!Crash      BY <2>2, <2>4 DEF Both!Crash, Both!Next
  <2>5. CASE One!Begin      BY <2>2, <2>5 DEF Both!Begin, Both!Next
  <2>6. CASE One!Destroyed  BY <2>2, <2>6 DEF Both!Destroyed, Both!Next
  <2>7. CASE One!Stop       BY <2>2, <2>7 DEF Both!Stop, Both!Next
  <2>8. QED BY <2>1, <2>3, <2>4, <2>5, <2>6, <2>7
<1>6. QED BY <1>1, <1>2, <1>3, <1>4, <1>5

(* Components of one engine that each have this lifetime have it together:   *)
(* release_loop goes through all of AE_handles, and uv_run() waits for all   *)
(* that is in the loop, whoever opened it.                                   *)
THEOREM Composition == One!Spec /\ Two!Spec => Both!Spec
<1>1. One!Init /\ Two!Init => Both!Init
  BY DEF One!Init, Two!Init, Both!Init
<1>2. [One!Next]_(One!vars) /\ [Two!Next]_(Two!vars) => [Both!Next]_(Both!vars)
  BY StepTogether
<1>3. QED BY <1>1, <1>2, PTL DEF One!Spec, Two!Spec, Both!Spec

-----------------------------------------------------------------------------
(* Some of the things of an engine: those of one class, or a single one.     *)
CONSTANT Some

Part == INSTANCE Lifetime WITH
  open <- open \cap Some, closing <- closing \cap Some,
  pending <- pending \cap Some

(* A step of the engine is a step of the part, or leaves it as it is.        *)
LEMMA StepOfPart == ASSUME [Next]_vars PROVE [Part!Next]_(Part!vars)
<1> USE DEF vars, things, Enter, Part!vars, Part!things, Part!Enter
<1>1. CASE Start      BY <1>1 DEF Start, Part!Start, Part!Next
<1>2. CASE Crash      BY <1>2 DEF Crash, Part!Crash, Part!Next
<1>3. CASE Work       BY <1>3 DEF Work, Closed, Part!Work, Part!Closed, Part!Next
<1>4. CASE Begin      BY <1>4 DEF Begin, Part!Begin, Part!Next
<1>5. CASE Destroy
  BY <1>5 DEF Destroy, Closed, Part!Destroy, Part!Closed, Part!Next
<1>6. CASE Destroyed  BY <1>6 DEF Destroyed, Part!Destroyed, Part!Next
<1>7. CASE Drain      BY <1>7 DEF Drain, Part!Drain, Part!Next
<1>8. CASE Stop       BY <1>8 DEF Stop, Part!Stop, Part!Next
<1>9. CASE UNCHANGED vars BY <1>9
<1>10. QED BY <1>1, <1>2, <1>3, <1>4, <1>5, <1>6, <1>7, <1>8, <1>9 DEF Next

(* What the engine promises to all that is opened in it, it promises to any  *)
(* part of it.                                                               *)
THEOREM Restriction == Spec => Part!Spec
<1>1. Init => Part!Init
  BY DEF Init, Part!Init
<1>2. [Next]_vars => [Part!Next]_(Part!vars)
  BY StepOfPart
<1>3. QED BY <1>1, <1>2, PTL DEF Spec, Part!Spec
=============================================================================
