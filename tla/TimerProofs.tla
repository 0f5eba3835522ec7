---------------------------- MODULE TimerProofs ----------------------------
(* What Timer promises, for every value of its constants: TimerInv is        *)
(* inductive and implies the invariants the run checks, and timers implement *)
(* Alarm and Lifetime.                                                       *)
EXTENDS Timer, TLAPS

(* The C structure agrees with the calls that were made: a restart without   *)
(* arguments takes from it what it passes to libuv.                          *)
FieldsInv ==
  \A t \in opened :
    /\ delay[t] # 0
    /\ t \notin fouled => delay[t] = toldDelay[t] /\ interval[t] = toldInterval[t]
    /\ t \in periodic <=> interval[t] # 0

(* Only a lapse fouls the fields of a timer, and only of a periodic one; only *)
(* then it may stray.                                                        *)
StrayedInv ==
  /\ fouled \cup strayed \subseteq periodic
  /\ Lapses = {} => fouled = {} /\ strayed = {}

(* rb_hash_foreach finds every timer: none is created while it runs.         *)
ReleaseInv ==
  /\ engine = "destroying" => handles \subseteq toDestroy
  /\ engine \in {"draining", "stopped"} => handles = {}

(* A timer that is not started has no time left, one that is not open no     *)
(* promise either, and a proc runs only in user code.                        *)
RestInv ==
  /\ firing # {} => user
  /\ \A t \in Timers \ active : left[t] = 0 /\ toldLeft[t] = 0
  /\ \A t \in Timers \ opened : toldInterval[t] = 0 /\ t \notin fouled \cup strayed
  /\ \A t \in opened \ strayed : repeat[t] = toldInterval[t]
  /\ \A t \in opened : t \in periodic <=> repeat[t] # 0

TimerInv ==
  /\ TypeOK /\ OthersAsDocumented /\ FiredIsProtected /\ FieldsInv
  /\ StrayedInv /\ ReleaseInv /\ RestInv

-----------------------------------------------------------------------------
(* The cases of Next.                                                        *)
Created(t) ==
  \/ \E ms \in Delays : New(t, ms) \/ \E every \in Delays : NewPeriodic(t, every, ms)
  \/ NewRefused(t)

Closed(t) == TimerCallback(t) \/ close(t) \/ destroy(t) \/ CloseCallback(t)

Other ==
  \/ \E n \in 1 .. 2 : Tick(n)
  \/ EnterUser \/ UserReturn \/ ReleaseBegin \/ ReleaseEnd \/ LoopExit

LEMMA Rounded ==
  ASSUME NEW ms \in Delays
  PROVE  Milliseconds(ms) \in Nat \ {0} /\ Milliseconds(ms) = (IF ms = 0 THEN 1 ELSE ms)
BY DelayAssumption DEF Milliseconds

(* What every start of a timer does, with the fields and the promise.        *)
LEMMA Started ==
  ASSUME TimerInv, NEW t \in Timers, NEW d \in Nat \ {0}, NEW i \in Nat,
         uv_timer_start(t, d, i)
  PROVE  /\ active' = active \cup {t}
         /\ left' \in [Timers -> Int] /\ repeat' \in [Timers -> Nat]
         /\ left'[t] = d /\ repeat'[t] = i
         /\ \A o \in Timers \ {t} : left'[o] = left[o] /\ repeat'[o] = repeat[o]
BY DEF TimerInv, TypeOK, uv_timer_start

LEMMA Promised ==
  ASSUME TimerInv, NEW t \in Timers, NEW d \in Nat, NEW i \in Nat, Told(t, d, i)
  PROVE  /\ toldDelay' \in [Timers -> Nat] /\ toldInterval' \in [Timers -> Nat]
         /\ toldLeft' \in [Timers -> Int]
         /\ toldDelay'[t] = d /\ toldInterval'[t] = i /\ toldLeft'[t] = d
         /\ \A o \in Timers \ {t} : /\ toldDelay'[o] = toldDelay[o]
                                    /\ toldInterval'[o] = toldInterval[o]
                                    /\ toldLeft'[o] = toldLeft[o]
BY DEF TimerInv, TypeOK, Told

LEMMA CreateStep ==
  ASSUME TimerInv, NEW t \in Timers, NEW d \in Nat \ {0}, NEW i \in Nat,
         engine = "running", uv[t] = "none",
         init_instance(t, d, i), Told(t, d, i), UNCHANGED lapseVars
  PROVE  TimerInv'
<1> USE DEF init_instance, phaseVars, userVars, lapseVars
<1>1. TypeOK'
  BY Started, Promised DEF TimerInv, TypeOK
<1>2. OthersAsDocumented'
  BY Started, Promised DEF TimerInv, TypeOK, OthersAsDocumented
<1>3. FiredIsProtected'
  BY Started DEF TimerInv, TypeOK, FiredIsProtected
<1>4. FieldsInv' /\ ReleaseInv'
  BY Promised DEF TimerInv, TypeOK, FieldsInv, ReleaseInv
<1>5. StrayedInv'
  <2>1. t \notin fouled \cup strayed
    BY DEF TimerInv, TypeOK, FiredIsProtected, RestInv
  <2> QED BY <2>1 DEF TimerInv, TypeOK, StrayedInv
<1>6. RestInv'
  BY Started, Promised DEF TimerInv, TypeOK, RestInv, FiredIsProtected
<1> QED BY <1>1, <1>2, <1>3, <1>4, <1>5, <1>6 DEF TimerInv

(* A restart passes d and i to libuv, and promises "ms" and "every": these    *)
(* differ only of a timer that strays.                                       *)
LEMMA RestartStep ==
  ASSUME TimerInv, NEW t \in opened, NEW d \in Nat \ {0}, NEW i \in Nat,
         NEW ms \in Nat, NEW every \in Nat,
         delay' = [delay EXCEPT ![t] = d],
         t \in periodic => interval' = [interval EXCEPT ![t] = i] /\ i # 0,
         t \notin periodic => UNCHANGED interval /\ i = 0,
         uv_timer_start(t, d, i), Told(t, ms, every),
         \A o \in Timers \ {t} : /\ o \in fouled' <=> o \in fouled
                                 /\ o \in strayed' <=> o \in strayed,
         fouled' \subseteq Timers, strayed' \subseteq Timers,
         t \in fouled' \cup strayed' => t \in periodic /\ Lapses # {},
         t \notin fouled' \cap strayed' => ms = d /\ every = i,
         UNCHANGED <<phaseVars, userVars, handles, opened, periodic, uv>>
  PROVE  TimerInv'
<1> USE DEF phaseVars, userVars
<1> t \in Timers
  BY DEF TimerInv, TypeOK
<1>1. /\ active' = active \cup {t}
      /\ left' \in [Timers -> Int] /\ repeat' \in [Timers -> Nat]
      /\ left'[t] = d /\ repeat'[t] = i
      /\ \A o \in Timers \ {t} : left'[o] = left[o] /\ repeat'[o] = repeat[o]
  BY Started
<1>2. /\ toldDelay' \in [Timers -> Nat] /\ toldInterval' \in [Timers -> Nat]
      /\ toldLeft' \in [Timers -> Int]
      /\ toldDelay'[t] = ms /\ toldInterval'[t] = every /\ toldLeft'[t] = ms
      /\ \A o \in Timers \ {t} : /\ toldDelay'[o] = toldDelay[o]
                                 /\ toldInterval'[o] = toldInterval[o]
                                 /\ toldLeft'[o] = toldLeft[o]
  BY Promised
<1>3. /\ delay' \in [Timers -> Nat] /\ interval' \in [Timers -> Nat]
      /\ delay'[t] = d /\ (t \in periodic => interval'[t] = i)
      /\ (t \notin periodic => interval'[t] = 0 /\ i = 0)
      /\ \A o \in Timers \ {t} : delay'[o] = delay[o] /\ interval'[o] = interval[o]
  BY DEF TimerInv, TypeOK, FieldsInv
<1>4. TypeOK'
  BY <1>1, <1>2, <1>3 DEF TimerInv, TypeOK
<1>5. OthersAsDocumented'
  BY <1>1, <1>2 DEF TimerInv, TypeOK, OthersAsDocumented
<1>6. FiredIsProtected'
  BY <1>1 DEF TimerInv, TypeOK, FiredIsProtected
<1>7. FieldsInv'
  BY <1>2, <1>3 DEF TimerInv, TypeOK, FieldsInv, FiredIsProtected
<1>8. StrayedInv' /\ ReleaseInv'
  BY DEF TimerInv, TypeOK, StrayedInv, ReleaseInv
<1>9. RestInv'
  BY <1>1, <1>2 DEF TimerInv, TypeOK, RestInv
<1> QED BY <1>4, <1>5, <1>6, <1>7, <1>8, <1>9 DEF TimerInv

(* A closed timer leaves every set at once, and no promise remains.          *)
LEMMA CloseStep ==
  ASSUME TimerInv, NEW t \in opened, close_handle(t),
         UNCHANGED <<periodic, delay, interval, repeat>>,
         engine' = engine, user' \in BOOLEAN, firing' \subseteq Timers,
         firing' # {} => user',
         toDestroy' \subseteq Timers, toDestroy \subseteq toDestroy' \cup {t}
  PROVE  TimerInv'
<1> USE DEF close_handle, uv_timer_stop, Forget, AsTold
<1> t \in Timers
  BY DEF TimerInv, TypeOK
<1>1. /\ toldDelay' \in [Timers -> Nat] /\ toldInterval' \in [Timers -> Nat]
      /\ toldLeft' \in [Timers -> Int]
      /\ toldInterval'[t] = 0 /\ toldLeft'[t] = 0
      /\ \A o \in Timers \ {t} : /\ toldDelay'[o] = toldDelay[o]
                                 /\ toldInterval'[o] = toldInterval[o]
                                 /\ toldLeft'[o] = toldLeft[o]
  BY Promised
<1>2. left' \in [Timers -> Int] /\ left'[t] = 0 /\ \A o \in Timers \ {t} : left'[o] = left[o]
  BY DEF TimerInv, TypeOK
<1>3. TypeOK'
  BY <1>1, <1>2 DEF TimerInv, TypeOK
<1>4. OthersAsDocumented'
  BY <1>1, <1>2 DEF TimerInv, TypeOK, OthersAsDocumented
<1>5. FiredIsProtected'
  BY DEF TimerInv, TypeOK, FiredIsProtected
<1>6. FieldsInv'
  BY <1>1 DEF TimerInv, TypeOK, FieldsInv
<1>7. StrayedInv' /\ ReleaseInv'
  BY DEF TimerInv, StrayedInv, ReleaseInv
<1>8. RestInv'
  BY <1>1, <1>2 DEF TimerInv, TypeOK, RestInv
<1> QED BY <1>3, <1>4, <1>5, <1>6, <1>7, <1>8 DEF TimerInv

-----------------------------------------------------------------------------
LEMMA NextCreated ==
  ASSUME TimerInv, NEW t \in Timers, Created(t)
  PROVE  TimerInv'
<1>1. ASSUME NEW ms \in Delays, New(t, ms) PROVE TimerInv'
  <2>1. /\ engine = "running" /\ uv[t] = "none"
        /\ init_instance(t, Milliseconds(ms), 0)
        /\ Told(t, Milliseconds(ms), 0) /\ UNCHANGED lapseVars
    BY <1>1, Rounded DEF New, AE_CHECK_STATUS
  <2> QED BY <2>1, Rounded, CreateStep
<1>2. ASSUME NEW ms \in Delays, NEW every \in Delays, NewPeriodic(t, every, ms)
      PROVE  TimerInv'
  <2>1. /\ engine = "running" /\ uv[t] = "none"
        /\ init_instance(t, Milliseconds(ms), Milliseconds(every))
        /\ Told(t, Milliseconds(ms), Milliseconds(every)) /\ UNCHANGED lapseVars
    BY <1>2, Rounded DEF NewPeriodic, AE_CHECK_STATUS
  <2> QED BY <2>1, Rounded, CreateStep
<1>3. CASE NewRefused(t)
  BY <1>3 DEF NewRefused, TimerInv, TypeOK, OthersAsDocumented, FiredIsProtected,
     FieldsInv, StrayedInv, ReleaseInv, RestInv, phaseVars, userVars, cdataVars, toldVars, lapseVars
<1> QED BY <1>1, <1>2, <1>3 DEF Created

LEMMA NextRestarted ==
  ASSUME TimerInv, NEW t \in Timers, Restart(t)
  PROVE  TimerInv'
<1> USE DEF restart_periodic
<1>1. /\ fouled \subseteq Timers /\ strayed \subseteq Timers
      /\ \A o \in fouled \cup strayed : o \in periodic /\ Lapses # {}
  BY DEF TimerInv, TypeOK, StrayedInv
<1>2. ASSUME NEW d \in Nat \ {0}, restart(t, d) PROVE TimerInv'
  <2>1. t \in opened /\ t \notin periodic /\ t \notin fouled \cup strayed
    BY <1>1, <1>2 DEF restart
  <2> QED BY <1>1, <1>2, <2>1, RestartStep DEF restart, lapseVars
<1>3. ASSUME NEW ms \in Delays, RestartInterval(t, ms) PROVE TimerInv'
  <2>1. t \in opened /\ t \in periodic
    BY <1>3 DEF RestartInterval
  <2> QED BY <1>1, <1>3, <2>1, Rounded, RestartStep DEF RestartInterval, AsTold
<1>4. ASSUME NEW ms \in Delays, NEW every \in Delays, RestartBoth(t, every, ms)
      PROVE  TimerInv'
  <2>1. t \in opened /\ t \in periodic
    BY <1>4 DEF RestartBoth
  <2> QED BY <1>1, <1>4, <2>1, Rounded, RestartStep DEF RestartBoth, AsTold
<1>5. ASSUME NEW ms \in Delays, RestartRaises(t, ms) PROVE TimerInv'
  BY <1>5, Rounded DEF RestartRaises, TimerInv, TypeOK, OthersAsDocumented,
     FiredIsProtected, FieldsInv, StrayedInv, ReleaseInv, RestInv, phaseVars, userVars,
     uvVars
<1>6. ASSUME t \in opened \cap periodic
      PROVE  /\ delay[t] \in Nat \ {0} /\ interval[t] \in Nat \ {0}
             /\ toldDelay[t] \in Nat /\ toldInterval[t] \in Nat
             /\ t \notin fouled => /\ toldDelay[t] = delay[t]
                                  /\ toldInterval[t] = interval[t]
  BY <1>6 DEF TimerInv, TypeOK, FieldsInv
<1>7. ASSUME RestartSame(t) PROVE TimerInv'
  <2>1. t \in opened /\ t \in periodic
    BY <1>7 DEF RestartSame
  <2>2. PICK d \in DelaysPromised(t) :
          /\ Told(t, d, toldInterval[t])
          /\ fouled' = IF d = toldDelay[t] THEN fouled ELSE fouled \cup {t}
    BY <1>7 DEF RestartSame
  <2>3. d \in Nat /\ (d # toldDelay[t] => Lapses # {})
    BY <1>6, <2>1, Rounded DEF DelaysPromised
  <2>4. strayed' = IF t \in fouled' THEN strayed \cup {t} ELSE strayed \ {t}
    BY <1>7 DEF RestartSame
  <2>5. /\ \A o \in Timers \ {t} : /\ o \in fouled' <=> o \in fouled
                                   /\ o \in strayed' <=> o \in strayed
        /\ fouled' \subseteq Timers /\ strayed' \subseteq Timers
        /\ t \in fouled' \cup strayed' => Lapses # {}
        /\ t \notin fouled' \cap strayed' => d = toldDelay[t] /\ t \notin fouled
    BY <1>1, <2>2, <2>3, <2>4
  <2> QED BY <1>6, <1>7, <2>1, <2>2, <2>3, <2>5, RestartStep DEF RestartSame
<1>8. ASSUME restart(t, delay[t]) PROVE TimerInv'
  <2>1. delay[t] \in Nat \ {0}
    BY <1>8 DEF restart, TimerInv, TypeOK, FieldsInv
  <2> QED BY <1>2, <1>8, <2>1
<1> QED BY <1>2, <1>3, <1>4, <1>5, <1>7, <1>8, Rounded DEF Restart

LEMMA NextClosed ==
  ASSUME TimerInv, NEW t \in Timers, Closed(t) \/ pause(t)
  PROVE  TimerInv'
<1> USE DEF phaseVars, userVars, cdataVars, toldVars, lapseVars
<1>1. CASE TimerCallback(t) /\ t \notin periodic
  <2>1. t \in opened
    BY <1>1 DEF TimerCallback, Due, TimerInv, FiredIsProtected
  <2> QED BY <1>1, <2>1, CloseStep DEF TimerCallback, TimerInv, TypeOK
<1>2. CASE TimerCallback(t) /\ t \in periodic
  <2>1. /\ t \in active /\ left' = [left EXCEPT ![t] = repeat[t]]
        /\ toldLeft' = [toldLeft EXCEPT ![t] = toldInterval[t]]
        /\ user' = TRUE /\ firing' \subseteq Timers
        /\ UNCHANGED <<engine, toDestroy, handles, opened, periodic, delay, interval, uv,
                       active, repeat, toldDelay, toldInterval, lapseVars>>
    BY <1>2 DEF TimerCallback, Due
  <2>2. TypeOK'
    BY <2>1 DEF TimerInv, TypeOK
  <2>3. OthersAsDocumented'
    BY <2>1 DEF TimerInv, TypeOK, OthersAsDocumented
  <2>4. FiredIsProtected' /\ FieldsInv' /\ StrayedInv' /\ ReleaseInv' /\ RestInv'
    BY <2>1 DEF TimerInv, TypeOK, FiredIsProtected, FieldsInv, StrayedInv, ReleaseInv, RestInv
  <2> QED BY <2>2, <2>3, <2>4 DEF TimerInv
<1>3. CASE close(t)
  BY <1>3, CloseStep DEF close, TimerInv, TypeOK, RestInv
<1>4. CASE destroy(t)
  <2>1. t \in opened
    BY <1>4 DEF destroy, TimerInv, FiredIsProtected
  <2> QED BY <1>4, <2>1, CloseStep DEF destroy, TimerInv, TypeOK, RestInv
<1>5. CASE CloseCallback(t)
  BY <1>5 DEF CloseCallback, TimerInv, TypeOK, OthersAsDocumented, FiredIsProtected,
     FieldsInv, StrayedInv, ReleaseInv, RestInv
<1>6. CASE pause(t)
  <2>1. TypeOK'
    BY <1>6 DEF pause, uv_timer_stop, TimerInv, TypeOK
  <2>2. OthersAsDocumented'
    BY <1>6 DEF pause, uv_timer_stop, TimerInv, TypeOK, OthersAsDocumented
  <2>3. FiredIsProtected' /\ FieldsInv' /\ StrayedInv' /\ ReleaseInv'
    BY <1>6 DEF pause, uv_timer_stop, TimerInv, FiredIsProtected, FieldsInv, StrayedInv, ReleaseInv
  <2>4. RestInv'
    BY <1>6 DEF pause, uv_timer_stop, TimerInv, TypeOK, RestInv
  <2> QED BY <2>1, <2>2, <2>3, <2>4 DEF TimerInv
<1> QED BY <1>1, <1>2, <1>3, <1>4, <1>5, <1>6 DEF Closed

LEMMA NextOther ==
  ASSUME TimerInv, Other
  PROVE  TimerInv'
<1> USE DEF phaseVars, userVars, cdataVars, uvVars, toldVars, lapseVars
<1>1. ASSUME NEW n \in 1 .. 2, Tick(n) PROVE TimerInv'
  <2> USE <1>1 DEF Tick
  <2>1. /\ \A t \in Timers : left[t] \in Int /\ toldLeft[t] \in Int
        /\ - MaxLate \in Int
    BY LateAssumption DEF TimerInv, TypeOK
  <2>2. ASSUME NEW t \in Timers
        PROVE  /\ toldLeft'[t] \in Int
               /\ t \notin active => toldLeft'[t] = toldLeft[t]
               /\ t \in active /\ left[t] = toldLeft[t] => toldLeft'[t] = left'[t]
    <3> HIDE <1>1 DEF Tick
    <3>1. left'[t] = IF t \in active THEN left[t] - n ELSE left[t]
      BY <1>1 DEF Tick
    <3>2. toldLeft'[t] = IF t \in active THEN AtLatest(toldLeft[t] - n) ELSE toldLeft[t]
      BY <1>1 DEF Tick
    <3>3. t \in active => left[t] - n \in Times
      BY <1>1 DEF Tick
    <3>4. toldLeft[t] \in Int /\ toldLeft[t] - n \in Int
      BY <2>1
    <3> QED BY <2>1, <3>1, <3>2, <3>3, <3>4 DEF AtLatest
  <2>3. left' \in [Timers -> Int] /\ toldLeft' \in [Timers -> Int]
    BY <2>1, <2>2
  <2>4. TypeOK'
    BY <2>3 DEF TimerInv, TypeOK
  <2>5. OthersAsDocumented'
    BY <2>2 DEF TimerInv, TypeOK, OthersAsDocumented
  <2>6. FiredIsProtected' /\ FieldsInv' /\ StrayedInv' /\ ReleaseInv'
    BY DEF TimerInv, FiredIsProtected, FieldsInv, StrayedInv, ReleaseInv
  <2>7. RestInv'
    BY <2>2 DEF TimerInv, TypeOK, RestInv
  <2> QED BY <2>4, <2>5, <2>6, <2>7 DEF TimerInv
<1>2. CASE EnterUser \/ UserReturn \/ ReleaseBegin \/ ReleaseEnd \/ LoopExit
  <2> USE <1>2 DEF EnterUser, UserReturn, ReleaseBegin, ReleaseEnd, LoopExit
  <2>1. TypeOK'
    BY DEF TimerInv, TypeOK
  <2>2. OthersAsDocumented' /\ FiredIsProtected' /\ FieldsInv' /\ StrayedInv'
    BY DEF TimerInv, OthersAsDocumented, FiredIsProtected, FieldsInv, StrayedInv
  <2>3. ReleaseInv'
    BY DEF TimerInv, ReleaseInv
  <2>4. RestInv'
    BY DEF TimerInv, TypeOK, RestInv
  <2> QED BY <2>1, <2>2, <2>3, <2>4 DEF TimerInv
<1> QED BY <1>1, <1>2 DEF Other

(* The inductive invariant.                                                  *)
THEOREM TimerInvariant == Spec => []TimerInv
<1>1. Init => TimerInv
  <2> SUFFICES ASSUME Init PROVE TimerInv
    OBVIOUS
  <2>1. Zero \in [Timers -> Nat] /\ Zero \in [Timers -> Int]
    BY DEF Zero
  <2>2. TypeOK
    BY <2>1 DEF Init, TypeOK
  <2>3. OthersAsDocumented /\ FiredIsProtected /\ FieldsInv /\ StrayedInv /\ ReleaseInv /\ RestInv
    BY DEF Zero, Init, OthersAsDocumented, FiredIsProtected, FieldsInv, StrayedInv, ReleaseInv, RestInv
  <2> QED BY <2>2, <2>3 DEF TimerInv
<1>2. TimerInv /\ [Next]_vars => TimerInv'
  <2> SUFFICES ASSUME TimerInv, [Next]_vars PROVE TimerInv'
    OBVIOUS
  <2>1. CASE UNCHANGED vars
    BY <2>1 DEF vars, phaseVars, userVars, cdataVars, uvVars, toldVars, lapseVars, TimerInv,
       TypeOK, OthersAsDocumented, FiredIsProtected, FieldsInv, StrayedInv, ReleaseInv, RestInv
  <2>2. CASE Next
    <3>1. \/ \E t \in Timers : Created(t) \/ Restart(t) \/ Closed(t) \/ pause(t)
          \/ Other
      BY <2>2 DEF Next, Created, Closed, Other
    <3> QED BY <3>1, NextCreated, NextRestarted, NextClosed, NextOther
  <2> QED BY <2>1, <2>2
<1> QED BY <1>1, <1>2, PTL DEF Spec

(* A timer is due when the calls that were made say, and repeats as often as *)
(* they say, unless PeriodicTimer#restart was called with a delay and no     *)
(* interval, or raised with the interval stored: then the comment above it   *)
(* does not hold.                                                            *)
THEOREM ArmedHolds ==
  ASSUME Lapses = {}
  PROVE  Spec => []ArmedAsDocumented
<1>1. TimerInv => ArmedAsDocumented
  BY DEF TimerInv, OthersAsDocumented, StrayedInv, ArmedAsDocumented
<1> QED BY <1>1, TimerInvariant, PTL

(* And whatever calls are made, such a call affects no other timer, nor its  *)
(* own before that is started again from its fields.                         *)
THEOREM OthersHold == Spec => []OthersAsDocumented
BY TimerInvariant, PTL DEF TimerInv

(* libuv fires only timers whose object the collector leaves alone, and those *)
(* that do not repeat exactly once.                                          *)
THEOREM FiredHolds == Spec => []FiredIsProtected
BY TimerInvariant, PTL DEF TimerInv

(* No timer outlives the release: its proc would run on a released engine.   *)
THEOREM NoneLeftHolds == Spec => []NoneLeftToFire
<1>1. TimerInv => NoneLeftToFire
  BY DEF TimerInv, FiredIsProtected, ReleaseInv, NoneLeftToFire
<1> QED BY <1>1, TimerInvariant, PTL

-----------------------------------------------------------------------------
(* The refinement, with the fields of Alarm written as Timer maps them.      *)
Phase == [t \in Timers |-> CASE t \in active -> "set"
                             [] t \in opened \ active -> "paused"
                             [] uv[t] = "none" -> "none"
                             [] OTHER -> "over"]
Period == [t \in Timers |-> IF t \in strayed THEN repeat[t] ELSE toldInterval[t]]
Left == [t \in Timers |-> IF t \in strayed THEN left[t] ELSE toldLeft[t]]
Phased == IF engine \in {"destroying", "draining"} THEN "releasing" ELSE engine

(* What the history promises is what libuv has.                              *)
Matches ==
  /\ Left = left
  /\ Period = [t \in Timers |-> IF t \in opened THEN repeat[t] ELSE 0]
  /\ Phase \in [Timers -> {"none", "set", "paused", "over"}]
  /\ \A t \in Timers : /\ Phase[t] = "set" <=> t \in active
                       /\ Phase[t] = "paused" <=> t \in opened \ active
                       /\ Phase[t] = "none" <=> uv[t] = "none"
                       /\ Phase[t] = "over" <=> uv[t] \in {"closing", "closed"}

LEMMA AsPromised == TimerInv => Matches
<1> SUFFICES ASSUME TimerInv PROVE Matches
  OBVIOUS
<1> USE DEF TimerInv, TypeOK
<1>1. Left = left
  BY DEF Left, OthersAsDocumented, RestInv
<1>2. Period = [t \in Timers |-> IF t \in opened THEN repeat[t] ELSE 0]
  BY DEF Period, RestInv
<1>3. Phase \in [Timers -> {"none", "set", "paused", "over"}]
  BY DEF Phase
<1>4. ASSUME NEW t \in Timers
      PROVE  /\ Phase[t] = "set" <=> t \in active
             /\ Phase[t] = "paused" <=> t \in opened \ active
             /\ Phase[t] = "none" <=> uv[t] = "none"
             /\ Phase[t] = "over" <=> uv[t] \in {"closing", "closed"}
  BY DEF Phase, FiredIsProtected
<1> QED BY <1>1, <1>2, <1>3, <1>4 DEF Matches

(* A step that changes one timer changes one alarm.                          *)
Others(t) ==
  \A o \in Timers \ {t} :
    /\ (o \in active' <=> o \in active) /\ (o \in opened' <=> o \in opened)
    /\ uv'[o] = uv[o] /\ left'[o] = left[o] /\ repeat'[o] = repeat[o]

LEMMA OneAlarm ==
  ASSUME TypeOK, TypeOK', Matches, Matches', NEW t \in Timers, Others(t)
  PROVE  /\ Phase' = [Phase EXCEPT ![t] = Phase'[t]]
         /\ Left' = [Left EXCEPT ![t] = Left'[t]]
         /\ Period' = [Period EXCEPT ![t] = Period'[t]]
<1> USE DEF TypeOK, Matches, Others
<1>1. \A o \in Timers \ {t} : Phase'[o] = Phase[o]
  OBVIOUS
<1>2. \A o \in Timers \ {t} : Left'[o] = Left[o] /\ Period'[o] = Period[o]
  OBVIOUS
<1>3. /\ DOMAIN Left = Timers /\ Left' \in [Timers -> Int]
      /\ Period \in [Timers -> Nat] /\ Period' \in [Timers -> Nat]
  OBVIOUS
<1>4. Phase' = [Phase EXCEPT ![t] = Phase'[t]]
  BY <1>1
<1>5. Left' = [Left EXCEPT ![t] = Left'[t]]
  BY <1>2, <1>3
<1>6. Period' = [Period EXCEPT ![t] = Period'[t]]
  BY <1>2, <1>3
<1> QED BY <1>4, <1>5, <1>6

(* A started timer is an alarm that is set; it repeats as it did before.     *)
LEMMA StartAlarm ==
  ASSUME TimerInv, TimerInv', Matches, Matches', NEW t \in Timers, t \in opened',
         NEW d \in Nat \ {0}, NEW i \in Nat, uv_timer_start(t, d, i),
         UNCHANGED <<engine, firing>>, Others(t),
         \/ engine = "running" /\ uv[t] = "none"
         \/ t \in opened /\ UNCHANGED periodic /\ (t \in periodic <=> i # 0)
  PROVE  Promise!Set(t) \/ Promise!Reset(t)
<1> USE DEF Matches
<1>1. Phase'[t] = "set" /\ Left'[t] = d /\ Period'[t] = i
  BY Started
<1>2. /\ Phase' = [Phase EXCEPT ![t] = "set"]
      /\ Left' = [Left EXCEPT ![t] = Left'[t]]
      /\ Period' = [Period EXCEPT ![t] = Period'[t]]
  BY <1>1, OneAlarm DEF TimerInv
<1>3. UNCHANGED Phased /\ Left'[t] >= 1 /\ Period'[t] >= 0
  BY <1>1 DEF Phased
<1>4. CASE engine = "running" /\ uv[t] = "none"
  <2>1. Phased = "running" /\ Phase[t] = "none"
    BY <1>4 DEF Phased
  <2> QED BY <1>2, <1>3, <2>1 DEF Phase, Period, Left, Phased, Promise!Set, Promise!Become
<1>5. CASE t \in opened /\ (t \in periodic <=> i # 0)
  <2>1. Phase[t] \in {"set", "paused"}
    BY <1>5 DEF TimerInv, TypeOK
  <2>2. Period'[t] = 0 <=> Period[t] = 0
    BY <1>1, <1>5 DEF TimerInv, TypeOK, RestInv
  <2> QED BY <1>2, <1>3, <2>1, <2>2
          DEF Phase, Period, Left, Phased, Promise!Reset, Promise!Become
<1> QED BY <1>4, <1>5

(* A closed timer is an alarm that is over.                                  *)
LEMMA EndAlarm ==
  ASSUME TimerInv, TimerInv', Matches, Matches', NEW t \in opened, close_handle(t),
         UNCHANGED repeat
  PROVE  Promise!End(t)
<1> t \in Timers
  BY DEF TimerInv, TypeOK
<1>1. Others(t)
  BY DEF TimerInv, TypeOK, Others, close_handle, uv_timer_stop
<1>2. Phase'[t] = "over" /\ Left'[t] = 0 /\ Period'[t] = 0
  BY DEF TimerInv, TypeOK, Matches, close_handle, uv_timer_stop
<1>3. /\ Phase' = [Phase EXCEPT ![t] = "over"]
      /\ Left' = [Left EXCEPT ![t] = 0]
      /\ Period' = [Period EXCEPT ![t] = 0]
  BY <1>1, <1>2, OneAlarm DEF TimerInv
<1> QED BY <1>3 DEF Phase, Period, Left, Promise!End, Promise!Become

LEMMA RingAlarm ==
  ASSUME TimerInv, TimerInv', Matches, Matches', NEW t \in Timers, TimerCallback(t)
  PROVE  Promise!Ring(t)
<1> DEFINE Rings == /\ Phased = "running" /\ firing = {} /\ firing' = {t} /\ UNCHANGED Phased
                    /\ Phase[t] = "set" /\ Left[t] <= 0
                    /\ \A o \in Timers : Phase[o] = "set" => Left[t] <= Left[o]
<1>1. t \in active /\ t \in opened /\ engine = "running"
  BY DEF TimerCallback, Due, InLoop, TimerInv, FiredIsProtected, ReleaseInv
<1>2. Rings
  BY <1>1 DEF TimerCallback, Due, InLoop, phaseVars, Phased, Matches, TimerInv, RestInv
<1>3. CASE t \notin periodic
  <2>1. Promise!End(t)
    BY <1>1, <1>3, EndAlarm DEF TimerCallback
  <2>2. Period[t] = 0
    BY <1>1, <1>3 DEF Matches, TimerInv, RestInv
  <2> QED BY <1>2, <2>1, <2>2 DEF Phase, Period, Left, Phased, Promise!Ring
<1>4. CASE t \in periodic
  <2>1. Others(t) /\ left'[t] = repeat[t] /\ UNCHANGED <<active, opened, repeat>>
    BY <1>4 DEF TimerInv, TypeOK, Others, TimerCallback
  <2>2. Phase'[t] = "set" /\ Left'[t] = Period[t] /\ Period'[t] = Period[t]
    BY <1>1, <2>1 DEF Matches
  <2>3. Period[t] # 0
    BY <1>1, <1>4 DEF Matches, TimerInv, RestInv
  <2>4. /\ Phase' = [Phase EXCEPT ![t] = "set"]
        /\ Left' = [Left EXCEPT ![t] = Period[t]]
        /\ Period' = Period
    BY <2>1, <2>2, OneAlarm DEF TimerInv, Matches
  <2> QED BY <1>2, <2>3, <2>4
          DEF Phase, Period, Left, Phased, Promise!Ring, Promise!Become
<1> QED BY <1>3, <1>4

LEMMA PauseAlarm ==
  ASSUME TimerInv, TimerInv', Matches, Matches', NEW t \in Timers, pause(t)
  PROVE  Promise!Pause(t) \/ UNCHANGED Promise!vars
<1> USE DEF pause, uv_timer_stop, phaseVars, userVars, cdataVars
<1>1. Others(t) /\ UNCHANGED <<Phased, firing, repeat, opened>> /\ left'[t] = 0
  BY DEF TimerInv, TypeOK, Others, Phased
<1>2. Phase'[t] = "paused" /\ Left'[t] = 0 /\ Period' = Period
  BY <1>1 DEF TimerInv, TypeOK, Matches
<1>3. Phase' = [Phase EXCEPT ![t] = "paused"] /\ Left' = [Left EXCEPT ![t] = 0]
  BY <1>1, <1>2, OneAlarm DEF TimerInv
<1>4. CASE t \in active
  <2>1. Phase[t] = "set"
    BY <1>4 DEF Matches
  <2> QED BY <1>1, <1>2, <1>3, <2>1
          DEF Phase, Period, Left, Phased, Promise!Pause, Promise!Become
<1>5. CASE t \notin active
  <2>1. Phase[t] = "paused" /\ Left[t] = 0
    BY <1>5 DEF Matches, TimerInv, RestInv
  <2>2. UNCHANGED <<Phase, Left>>
    BY <1>3, <2>1 DEF Matches, TimerInv, TypeOK
  <2> QED BY <1>1, <1>2, <2>2 DEF Phase, Period, Left, Phased, Promise!vars
<1> QED BY <1>4, <1>5

(* What leaves libuv's timers alone leaves the alarms alone.                 *)
LEMMA Same ==
  ASSUME TypeOK, TypeOK', Matches, Matches',
         UNCHANGED <<active, opened, left, repeat>>,
         \A t \in Timers : \/ uv'[t] = uv[t]
                           \/ uv[t] = "closing" /\ uv'[t] = "closed"
  PROVE  UNCHANGED <<Phase, Left, Period>>
<1>1. \A t \in Timers : Phase'[t] = Phase[t]
  BY DEF Matches
<1>2. Phase' = Phase
  BY <1>1 DEF Matches
<1> QED BY <1>2 DEF Matches

LEMMA CreatedAlarm ==
  ASSUME TimerInv, TimerInv', Matches, Matches', NEW t \in Timers, Created(t)
  PROVE  [Promise!Next]_Promise!vars
<1>1. ASSUME NEW d \in Nat \ {0}, NEW i \in Nat, init_instance(t, d, i),
             engine = "running", uv[t] = "none"
      PROVE  Promise!Set(t) \/ Promise!Reset(t)
  <2>1. Others(t) /\ t \in opened' /\ UNCHANGED <<engine, firing>> /\ uv_timer_start(t, d, i)
    BY <1>1 DEF init_instance, uv_timer_start, Others, phaseVars, userVars, TimerInv, TypeOK
  <2> QED BY <1>1, <2>1, StartAlarm
<1>2. ASSUME NEW ms \in Delays, New(t, ms) PROVE Promise!Set(t) \/ Promise!Reset(t)
  BY <1>1, <1>2, Rounded DEF New, AE_CHECK_STATUS
<1>3. ASSUME NEW ms \in Delays, NEW every \in Delays, NewPeriodic(t, every, ms)
      PROVE  Promise!Set(t) \/ Promise!Reset(t)
  BY <1>1, <1>3, Rounded DEF NewPeriodic, AE_CHECK_STATUS
<1>4. CASE NewRefused(t)
  <2>1. Others(t) /\ UNCHANGED <<Phased, firing, active, opened, left, repeat>>
    BY <1>4 DEF NewRefused, Others, phaseVars, userVars, cdataVars, Phased, TimerInv, TypeOK
  <2>2. Phase[t] = "none" /\ Phase'[t] = "over" /\ t \notin opened /\ t \notin active
    BY <1>4 DEF NewRefused, Matches, TimerInv, TypeOK, FiredIsProtected
  <2>3. Left'[t] = 0 /\ Period'[t] = 0
    BY <2>1, <2>2 DEF Matches, TimerInv, RestInv
  <2>4. /\ Phase' = [Phase EXCEPT ![t] = "over"] /\ Left' = [Left EXCEPT ![t] = 0]
        /\ Period' = [Period EXCEPT ![t] = 0]
    BY <2>1, <2>2, <2>3, OneAlarm DEF TimerInv
  <2>5. Promise!Close(t)
    BY <2>1, <2>2, <2>4
       DEF Phase, Period, Left, Phased, Promise!Close, Promise!End, Promise!Become
  <2> QED BY <2>5 DEF Promise!Next
<1> QED BY <1>2, <1>3, <1>4 DEF Created, Promise!Next

LEMMA RestartedAlarm ==
  ASSUME TimerInv, TimerInv', Matches, Matches', NEW t \in Timers, Restart(t)
  PROVE  [Promise!Next]_Promise!vars
<1> USE DEF phaseVars, userVars
<1>1. ASSUME NEW d \in Nat \ {0}, NEW i \in Nat, t \in opened,
             uv_timer_start(t, d, i), t \in periodic <=> i # 0,
             UNCHANGED <<phaseVars, userVars, opened, periodic, uv>>
      PROVE  Promise!Set(t) \/ Promise!Reset(t)
  <2>1. Others(t)
    BY <1>1 DEF uv_timer_start, Others, TimerInv, TypeOK
  <2> QED BY <1>1, <2>1, StartAlarm
<1>2. ASSUME NEW d \in Nat \ {0}, restart(t, d) PROVE Promise!Set(t) \/ Promise!Reset(t)
  BY <1>1, <1>2 DEF restart
<1>3. ASSUME NEW d \in Nat \ {0}, NEW i \in Nat \ {0}, restart_periodic(t, d, i)
      PROVE  Promise!Set(t) \/ Promise!Reset(t)
  BY <1>1, <1>3 DEF restart_periodic
<1>4. ASSUME NEW ms \in Delays,
             RestartInterval(t, ms) \/ \E every \in Delays : RestartBoth(t, every, ms)
      PROVE  Promise!Set(t) \/ Promise!Reset(t)
  BY <1>3, <1>4, Rounded DEF RestartInterval, RestartBoth
<1>5. CASE RestartSame(t)
  <2>1. t \in opened /\ t \in periodic
    BY <1>5 DEF RestartSame, restart_periodic
  <2>2. delay[t] \in Nat \ {0} /\ interval[t] \in Nat \ {0}
    BY <2>1 DEF TimerInv, TypeOK, FieldsInv
  <2> QED BY <1>3, <1>5, <2>2 DEF RestartSame, Promise!Next
<1>6. CASE restart(t, delay[t])
  <2>1. delay[t] \in Nat \ {0}
    BY <1>6 DEF restart, TimerInv, TypeOK, FieldsInv
  <2> QED BY <1>2, <1>6, <2>1 DEF Promise!Next
<1>7. ASSUME NEW ms \in Delays, RestartRaises(t, ms) PROVE UNCHANGED Promise!vars
  <2>1. UNCHANGED <<Phased, firing, active, opened, left, repeat, uv>>
    BY <1>7 DEF RestartRaises, uvVars, Phased
  <2>2. UNCHANGED <<Phase, Left, Period>>
    BY <2>1, Same DEF TimerInv
  <2> QED BY <2>1, <2>2 DEF Phase, Period, Left, Phased, Promise!vars
<1>8. ASSUME NEW ms \in Delays, restart(t, Milliseconds(ms))
      PROVE  Promise!Set(t) \/ Promise!Reset(t)
  BY <1>2, <1>8, Rounded
<1> QED BY <1>4, <1>5, <1>6, <1>7, <1>8 DEF Restart, Promise!Next

LEMMA ClosedAlarm ==
  ASSUME TimerInv, TimerInv', Matches, Matches', NEW t \in Timers, Closed(t)
  PROVE  [Promise!Next]_Promise!vars
<1> USE DEF phaseVars, userVars, cdataVars, toldVars, lapseVars
<1>1. CASE TimerCallback(t)
  BY <1>1, RingAlarm DEF Promise!Next
<1>2. CASE close(t) \/ destroy(t)
  <2>1. t \in opened /\ close_handle(t) /\ UNCHANGED <<repeat, Phased, firing>>
    BY <1>2 DEF close, destroy, Phased, TimerInv, FiredIsProtected
  <2>2. Phase[t] # "over"
    BY <2>1 DEF Matches, TimerInv, FiredIsProtected
  <2>3. Promise!End(t)
    BY <2>1, EndAlarm
  <2>4. Promise!Close(t)
    BY <2>1, <2>2, <2>3 DEF Phase, Phased, Promise!Close
  <2> QED BY <2>4 DEF Promise!Next
<1>3. CASE CloseCallback(t)
  <2>1. UNCHANGED <<Phased, firing, active, opened, left, repeat>>
    BY <1>3 DEF CloseCallback, Phased
  <2>2. \A o \in Timers : uv'[o] = uv[o] \/ (uv[o] = "closing" /\ uv'[o] = "closed")
    BY <1>3 DEF CloseCallback, TimerInv, TypeOK
  <2>3. UNCHANGED <<Phase, Left, Period>>
    BY <2>1, <2>2, Same DEF TimerInv
  <2> QED BY <2>1, <2>3 DEF Phase, Period, Left, Phased, Promise!vars
<1> QED BY <1>1, <1>2, <1>3 DEF Closed

LEMMA OtherAlarm ==
  ASSUME TimerInv, TimerInv', Matches, Matches', Other
  PROVE  [Promise!Next]_Promise!vars
<1> USE DEF phaseVars, userVars, cdataVars, uvVars, toldVars, lapseVars
<1>1. ASSUME NEW n \in 1 .. 2, Tick(n) PROVE Promise!TimePasses
  <2>1. UNCHANGED <<Phased, firing, active, opened, repeat, uv>> /\ firing = {}
    BY <1>1 DEF Tick, InLoop, Phased, TimerInv, RestInv
  <2>2. \A t \in Timers : Phase'[t] = Phase[t] /\ Period'[t] = Period[t]
    BY <2>1 DEF Matches
  <2>3. Phase' = Phase /\ Period' = Period
    BY <2>1, <2>2 DEF Matches
  <2>4. Left' = [t \in Timers |-> IF Phase[t] = "set" THEN Left[t] - n ELSE Left[t]]
    BY <1>1 DEF Matches, Tick
  <2>5. Promise!Pass(n)
    BY <2>1, <2>3, <2>4 DEF Phase, Period, Left, Phased, Promise!Pass
  <2> QED BY <2>5 DEF Promise!TimePasses
<1>2. CASE EnterUser \/ UserReturn \/ ReleaseBegin \/ ReleaseEnd \/ LoopExit
  <2>1. UNCHANGED <<Phase, Left, Period>>
    BY <1>2, Same DEF TimerInv, EnterUser, UserReturn, ReleaseBegin, ReleaseEnd, LoopExit
  <2>2. CASE EnterUser \/ ReleaseEnd
    <3>1. UNCHANGED <<Phased, firing>>
      BY <2>2 DEF EnterUser, ReleaseEnd, Phased
    <3> QED BY <2>1, <3>1 DEF Phase, Period, Left, Phased, Promise!vars
  <2>3. CASE UserReturn
    <3>1. UNCHANGED Phased /\ firing' = {}
      BY <2>3 DEF UserReturn, Phased
    <3>2. CASE firing = {}
      BY <2>1, <3>1, <3>2 DEF Phase, Period, Left, Phased, Promise!vars
    <3>3. CASE firing # {}
      BY <2>1, <3>1, <3>3 DEF Phase, Period, Left, Phased, Promise!Rung, Promise!Next
    <3> QED BY <3>2, <3>3
  <2>4. CASE ReleaseBegin
    <3>1. Phased = "running" /\ Phased' = "releasing" /\ firing = {} /\ firing' = firing
      BY <2>4 DEF ReleaseBegin, Phased, TimerInv, RestInv
    <3> QED BY <2>1, <3>1 DEF Phase, Period, Left, Phased, Promise!Release, Promise!Next
  <2>5. CASE LoopExit
    <3>1. Phased = "releasing" /\ Phased' = "stopped" /\ firing' = firing
      BY <2>5 DEF LoopExit, Phased
    <3>2. \A t \in Timers : Phase[t] \in {"none", "over"}
      BY <2>5 DEF LoopExit, Matches
    <3> QED BY <2>1, <3>1, <3>2 DEF Phase, Period, Left, Phased, Promise!Stop, Promise!Next
  <2> QED BY <1>2, <2>2, <2>3, <2>4, <2>5
<1> QED BY <1>1, <1>2 DEF Other, Promise!Next

(* Timers ring as alarms do: once or once per period, never before their     *)
(* time, in order, and never once they are paused, closed or released.       *)
THEOREM RingsInOrderHolds == Spec => RingsInOrder
<1>1. Init => Promise!Init
  BY DEF Init, Zero, Promise!Init
<1>2. /\ TimerInv => Matches
      /\ TimerInv' => Matches'
  BY AsPromised, PTL
<1>3. TimerInv /\ TimerInv' /\ [Next]_vars => [Promise!Next]_Promise!vars
  <2> SUFFICES ASSUME TimerInv, TimerInv', [Next]_vars
               PROVE  [Promise!Next]_Promise!vars
    OBVIOUS
  <2>1. Matches /\ Matches'
    BY <1>2
  <2>2. CASE UNCHANGED vars
    BY <2>2 DEF vars, userVars, uvVars, toldVars, lapseVars, cdataVars, Promise!vars
  <2>3. CASE Next
    <3>1. \/ \E t \in Timers : Created(t) \/ Restart(t) \/ Closed(t) \/ pause(t)
          \/ Other
      BY <2>3 DEF Next, Created, Closed, Other
    <3>2. ASSUME NEW t \in Timers, pause(t) PROVE [Promise!Next]_Promise!vars
      BY <2>1, <3>2, PauseAlarm DEF Promise!Next
    <3> QED BY <2>1, <3>1, <3>2, CreatedAlarm, RestartedAlarm, ClosedAlarm, OtherAlarm
  <2> QED BY <2>2, <2>3
<1> QED BY <1>1, <1>3, TimerInvariant, PTL DEF Spec, RingsInOrder
-----------------------------------------------------------------------------
(* The timers as things of a lifetime, which has no requests for them.  What *)
(* a step does to it is what it does to uv and to the engine.                *)
LEMMA LifeWork ==
  ASSUME engine = "running", engine' = engine,
         \A t \in Timers : uv[t] = "open" => uv'[t] \in {"open", "closing"}
  PROVE  Life!Work
BY DEF Life!Work, Life!Closed

LEMMA LifeDestroy ==
  ASSUME engine = "destroying", engine' = engine,
         \A t \in Timers : \/ uv'[t] = uv[t]
                           \/ uv[t] = "open" /\ uv'[t] = "closing"
  PROVE  Life!Destroy
BY DEF Life!Destroy, Life!Closed

LEMMA LifeDrain ==
  ASSUME engine = "draining", engine' = engine,
         \A t \in Timers : \/ uv'[t] = uv[t]
                           \/ uv[t] = "closing" /\ uv'[t] = "closed"
  PROVE  Life!Drain
BY DEF Life!Drain

LEMMA LifeRests ==
  ASSUME UNCHANGED <<engine, uv>>
  PROVE  UNCHANGED Life!vars
BY DEF Life!vars

(* Only a running engine makes timers.                                       *)
LEMMA CreatedLives ==
  ASSUME TimerInv, NEW t \in Timers, Created(t)
  PROVE  Life!Work
<1>1. engine = "running" /\ engine' = engine
  BY DEF Created, New, NewPeriodic, NewRefused, init_instance, AE_CHECK_STATUS, phaseVars
<1>2. uv[t] = "none" /\ (uv' = [uv EXCEPT ![t] = "open"] \/ uv' = [uv EXCEPT ![t] = "closing"])
  BY DEF Created, New, NewPeriodic, NewRefused, init_instance
<1>3. \A o \in Timers : uv[o] = "open" => uv'[o] = "open"
  BY <1>2 DEF TimerInv, TypeOK
<1> QED BY <1>1, <1>3, LifeWork

(* A timer is closed by its callback or its owner while it is open, by the   *)
(* release once; when the loop drains no callback of a timer is left, only   *)
(* the reports of closes.                                                    *)
LEMMA ClosedLives ==
  ASSUME TimerInv, NEW t \in Timers, Closed(t)
  PROVE  [Life!Next]_(Life!vars)
<1> USE DEF phaseVars
<1> uv \in [Timers -> {"none", "open", "closing", "closed"}]
  BY DEF TimerInv, TypeOK
<1>1. engine' = engine
  BY DEF Closed, TimerCallback, close, destroy, CloseCallback
<1>2. ASSUME t \in opened
      PROVE  uv[t] = "open" /\ engine \in {"running", "destroying"}
  BY <1>2 DEF TimerInv, TypeOK, FiredIsProtected, ReleaseInv
<1>3. CASE TimerCallback(t)
  <2>1. t \in opened
    BY <1>3 DEF TimerCallback, Due, TimerInv, FiredIsProtected
  <2>2. engine = "running"
    BY <1>2, <1>3, <2>1 DEF TimerCallback, InLoop
  <2>3. uv' = uv \/ uv' = [uv EXCEPT ![t] = "closing"]
    BY <1>3 DEF TimerCallback, close_handle
  <2> QED BY <1>1, <2>2, <2>3, LifeWork DEF Life!Next
<1>4. CASE close(t)
  <2>1. t \in opened /\ uv' = [uv EXCEPT ![t] = "closing"]
    BY <1>4 DEF close, close_handle
  <2> QED BY <1>1, <1>2, <2>1, LifeWork, LifeDestroy DEF Life!Next
<1>5. CASE destroy(t)
  <2>1. t \in opened /\ engine = "destroying"
    BY <1>5 DEF destroy, TimerInv, FiredIsProtected
  <2>2. uv' = [uv EXCEPT ![t] = "closing"]
    BY <1>5, <2>1 DEF destroy, close_handle
  <2> QED BY <1>1, <1>2, <2>1, <2>2, LifeDestroy DEF Life!Next
<1>6. CASE CloseCallback(t)
  <2>1. uv[t] = "closing" /\ uv' = [uv EXCEPT ![t] = "closed"]
    BY <1>6 DEF CloseCallback
  <2>2. engine \in {"running", "draining"}
    BY <1>6 DEF CloseCallback, InLoop
  <2> QED BY <1>1, <2>1, <2>2, LifeWork, LifeDrain DEF Life!Next
<1> QED BY <1>3, <1>4, <1>5, <1>6 DEF Closed

(* The release and the return of AE.run.                                     *)
LEMMA ReleaseLives ==
  ASSUME TimerInv, ReleaseBegin \/ ReleaseEnd \/ LoopExit
  PROVE  Life!Next
<1> USE DEF uvVars
<1>1. CASE ReleaseBegin
  <2>1. UNCHANGED Life!things
    BY <1>1 DEF ReleaseBegin, Life!things
  <2> QED BY <1>1, <2>1 DEF ReleaseBegin, Life!Begin, Life!Enter, Life!Next
<1>2. CASE ReleaseEnd
  <2>1. UNCHANGED Life!things
    BY <1>2 DEF ReleaseEnd, Life!things
  <2>2. {t \in Timers : uv[t] = "open"} = {}
    BY <1>2 DEF ReleaseEnd, TimerInv, FiredIsProtected, ReleaseInv
  <2> QED BY <1>2, <2>1, <2>2 DEF ReleaseEnd, Life!Destroyed, Life!Enter, Life!Next
<1>3. CASE LoopExit
  <2>1. UNCHANGED Life!things
    BY <1>3 DEF LoopExit, Life!things
  <2>2. {t \in Timers : uv[t] = "open"} = {} /\ {t \in Timers : uv[t] = "closing"} = {}
    BY <1>3 DEF LoopExit
  <2> QED BY <1>3, <2>1, <2>2 DEF LoopExit, Life!Stop, Life!Enter, Life!Next
<1> QED BY <1>1, <1>2, <1>3

(* Every step of Timer is a step of Lifetime or a stutter.                   *)
LEMMA LifetimeStep ==
  ASSUME TimerInv, [Next]_vars
  PROVE  [Life!Next]_(Life!vars)
<1> USE DEF phaseVars, uvVars
<1>1. CASE UNCHANGED vars
  BY <1>1, LifeRests DEF vars
<1>2. CASE Next
  <2>1. \/ \E t \in Timers : Created(t) \/ Restart(t) \/ Closed(t) \/ pause(t)
        \/ Other
    BY <1>2 DEF Next, Created, Closed, Other
  <2>2. ASSUME NEW t \in Timers, Restart(t) \/ pause(t) PROVE UNCHANGED Life!vars
    <3>1. UNCHANGED <<engine, uv>>
      BY <2>2 DEF pause, Restart, restart, RestartInterval, RestartRaises,
             RestartBoth, RestartSame, restart_periodic
    <3> QED BY <3>1, LifeRests
  <2>3. ASSUME NEW n \in 1 .. 2, Tick(n) PROVE UNCHANGED Life!vars
    BY <2>3, LifeRests DEF Tick
  <2>4. CASE EnterUser \/ UserReturn
    BY <2>4, LifeRests DEF EnterUser, UserReturn
  <2> QED BY <2>1, <2>2, <2>3, <2>4, CreatedLives, ClosedLives, ReleaseLives
          DEF Other, Life!Next
<1> QED BY <1>1, <1>2

(* Timer implements Lifetime: no timer is forgotten, the release closes them *)
(* all, and AE.run returns when each is reported closed.                     *)
THEOREM TimersLive == Spec => LivesInOrder
<1>1. Init => Life!Init
  BY DEF Init, Life!Init
<1>2. TimerInv /\ [Next]_vars => [Life!Next]_(Life!vars)
  BY LifetimeStep
<1> QED BY <1>1, <1>2, TimerInvariant, PTL DEF Spec, LivesInOrder, Life!Spec
=============================================================================
