-------------------------------- MODULE Timer --------------------------------
(* Timer and PeriodicTimer (ext/asyncengine/ae_timer.c), from the            *)
(* constructor to the release of the engine.                                 *)
(*                                                                           *)
(* Time is the loop's: libuv reads the clock between callbacks and a timer   *)
(* is due when what it had left is used up, so that only differences matter. *)
(* A callback and a method are one step each; the proc is user code, which   *)
(* may call any method of any timer before it returns.                       *)
(*                                                                           *)
(* A definition marked "mutant" is a deliberate fault that could replace the *)
(* definition below it; no specification uses one.                           *)
EXTENDS Integers

CONSTANTS Timers,
          Delays,       \* the delays and intervals passed, in ms,
          MaxDelay,     \*   and the bound on them
          MaxLate,      \* bound on how late the loop gets
          Lapses        \* the calls made of those that PeriodicTimer#restart
                        \*   does not treat as its comment says

ASSUME DelayAssumption == MaxDelay \in Nat \ {0} /\ Delays \subseteq 0 .. MaxDelay
ASSUME LateAssumption == MaxLate \in Nat
ASSUME LapsesAssumption == Lapses \subseteq {"delayAlone", "delayRaises"}

VARIABLES
  engine,       \* "running", "destroying" or "draining" (RELEASING), "stopped"
  user,         \* the AE thread is in user code,
  firing,       \*   and of these timers: in their proc
  toDestroy,    \* what rb_hash_foreach has still to visit
  handles,      \* AE_handles

  opened,       \* timers whose _uv_handle is not NULL
  periodic,     \* timers whose field periodic is 1
  delay,        \* the fields of the C structure
  interval,

  uv,           \* the life of each uv_timer_t
  active,       \* timers libuv has started
  left,         \* time until each active timer is due, negative when late
  repeat,       \* what uv_timer_get_repeat returns

  toldDelay,    \* history: the delay and the interval that the comments above
  toldInterval, \*   the methods promise for the calls made so far,
  toldLeft,     \*   and what they leave of the time of an active timer;
  fouled,       \*   timers whose fields a call of Lapses has set otherwise,
  strayed       \*   and those last started with such fields

phaseVars == <<engine, toDestroy>>
userVars == <<user, firing>>
cdataVars == <<opened, periodic, delay, interval>>
uvVars == <<uv, active, left, repeat>>
lapseVars == <<fouled, strayed>>
toldVars == <<toldDelay, toldInterval, toldLeft, lapseVars>>

vars == <<engine, userVars, toDestroy, handles, cdataVars, uvVars, toldVars>>

Times == - MaxLate .. MaxDelay

TypeOK ==
  /\ engine \in {"running", "destroying", "draining", "stopped"}
  /\ user \in BOOLEAN /\ firing \subseteq Timers
  /\ toDestroy \subseteq Timers /\ handles \subseteq Timers
  /\ opened \subseteq Timers /\ periodic \subseteq Timers
  /\ active \subseteq Timers
  /\ delay \in [Timers -> Nat] /\ interval \in [Timers -> Nat]
  /\ repeat \in [Timers -> Nat] /\ left \in [Timers -> Int]
  /\ uv \in [Timers -> {"none", "open", "closing", "closed"}]
  /\ toldDelay \in [Timers -> Nat] /\ toldInterval \in [Timers -> Nat]
  /\ toldLeft \in [Timers -> Int]
  /\ fouled \subseteq Timers /\ strayed \subseteq Timers

Zero == [t \in Timers |-> 0]

Init ==
  /\ engine = "running" /\ user = FALSE /\ firing = {} /\ toDestroy = {} /\ handles = {}
  /\ opened = {} /\ periodic = {} /\ active = {}
  /\ delay = Zero /\ interval = Zero /\ left = Zero /\ repeat = Zero
  /\ uv = [t \in Timers |-> "none"]
  /\ toldDelay = Zero /\ toldInterval = Zero /\ toldLeft = Zero
  /\ fouled = {} /\ strayed = {}

InLoop == engine \in {"running", "draining"} /\ ~user     \* inside uv_run()
AE_CHECK_STATUS == engine = "running"

(* Delays are passed in seconds, and none is below a millisecond.            *)
Milliseconds(ms) == IF ms < 1 THEN 1 ELSE ms

Told(t, d, i) ==
  /\ toldDelay' = [toldDelay EXCEPT ![t] = d]
  /\ toldInterval' = [toldInterval EXCEPT ![t] = i]
  /\ toldLeft' = [toldLeft EXCEPT ![t] = d]

AsTold(t) == fouled' = fouled \ {t} /\ strayed' = strayed \ {t}

Forget(t) == Told(t, 0, 0) /\ AsTold(t)

-----------------------------------------------------------------------------
(* libuv: a started timer is due in d, and then again every i unless i is 0. *)
uv_timer_start(t, d, i) ==
  /\ active' = active \cup {t}
  /\ left' = [left EXCEPT ![t] = d]
  /\ repeat' = [repeat EXCEPT ![t] = i]

uv_timer_stop(t) ==
  /\ active' = active \ {t}
  /\ left' = [left EXCEPT ![t] = 0]

close_handle_KeepsObject(t) ==                          \* mutant
  /\ uv' = [uv EXCEPT ![t] = "closing"]
  /\ uv_timer_stop(t) /\ Forget(t)
  /\ opened' = opened \ {t}
  /\ UNCHANGED handles

close_handle_StopsOnly(t) ==                            \* mutant
  /\ uv_timer_stop(t) /\ Forget(t)
  /\ opened' = opened \ {t}
  /\ handles' = handles \ {t}
  /\ UNCHANGED uv

close_handle(t) ==
  /\ uv' = [uv EXCEPT ![t] = "closing"]
  /\ uv_timer_stop(t) /\ Forget(t)
  /\ opened' = opened \ {t}
  /\ handles' = handles \ {t}

-----------------------------------------------------------------------------
(* Timer.new (i = 0) and PeriodicTimer.new.                                  *)
init_instance(t, d, i) ==
  /\ uv' = [uv EXCEPT ![t] = "open"]
  /\ opened' = opened \cup {t}
  /\ delay' = [delay EXCEPT ![t] = d]
  /\ interval' = [interval EXCEPT ![t] = i]
  /\ periodic' = IF i # 0 THEN periodic \cup {t} ELSE periodic \ {t}
  /\ handles' = handles \cup {t}
  /\ uv_timer_start(t, d, i)
  /\ UNCHANGED <<phaseVars, userVars>>

New(t, ms) ==
  /\ user /\ AE_CHECK_STATUS /\ uv[t] = "none"
  /\ init_instance(t, Milliseconds(ms), 0)
  /\ Told(t, IF ms = 0 THEN 1 ELSE ms, 0) /\ UNCHANGED lapseVars

NewPeriodic(t, every, ms) ==
  /\ user /\ AE_CHECK_STATUS /\ uv[t] = "none"
  /\ init_instance(t, Milliseconds(ms), Milliseconds(every))
  /\ Told(t, IF ms = 0 THEN 1 ELSE ms, IF every = 0 THEN 1 ELSE every)
  /\ UNCHANGED lapseVars

(* libuv refuses to start the timer: it is closed, and the constructor       *)
(* raises.                                                                   *)
NewRefused(t) ==
  /\ user /\ AE_CHECK_STATUS /\ uv[t] = "none"
  /\ uv' = [uv EXCEPT ![t] = "closing"]
  /\ UNCHANGED <<phaseVars, userVars, handles, cdataVars, active, left, repeat,
                 toldVars>>

(* The callback: libuv takes the timer out and, if it repeats, starts it     *)
(* again; one that does not repeat is closed before its proc runs.  Of the   *)
(* timers that are due the earliest comes first.                             *)
Due(t) == t \in active /\ left[t] <= 0 /\ \A o \in active : left[t] <= left[o]

TimerCallback(t) ==
  /\ InLoop /\ Due(t)
  /\ user' = TRUE /\ firing' = {t}
  /\ IF t \notin periodic
       THEN close_handle(t)
       ELSE /\ left' = [left EXCEPT ![t] = repeat[t]]
            /\ toldLeft' = [toldLeft EXCEPT ![t] = toldInterval[t]]
            /\ UNCHANGED <<handles, opened, uv, active, toldDelay, toldInterval, lapseVars>>
  /\ UNCHANGED <<phaseVars, periodic, delay, interval, repeat>>

-----------------------------------------------------------------------------
pause(t) ==
  /\ user /\ t \in opened
  /\ uv_timer_stop(t) /\ toldLeft' = [toldLeft EXCEPT ![t] = 0]
  /\ UNCHANGED <<phaseVars, userVars, handles, cdataVars, uv, repeat, toldDelay,
                 toldInterval, lapseVars>>

(* Timer#restart: with no argument the previous delay.                       *)
restart(t, d) ==
  /\ user /\ t \in opened \ periodic
  /\ delay' = [delay EXCEPT ![t] = d]
  /\ uv_timer_start(t, d, 0)
  /\ Told(t, d, 0) /\ UNCHANGED lapseVars
  /\ UNCHANGED <<phaseVars, userVars, handles, opened, periodic, interval, uv>>

(* PeriodicTimer#restart, with the delay and the interval it settles on.     *)
restart_periodic_OnlyPaused(t, d, i) ==                 \* mutant
  /\ user /\ t \in opened \cap periodic
  /\ delay' = [delay EXCEPT ![t] = d]
  /\ interval' = [interval EXCEPT ![t] = i]
  /\ IF t \in active THEN UNCHANGED <<active, left, repeat>>
                     ELSE uv_timer_start(t, d, i)
  /\ UNCHANGED <<phaseVars, userVars, handles, opened, periodic, uv>>

restart_periodic(t, d, i) ==
  /\ user /\ t \in opened \cap periodic
  /\ delay' = [delay EXCEPT ![t] = d]
  /\ interval' = [interval EXCEPT ![t] = i]
  /\ uv_timer_start(t, d, i)
  /\ UNCHANGED <<phaseVars, userVars, handles, opened, periodic, uv>>

(* No interval: "previous interval is used", with the delay that is given or *)
(* else the "previous delay value".  The code does not look at that delay.   *)
DelaysPromised(t) ==
  {toldDelay[t]} \cup IF "delayAlone" \in Lapses THEN {Milliseconds(ms) : ms \in Delays}
                                                 ELSE {}

RestartSame(t) ==
  /\ restart_periodic(t, delay[t], interval[t])
  /\ \E d \in DelaysPromised(t) :
       /\ Told(t, d, toldInterval[t])
       /\ fouled' = IF d = toldDelay[t] THEN fouled ELSE fouled \cup {t}
  /\ strayed' = IF t \in fouled' THEN strayed \cup {t} ELSE strayed \ {t}

RestartInterval(t, ms) ==
  /\ restart_periodic(t, Milliseconds(ms), Milliseconds(ms))
  /\ Told(t, Milliseconds(ms), Milliseconds(ms)) /\ AsTold(t)

RestartBoth(t, every, ms) ==
  /\ restart_periodic(t, Milliseconds(ms), Milliseconds(every))
  /\ Told(t, Milliseconds(ms), Milliseconds(every)) /\ AsTold(t)

(* An interval and a delay that is not a number: NUM2DBL raises when the     *)
(* interval is already stored, and a later restart uses it.                  *)
RestartRaises(t, every) ==
  /\ "delayRaises" \in Lapses
  /\ user /\ t \in opened \cap periodic
  /\ interval' = [interval EXCEPT ![t] = Milliseconds(every)]
  /\ fouled' = IF Milliseconds(every) = toldInterval[t] /\ delay[t] = toldDelay[t]
                 THEN fouled \ {t} ELSE fouled \cup {t}
  /\ UNCHANGED <<phaseVars, userVars, handles, opened, periodic, delay, uvVars,
                 toldDelay, toldInterval, toldLeft, strayed>>

close(t) ==
  /\ user /\ t \in opened
  /\ close_handle(t)
  /\ UNCHANGED <<phaseVars, userVars, periodic, delay, interval, repeat>>

-----------------------------------------------------------------------------
(* The rest of the engine.  The loop's clock may jump.  The promise to a     *)
(* timer that strayed can be later than the bound: it stays there.           *)
AtLatest(time) == IF time \in Times THEN time ELSE - MaxLate

Tick(n) ==
  /\ InLoop /\ active # {}
  /\ \A t \in active : left[t] - n \in Times
  /\ left' = [t \in Timers |-> IF t \in active THEN left[t] - n ELSE left[t]]
  /\ toldLeft' = [t \in Timers |-> IF t \in active THEN AtLatest(toldLeft[t] - n)
                                                   ELSE toldLeft[t]]
  /\ UNCHANGED <<phaseVars, userVars, handles, cdataVars, uv, active, repeat,
                 toldDelay, toldInterval, lapseVars>>

(* Another callback runs user code: a hook may also do so while release_loop *)
(* destroys the handles.                                                     *)
EnterUser ==
  /\ engine \in {"running", "destroying", "draining"} /\ ~user
  /\ user' = TRUE
  /\ UNCHANGED <<phaseVars, firing, handles, cdataVars, uvVars, toldVars>>

UserReturn ==
  /\ user
  /\ user' = FALSE /\ firing' = {}
  /\ UNCHANGED <<phaseVars, handles, cdataVars, uvVars, toldVars>>

ReleaseBegin ==
  /\ engine = "running" /\ ~user
  /\ engine' = "destroying" /\ toDestroy' = handles
  /\ UNCHANGED <<userVars, handles, cdataVars, uvVars, toldVars>>

destroy_SkipsPaused(t) ==                               \* mutant
  /\ engine = "destroying" /\ ~user /\ t \in toDestroy \cap handles
  /\ toDestroy' = toDestroy \ {t}
  /\ IF t \in opened \cap active
       THEN close_handle(t)
       ELSE UNCHANGED <<uv, active, left, opened, handles, toldVars>>
  /\ UNCHANGED <<engine, userVars, periodic, delay, interval, repeat>>

destroy(t) ==
  /\ engine = "destroying" /\ ~user /\ t \in toDestroy \cap handles
  /\ toDestroy' = toDestroy \ {t}
  /\ IF t \in opened
       THEN close_handle(t)
       ELSE UNCHANGED <<uv, active, left, opened, handles, toldVars>>
  /\ UNCHANGED <<engine, userVars, periodic, delay, interval, repeat>>

ReleaseEnd ==
  /\ engine = "destroying" /\ ~user /\ toDestroy \cap handles = {}
  /\ engine' = "draining" /\ toDestroy' = {}
  /\ UNCHANGED <<userVars, handles, cdataVars, uvVars, toldVars>>

CloseCallback(t) ==
  /\ InLoop /\ uv[t] = "closing"
  /\ uv' = [uv EXCEPT ![t] = "closed"]
  /\ UNCHANGED <<phaseVars, userVars, handles, cdataVars, active, left, repeat,
                 toldVars>>

LoopExit ==
  /\ engine = "draining" /\ ~user
  /\ \A t \in Timers : uv[t] \in {"none", "closed"}
  /\ engine' = "stopped"
  /\ UNCHANGED <<userVars, toDestroy, handles, cdataVars, uvVars, toldVars>>

Restart(t) ==
  \/ \E ms \in Delays :
       \/ restart(t, Milliseconds(ms)) \/ RestartInterval(t, ms)
       \/ RestartRaises(t, ms) \/ \E every \in Delays : RestartBoth(t, every, ms)
  \/ restart(t, delay[t]) \/ RestartSame(t)

Next ==
  \/ \E t \in Timers :
       \/ \E ms \in Delays :
            New(t, ms) \/ \E every \in Delays : NewPeriodic(t, every, ms)
       \/ NewRefused(t) \/ TimerCallback(t) \/ pause(t) \/ Restart(t)
       \/ close(t) \/ destroy(t) \/ CloseCallback(t)
  \/ \E n \in 1 .. 2 : Tick(n)
  \/ EnterUser \/ UserReturn \/ ReleaseBegin \/ ReleaseEnd \/ LoopExit

Spec == Init /\ [][Next]_vars

(* User code returns.  uv_run() runs each timer that stays due, and gets on  *)
(* with the closes and the release however busy it is: a released engine has *)
(* only so many hooks of other components left to call.                      *)
Fairness ==
  /\ WF_vars(UserReturn)
  /\ \A t \in Timers : SF_vars(TimerCallback(t))
  /\ SF_vars(\/ ReleaseEnd \/ LoopExit
             \/ \E t \in Timers : destroy(t) \/ CloseCallback(t))

FairSpec == Spec /\ Fairness

-----------------------------------------------------------------------------
(* A timer is armed as the comments above the methods promise for the calls  *)
(* that were made: due when they say and repeating as often as they say.     *)
(* Each call of Lapses breaks it.                                            *)
ArmedAsDocumented ==
  \A t \in active : left[t] = toldLeft[t] /\ repeat[t] = toldInterval[t]

(* What is left of it then: a delay that is ignored, or a restart that       *)
(* raised, harms no other timer, and not even its own until that is started  *)
(* again from its fields; a restart with an interval makes it good.          *)
OthersAsDocumented ==
  \A t \in active \ strayed : left[t] = toldLeft[t] /\ repeat[t] = toldInterval[t]

(* libuv fires only timers that Ruby keeps from the collector, and the field *)
(* "periodic", fixed by the constructor, agrees with what libuv repeats: a   *)
(* repeating timer is never closed by its callback, and one that does not    *)
(* repeat never stays open after it.                                         *)
FiredIsProtected ==
  /\ active \subseteq handles
  /\ handles = opened /\ opened = {t \in Timers : uv[t] = "open"}
  /\ \A t \in active : t \in periodic <=> repeat[t] # 0

(* No proc of a timer is called once the release has closed the timers,      *)
(* though the callback never looks at the status of the engine.              *)
NoneLeftToFire == engine \in {"draining", "stopped"} => active = {}

Promise == INSTANCE Alarm WITH
  Alarms <- Timers,
  engine <- IF engine \in {"destroying", "draining"} THEN "releasing" ELSE engine,
  phase  <- [t \in Timers |->
               CASE t \in active -> "set"
                 [] t \in opened \ active -> "paused"
                 [] uv[t] = "none" -> "none"
                 [] OTHER -> "over"],
  ringing <- firing,
  period <- [t \in Timers |-> IF t \in strayed THEN repeat[t] ELSE toldInterval[t]],
  left   <- [t \in Timers |-> IF t \in strayed THEN left[t] ELSE toldLeft[t]]

(* Timers are alarms: on time, in order, and never once paused, closed or    *)
(* released.                                                                 *)
RingsInOrder == Promise!Init /\ [][Promise!Next]_Promise!vars

(* And every timer that is due rings.                                        *)
KeepsRinging == Promise!Spec

-----------------------------------------------------------------------------
(* What the engine promises to the timers in it.                             *)
Life == INSTANCE Lifetime WITH
  phase   <- engine,
  open    <- {t \in Timers : uv[t] = "open"},
  closing <- {t \in Timers : uv[t] = "closing"},
  pending <- {}

(* The release closes every timer, paused or due, a hook cannot make another *)
(* one, and AE.run returns when all are reported closed.                     *)
LivesInOrder == Life!Spec
=============================================================================
