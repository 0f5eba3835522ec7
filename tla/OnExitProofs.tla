---------------------------- MODULE OnExitProofs ----------------------------
(* The inductive invariant of OnExit and what follows from it.  The lemmas   *)
(* of the first part say what Enter, Now and Leave do to a thread's calls;   *)
(* each lemma "...Step" then shows that no step breaks one part of the       *)
(* invariant.                                                                *)
EXTENDS OnExit, SequenceTheorems, FiniteSetTheorems, TLAPS

LEMMA FrontOf ==
  ASSUME NEW S, NEW s \in Seq(S), s # <<>>
  PROVE  /\ Len(s) \in Nat \ {0} /\ DOMAIN s = 1 .. Len(s)
         /\ Front(s) \in Seq(S)
         /\ Len(Front(s)) = Len(s) - 1
         /\ \A i \in 1 .. Len(s) - 1 : Front(s)[i] = s[i]
<1>1. Len(s) \in Nat \ {0} /\ DOMAIN s = 1 .. Len(s)
  BY EmptySeq, LenProperties
<1> DEFINE n == Len(s) - 1
<1>2. n \in Int /\ 1 \in Int /\ \A i \in 1 .. n : s[i] \in S
  BY <1>1, ElementOfSeq
<1>3. /\ SubSeq(s, 1, n) \in Seq(S)
      /\ Len(SubSeq(s, 1, n)) = IF 1 <= n THEN n - 1 + 1 ELSE 0
      /\ \A i \in 1 .. n - 1 + 1 : SubSeq(s, 1, n)[i] = s[1 + i - 1]
  BY <1>2, SubSeqProperties
<1>4. Front(s) = SubSeq(s, 1, n)
  BY DEF Front
<1> HIDE DEF n
<1>5. n = Len(s) - 1
  BY DEF n
<1>6. \A i \in 1 .. n : SubSeq(s, 1, n)[i] = s[i]
  BY <1>1, <1>3, <1>5
<1> QED BY <1>1, <1>3, <1>4, <1>5, <1>6

LEMMA WithLast ==
  ASSUME NEW S, NEW s \in Seq(S), s # <<>>, NEW e \in S
  PROVE  /\ Append(Front(s), e) \in Seq(S)
         /\ Len(Append(Front(s), e)) = Len(s)
         /\ Append(Front(s), e)[Len(s)] = e
         /\ \A i \in 1 .. Len(s) - 1 : Append(Front(s), e)[i] = s[i]
<1> PICK f \in Seq(S) : f = Front(s)
  BY FrontOf
<1>1. /\ Append(f, e) \in Seq(S) /\ Len(Append(f, e)) = Len(f) + 1
      /\ \A i \in 1 .. Len(f) : Append(f, e)[i] = f[i]
      /\ Append(f, e)[Len(f) + 1] = e
  BY AppendProperties
<1>2. Len(s) \in Nat \ {0} /\ Len(f) = Len(s) - 1 /\ \A i \in 1 .. Len(s) - 1 : f[i] = s[i]
  BY FrontOf
<1> QED BY <1>1, <1>2

-----------------------------------------------------------------------------
(* What the operations on `calls' do to the calls of all threads.            *)
Numbered == \A u \in Threads : /\ Len(calls[u]) \in Nat
                               /\ DOMAIN calls[u] = 1 .. Len(calls[u])

OthersKept(t) == \A u \in Threads : u # t => calls'[u] = calls[u]

Pushed(t, c) ==
  /\ OthersKept(t)
  /\ Len(calls'[t]) = Len(calls[t]) + 1
  /\ calls'[t][Len(calls[t]) + 1] = c
  /\ \A i \in 1 .. Len(calls[t]) : calls'[t][i] = calls[t][i]

Replaced(t, c) ==
  /\ OthersKept(t)
  /\ Len(calls'[t]) = Len(calls[t])
  /\ calls'[t][Len(calls[t])] = c
  /\ \A i \in 1 .. Len(calls[t]) - 1 : calls'[t][i] = calls[t][i]

Popped(t) ==
  /\ OthersKept(t)
  /\ Len(calls'[t]) = Len(calls[t]) - 1
  /\ \A i \in 1 .. Len(calls[t]) - 1 : calls'[t][i] = calls[t][i]

CallsOK == calls \in [Threads -> Seq(CallType)]

LEMMA Numbering == CallsOK => Numbered
BY LenProperties DEF CallsOK, Numbered

LEMMA EnterCalls ==
  ASSUME CallsOK, NEW t \in Threads, NEW c \in CallType, Enter(t, c)
  PROVE  CallsOK' /\ Numbered' /\ Pushed(t, c)
<1>1. calls' = [calls EXCEPT ![t] = Append(calls[t], c)]
  BY DEF Enter
<1>2. calls[t] \in Seq(CallType) /\ calls'[t] = Append(calls[t], c)
  BY <1>1 DEF CallsOK
<1>3. calls'[t] \in Seq(CallType)
  BY <1>2, AppendProperties
<1>4. CallsOK' /\ Numbered'
  BY <1>1, <1>3, LenProperties DEF CallsOK, Numbered
<1>5. /\ Len(calls'[t]) = Len(calls[t]) + 1
      /\ calls'[t][Len(calls[t]) + 1] = c
      /\ \A i \in 1 .. Len(calls[t]) : calls'[t][i] = calls[t][i]
  BY <1>2, AppendProperties, LenProperties
<1>6. \A u \in Threads : u # t => calls'[u] = calls[u]
  BY <1>1 DEF CallsOK
<1> QED BY <1>4, <1>5, <1>6 DEF Pushed, OthersKept

LEMMA LeaveCalls ==
  ASSUME CallsOK, NEW t \in Threads, calls[t] # <<>>, Leave(t)
  PROVE  CallsOK' /\ Numbered' /\ Popped(t)
<1>1. calls' = [calls EXCEPT ![t] = Front(calls[t])]
  BY DEF Leave
<1>2. calls[t] \in Seq(CallType) /\ calls'[t] = Front(calls[t])
  BY <1>1 DEF CallsOK
<1>3. calls'[t] \in Seq(CallType)
  BY <1>2, FrontOf
<1>4. CallsOK' /\ Numbered'
  BY <1>1, <1>3, LenProperties DEF CallsOK, Numbered
<1>5. /\ Len(calls'[t]) = Len(calls[t]) - 1
      /\ \A i \in 1 .. Len(calls[t]) - 1 : calls'[t][i] = calls[t][i]
  BY <1>2, FrontOf
<1>6. \A u \in Threads : u # t => calls'[u] = calls[u]
  BY <1>1 DEF CallsOK
<1> QED BY <1>4, <1>5, <1>6 DEF Popped, OthersKept

LEMMA NowCalls ==
  ASSUME CallsOK, NEW t \in Threads, calls[t] # <<>>, NEW c \in CallType, Now(t, c)
  PROVE  CallsOK' /\ Numbered' /\ Replaced(t, c)
<1>1. calls' = [calls EXCEPT ![t] = Append(Front(calls[t]), c)]
  BY DEF Now
<1>2. calls[t] \in Seq(CallType) /\ calls'[t] = Append(Front(calls[t]), c)
  BY <1>1 DEF CallsOK
<1>3. calls'[t] \in Seq(CallType)
  BY <1>2, WithLast
<1>4. CallsOK' /\ Numbered'
  BY <1>1, <1>3, LenProperties DEF CallsOK, Numbered
<1>5. /\ Len(calls'[t]) = Len(calls[t])
      /\ calls'[t][Len(calls[t])] = c
      /\ \A i \in 1 .. Len(calls[t]) - 1 : calls'[t][i] = calls[t][i]
  BY <1>2, WithLast
<1>6. \A u \in Threads : u # t => calls'[u] = calls[u]
  BY <1>1 DEF CallsOK
<1> QED BY <1>4, <1>5, <1>6 DEF Replaced, OthersKept

(* The innermost call of a thread.                                           *)
LEMMA Innermost ==
  ASSUME CallsOK, NEW t \in Threads, calls[t] # <<>>
  PROVE  /\ Len(calls[t]) \in Nat \ {0} /\ Len(calls[t]) \in DOMAIN calls[t]
         /\ Last(calls[t]) = calls[t][Len(calls[t])]
         /\ Last(calls[t]) \in CallType
<1>1. calls[t] \in Seq(CallType)
  BY DEF CallsOK
<1>2. Len(calls[t]) \in Nat \ {0}
  BY <1>1, EmptySeq
<1> QED BY <1>1, <1>2, LenProperties, ElementOfSeq DEF Last

-----------------------------------------------------------------------------
LEMMA InitOnExit == Init => OnExitInv
<1> SUFFICES ASSUME Init PROVE OnExitInv
  OBVIOUS
<1> USE DEF Init
<1>1. \A t \in Threads : calls[t] = <<>> /\ DOMAIN calls[t] = {}
  OBVIOUS
<1>2. TypeOK
  <2>1. calls \in [Threads -> Seq(CallType)]
    BY EmptySeq
  <2>2. /\ onExitProcs \in Seq(Procs) /\ registered \in Seq(0 .. MaxRuns)
        /\ called \in Seq([proc : Procs, run : 1 .. MaxRuns, error : Outcomes])
    BY EmptySeq
  <2>3. Len(registered) <= MaxProcs /\ runs \in 0 .. MaxRuns
    BY BoundsAssumption
  <2> QED BY <2>1, <2>2, <2>3 DEF TypeOK, Outcomes
<1>3. DOMAIN onExitProcs = {} /\ DOMAIN called = {} /\ ToSet(called) = {} /\ ToSet(onExitProcs) = {}
  BY DEF ToSet
<1>4. CallsInv /\ ErrorInv /\ ErrorOfItsRun /\ CalledByTheNextEnd
  BY <1>1, <1>3, NobodyAssumption DEF CallsInv, ErrorInv, ErrorOfItsRun, CalledByTheNextEnd
<1>5. OrderInv /\ CalledInOrder
  BY <1>1, <1>3 DEF OrderInv, CalledInOrder, Increasing
<1>6. LeftToCall = {} /\ WasCalled = {}
  BY <1>1, <1>3 DEF LeftToCall, WasCalled
<1>7. PlaceInv
  BY <1>3, <1>6 DEF PlaceInv
<1> QED BY <1>2, <1>4, <1>5, <1>7 DEF OnExitInv

-----------------------------------------------------------------------------
(* What a step does to the calls: a new one, another state of the innermost, *)
(* or its end.                                                               *)
InCall(t, at) == /\ t \in Threads /\ calls[t] # <<>>
                 /\ Len(calls[t]) \in DOMAIN calls[t]
                 /\ calls[t][Len(calls[t])].at = at
                 /\ Last(calls[t]) = calls[t][Len(calls[t])]

LEMMA InIsInCall ==
  ASSUME CallsOK, NEW t \in Threads, NEW at, In(t, at)
  PROVE  InCall(t, at)
BY Innermost DEF In, InCall

LEMMA CallsChange ==
  ASSUME TypeOK, NEW t \in Threads, Step(t)
  PROVE  /\ CallsOK' /\ Numbered /\ Numbered'
         /\ on_exit(t) \/ unset_on_exit(t) => UNCHANGED calls
         /\ \A e : Release(t, e) => UNCHANGED calls /\ InCall(t, "loop")
         /\ Run(t) => Pushed(t, Call("mutex", 0, <<>>, NoError))
         /\ Lock(t) /\ AE_status = "stopped" /\ runs < MaxRuns =>
              InCall(t, "mutex") /\ Replaced(t, Call("loop", runs + 1, <<>>, NoError))
         /\ Lock(t) /\ ~(AE_status = "stopped" /\ runs < MaxRuns) =>
              InCall(t, "mutex") /\ Popped(t)
         /\ LockRaises(t) => InCall(t, "mutex") /\ Popped(t)
         /\ LoopReturns(t) =>
              /\ InCall(t, "loop")
              /\ Replaced(t, Call("exit", Last(calls[t]).run, onExitProcs, exitError))
         /\ CallProc(t) =>
              /\ InCall(t, "exit")
              /\ Replaced(t, Call("proc", Last(calls[t]).run, Tail(Last(calls[t]).procs),
                                  Last(calls[t]).error))
         /\ ProcReturns(t) =>
              /\ InCall(t, "proc")
              /\ Replaced(t, Call("exit", Last(calls[t]).run, Last(calls[t]).procs,
                                  Last(calls[t]).error))
         /\ ProcRaises(t) => InCall(t, "proc") /\ Popped(t)
         /\ RunEnds(t) => InCall(t, "exit") /\ Popped(t)
<1>1. CallsOK
  BY DEF TypeOK, CallsOK
<1>2. Numbered
  BY <1>1, Numbering
<1>3. UNCHANGED calls => CallsOK' /\ Numbered'
  BY <1>1, <1>2 DEF CallsOK, Numbered
<1>4. \A at : In(t, at) => InCall(t, at)
  BY <1>1, InIsInCall
<1>5. calls[t] # <<>> =>
        /\ Last(calls[t]).run \in 0 .. MaxRuns /\ Last(calls[t]).procs \in Seq(Procs)
        /\ Last(calls[t]).error \in Outcomes
  BY <1>1, Innermost DEF CallType
<1>6. ASSUME NEW at \in {"mutex", "loop", "exit", "proc"}, NEW run \in 0 .. MaxRuns,
             NEW procs \in Seq(Procs), NEW error \in Outcomes
      PROVE  Call(at, run, procs, error) \in CallType
  BY DEF Call, CallType
<1>7. NoError \in Outcomes /\ <<>> \in Seq(Procs) /\ 0 \in 0 .. MaxRuns
  BY BoundsAssumption, EmptySeq DEF Outcomes
<1>8. on_exit(t) \/ unset_on_exit(t) => UNCHANGED calls
  BY DEF on_exit, unset_on_exit
<1>9. \A e : Release(t, e) => UNCHANGED calls /\ InCall(t, "loop")
  BY <1>4 DEF Release
<1>10. Run(t) => CallsOK' /\ Numbered' /\ Pushed(t, Call("mutex", 0, <<>>, NoError))
  BY <1>1, <1>6, <1>7, EnterCalls DEF Run
<1>11. Lock(t) /\ AE_status = "stopped" /\ runs < MaxRuns =>
         /\ CallsOK' /\ Numbered' /\ InCall(t, "mutex")
         /\ Replaced(t, Call("loop", runs + 1, <<>>, NoError))
  <2>1. runs < MaxRuns => runs + 1 \in 0 .. MaxRuns
    BY BoundsAssumption DEF TypeOK
  <2>2. runs < MaxRuns => Call("loop", runs + 1, <<>>, NoError) \in CallType
    BY <1>6, <1>7, <2>1
  <2> QED BY <1>1, <1>4, <2>2, NowCalls DEF Lock, InCall
<1>12. Lock(t) /\ ~(AE_status = "stopped" /\ runs < MaxRuns) =>
         CallsOK' /\ Numbered' /\ InCall(t, "mutex") /\ Popped(t)
  BY <1>1, <1>4, LeaveCalls DEF Lock, InCall
<1>13. LockRaises(t) => CallsOK' /\ Numbered' /\ InCall(t, "mutex") /\ Popped(t)
  BY <1>1, <1>4, LeaveCalls DEF LockRaises, InCall
<1>14. LoopReturns(t) =>
         /\ CallsOK' /\ Numbered' /\ InCall(t, "loop")
         /\ Replaced(t, Call("exit", Last(calls[t]).run, onExitProcs, exitError))
  <2>1. onExitProcs \in Seq(Procs) /\ exitError \in Outcomes
    BY DEF TypeOK
  <2>2. calls[t] # <<>> =>
          Call("exit", Last(calls[t]).run, onExitProcs, exitError) \in CallType
    BY <1>5, <1>6, <2>1
  <2> QED BY <1>1, <1>4, <2>2, NowCalls DEF LoopReturns, InCall
<1>15. CallProc(t) =>
         /\ CallsOK' /\ Numbered' /\ InCall(t, "exit")
         /\ Replaced(t, Call("proc", Last(calls[t]).run, Tail(Last(calls[t]).procs),
                             Last(calls[t]).error))
  <2>1. calls[t] # <<>> /\ Last(calls[t]).procs # <<>> =>
          Tail(Last(calls[t]).procs) \in Seq(Procs)
    BY <1>5, HeadTailProperties
  <2>2. calls[t] # <<>> /\ Last(calls[t]).procs # <<>> =>
          Call("proc", Last(calls[t]).run, Tail(Last(calls[t]).procs),
               Last(calls[t]).error) \in CallType
    BY <1>5, <1>6, <2>1
  <2> QED BY <1>1, <1>4, <2>2, NowCalls DEF CallProc, InCall
<1>16. ProcReturns(t) =>
         /\ CallsOK' /\ Numbered' /\ InCall(t, "proc")
         /\ Replaced(t, Call("exit", Last(calls[t]).run, Last(calls[t]).procs,
                             Last(calls[t]).error))
  <2>1. calls[t] # <<>> => Call("exit", Last(calls[t]).run, Last(calls[t]).procs,
                                Last(calls[t]).error) \in CallType
    BY <1>5, <1>6
  <2> QED BY <1>1, <1>4, <2>1, NowCalls DEF ProcReturns, InCall
<1>17. ProcRaises(t) => CallsOK' /\ Numbered' /\ InCall(t, "proc") /\ Popped(t)
  BY <1>1, <1>4, LeaveCalls DEF ProcRaises, InCall
<1>18. RunEnds(t) => CallsOK' /\ Numbered' /\ InCall(t, "exit") /\ Popped(t)
  BY <1>1, <1>4, LeaveCalls DEF RunEnds, InCall
<1>19. CallsOK' /\ Numbered'
  BY <1>3, <1>8, <1>9, <1>10, <1>11, <1>12, <1>13, <1>14, <1>15, <1>16, <1>17, <1>18 DEF Step
<1> QED
  BY <1>2, <1>8, <1>9, <1>10, <1>11, <1>12, <1>13, <1>14, <1>15, <1>16, <1>17, <1>18, <1>19

-----------------------------------------------------------------------------
LEMMA TypeStep ==
  ASSUME TypeOK, CallsInv, ErrorInv, NEW t \in Threads, Step(t)
  PROVE  TypeOK'
<1> USE DEF TypeOK
<1>1. calls' \in [Threads -> Seq(CallType)]
  BY CallsChange DEF CallsOK
<1>2. <<>> \in Seq(Procs) /\ 0 \in Nat /\ NoError \in Outcomes
  BY EmptySeq DEF Outcomes
<1>3. CASE on_exit(t)
  <2>1. Ended \in 0 .. MaxRuns
    BY BoundsAssumption DEF Ended, CallsInv
  <2>2. Len(registered) \in Nat /\ Len(registered) + 1 \in Procs
    BY <1>3, LenProperties, BoundsAssumption DEF on_exit, Procs
  <2>3. onExitProcs' \in Seq(Procs)
    BY <1>3, <2>2, AppendProperties DEF on_exit
  <2>4. registered' \in Seq(0 .. MaxRuns) /\ Len(registered') <= MaxProcs
    BY <1>3, <2>1, <2>2, AppendProperties, BoundsAssumption DEF on_exit
  <2> QED BY <1>1, <1>3, <2>3, <2>4 DEF on_exit, engineVars
<1>4. CASE unset_on_exit(t)
  <2>1. ToSet(onExitProcs) \subseteq Procs
    BY ElementOfSeq, LenProperties DEF ToSet
  <2> QED BY <1>1, <1>2, <1>4, <2>1 DEF unset_on_exit, engineVars
<1>5. CASE Run(t) \/ LockRaises(t) \/ RunEnds(t) \/ ProcReturns(t)
  BY <1>1, <1>5 DEF Run, LockRaises, RunEnds, ProcReturns, engineVars, historyVars
<1>6. CASE Lock(t)
  <2>1. runs < MaxRuns => runs + 1 \in 0 .. MaxRuns
    BY BoundsAssumption
  <2> QED BY <1>1, <1>6, <2>1 DEF Lock, historyVars
<1>7. CASE \E e \in Outcomes : Release(t, e)
  BY <1>1, <1>7 DEF Release, historyVars
<1>8. CASE LoopReturns(t)
  BY <1>1, <1>2, <1>8 DEF LoopReturns, historyVars
<1>9. CASE CallProc(t)
  <2> DEFINE call == Last(calls[t])
             entry == [proc |-> Head(call.procs), run |-> call.run, error |-> call.error]
  <2>1. InCall(t, "exit") /\ call.procs # <<>> /\ called' = Append(called, entry)
    BY <1>9, CallsChange DEF CallProc
  <2>2. call \in CallType
    BY <2>1, Innermost DEF CallsOK, InCall
  <2>3. call.run \in 1 .. MaxRuns
    <3>1. call.run \in 1 .. Ended
      BY <2>1 DEF InCall, ErrorInv, EndingOK, Ending
    <3> QED BY <3>1, BoundsAssumption DEF Ended
  <2>4. Head(call.procs) \in Procs /\ call.error \in Outcomes
    BY <2>1, <2>2, HeadTailProperties DEF CallType
  <2>5. called' \in Seq([proc : Procs, run : 1 .. MaxRuns, error : Outcomes])
    BY <2>1, <2>3, <2>4, AppendProperties
  <2> QED BY <1>1, <1>9, <2>5 DEF CallProc, engineVars
<1>10. CASE ProcRaises(t)
  <2>1. InCall(t, "proc")
    BY <1>10, CallsChange
  <2>2. Last(calls[t]).procs \in Seq(Procs)
    BY <2>1, Innermost DEF CallsOK, InCall, CallType
  <2>3. ToSet(Last(calls[t]).procs) \subseteq Procs
    BY <2>2, ElementOfSeq, LenProperties DEF ToSet
  <2> QED BY <1>1, <1>10, <2>3 DEF ProcRaises, engineVars
<1> QED BY <1>3, <1>4, <1>5, <1>6, <1>7, <1>8, <1>9, <1>10 DEF Step

LEMMA CallsStep ==
  ASSUME TypeOK, CallsInv, NEW t \in Threads, Step(t)
  PROVE  CallsInv'
<1>0. Numbered /\ Numbered' /\ runs \in Nat /\ MaxRuns \in Nat
  BY CallsChange, BoundsAssumption DEF TypeOK
<1>a. PICK n \in Nat : n = Len(calls[t]) /\ DOMAIN calls[t] = 1 .. n
  BY <1>0 DEF Numbered
<1>1. CASE on_exit(t) \/ unset_on_exit(t)
  <2>1. UNCHANGED <<AE_mutex, AE_status, runs, calls>>
    BY <1>1 DEF on_exit, unset_on_exit, engineVars
  <2> QED BY <2>1 DEF CallsInv, CallOK
<1>2. CASE \E e \in Outcomes : Release(t, e)
  <2>1. UNCHANGED <<AE_mutex, runs, calls>> /\ AE_status = "running" /\ AE_status' = "releasing"
    BY <1>2 DEF Release
  <2> QED BY <2>1 DEF CallsInv, CallOK
<1>3. CASE Run(t)
  <2>1. Pushed(t, Call("mutex", 0, <<>>, NoError))
    BY <1>3, CallsChange
  <2>2. UNCHANGED <<AE_mutex, AE_status, runs>> /\ AE_status # "running"
    BY <1>3 DEF Run, engineVars
  <2>3. n = 0 \/ (n \in 1 .. n /\ calls[t][n].at \in {"loop", "proc"})
    <3>1. calls[t] = <<>> \/ InCall(t, "loop") \/ InCall(t, "proc")
      BY <1>3, InIsInCall DEF Run, InUserCode, TypeOK, CallsOK
    <3> QED BY <1>a, <3>1 DEF InCall
  <2>4. DOMAIN calls'[t] = 1 .. n + 1 /\ Len(calls'[t]) = n + 1
    BY <1>0, <1>a, <2>1 DEF Pushed, Numbered
  <2>5. ASSUME NEW u \in Threads, u # t, NEW i \in DOMAIN calls'[u] PROVE CallOK(u, i)'
    <3>1. calls'[u] = calls[u]
      BY <2>1, <2>5 DEF Pushed, OthersKept
    <3>2. CallOK(u, i)
      BY <2>5, <3>1 DEF CallsInv
    <3> QED BY <2>2, <3>1, <3>2 DEF CallOK
  <2>6. calls'[t][n + 1].at = "mutex" /\ calls'[t][n + 1].procs = <<>>
    BY <1>a, <2>1 DEF Pushed, Call
  <2>7. ASSUME NEW i \in 1 .. n PROVE CallOK(t, i)' /\ (calls[t][i].at = "loop" => i = n)
    <3>1. CallOK(t, i) /\ i \in Nat /\ i > 0 /\ i <= n
      BY <1>a DEF CallsInv
    <3>a. \A j \in 1 .. n : calls'[t][j] = calls[t][j]
      BY <1>a, <2>1 DEF Pushed
    <3>2. calls'[t][i] = calls[t][i] /\ (i < n => calls'[t][i + 1] = calls[t][i + 1])
          /\ (i > 1 => calls'[t][i - 1] = calls[t][i - 1])
      <4>1. (i < n => i + 1 \in 1 .. n) /\ (i > 1 => i - 1 \in 1 .. n)
        BY <3>1
      <4> QED BY <3>a, <4>1
    <3>3. calls[t][i].at \notin {"mutex", "exit"}
      BY <1>a, <2>3, <3>1 DEF CallOK
    <3>4. calls[t][i].at = "loop" => i = n
      BY <1>a, <2>3, <3>1 DEF CallOK
    <3> QED BY <1>a, <2>2, <2>4, <2>6, <3>1, <3>2, <3>3, <3>4 DEF CallOK, Ending
  <2>8. CallOK(t, n + 1)'
    <3>1. ASSUME AE_mutex = t
          PROVE  AE_status = "releasing" /\ n > 0 /\ calls[t][n].at = "loop"
      <4>1. AE_status = "releasing"
        BY <2>2, <3>1, NobodyAssumption DEF CallsInv, TypeOK
      <4>2. PICK i \in 1 .. n : calls[t][i].at = "loop"
        BY <1>a, <3>1 DEF CallsInv
      <4>3. i = n /\ i > 0
        BY <2>7, <4>2
      <4> QED BY <4>1, <4>2, <4>3
    <3>2. n > 0 => calls'[t][n] = calls[t][n]
      BY <1>a, <2>1 DEF Pushed
    <3> QED BY <1>a, <2>2, <2>4, <2>6, <3>1, <3>2 DEF CallOK, Ending
  <2>9. \A i \in DOMAIN calls'[t] : CallOK(t, i)'
    BY <1>a, <2>4, <2>7, <2>8
  <2>10. \A u \in Threads : AE_mutex' = u => \E i \in DOMAIN calls'[u] : calls'[u][i].at = "loop"
    BY <1>a, <2>1, <2>2, <2>4 DEF Pushed, OthersKept, CallsInv
  <2> QED BY <2>2, <2>5, <2>9, <2>10 DEF CallsInv
<1>4. CASE Lock(t) /\ AE_status = "stopped" /\ runs < MaxRuns
  <2>1. InCall(t, "mutex") /\ Replaced(t, Call("loop", runs + 1, <<>>, NoError))
    BY <1>4, CallsChange
  <2>2. /\ AE_mutex = Nobody /\ AE_status = "stopped"
        /\ AE_mutex' = t /\ AE_status' = "running" /\ runs' = runs + 1
    BY <1>4 DEF Lock
  <2>3. DOMAIN calls'[t] = 1 .. n /\ Len(calls'[t]) = n /\ n \in 1 .. n
    BY <1>0, <1>a, <2>1 DEF Replaced, Numbered, InCall
  <2>4. \A u \in Threads : \A i \in DOMAIN calls[u] : calls[u][i].at # "loop"
    BY <2>2, NobodyAssumption DEF CallsInv, CallOK
  <2>5. ASSUME NEW u \in Threads, u # t, NEW i \in DOMAIN calls'[u] PROVE CallOK(u, i)'
    <3>1. calls'[u] = calls[u]
      BY <2>1, <2>5 DEF Replaced, OthersKept
    <3>2. CallOK(u, i) /\ i \in DOMAIN calls[u]
      BY <2>5, <3>1 DEF CallsInv
    <3> QED BY <2>2, <2>4, <2>5, <3>1, <3>2, NobodyAssumption DEF CallOK
  <2>6. /\ calls'[t][n].at = "loop" /\ calls'[t][n].run = runs + 1
        /\ calls'[t][n].procs = <<>>
    BY <1>a, <2>1 DEF Replaced, Call
  <2>7. ASSUME NEW i \in 1 .. n - 1 PROVE CallOK(t, i)'
    <3>1. CallOK(t, i) /\ i \in Nat /\ i > 0 /\ i < n
      BY <1>a DEF CallsInv
    <3>2. calls'[t][i] = calls[t][i] /\ calls[t][i].at \notin {"mutex", "exit", "loop"}
      BY <1>a, <2>1, <2>4, <3>1 DEF Replaced, CallOK
    <3> QED BY <3>1, <3>2 DEF CallOK, Ending
  <2>8. CallOK(t, n)'
    BY <1>a, <2>2, <2>3, <2>6 DEF CallOK
  <2>9. \A i \in DOMAIN calls'[t] : CallOK(t, i)'
    BY <1>a, <2>3, <2>7, <2>8
  <2>10. \A u \in Threads : AE_mutex' = u => \E i \in DOMAIN calls'[u] : calls'[u][i].at = "loop"
    BY <2>2, <2>3, <2>6
  <2>11. runs' > 0 /\ AE_mutex' # Nobody
    BY <1>0, <2>2, NobodyAssumption
  <2> QED BY <2>2, <2>5, <2>9, <2>10, <2>11 DEF CallsInv
<1>5. CASE /\ Popped(t) /\ UNCHANGED <<AE_mutex, AE_status, runs>>
           /\ n \in 1 .. n /\ calls[t][n].at # "loop"
  <2>1. DOMAIN calls'[t] = 1 .. n - 1 /\ Len(calls'[t]) = n - 1
    BY <1>0, <1>a, <1>5 DEF Popped, Numbered
  <2>2. ASSUME NEW u \in Threads, u # t, NEW i \in DOMAIN calls'[u] PROVE CallOK(u, i)'
    <3>1. calls'[u] = calls[u]
      BY <1>5, <2>2 DEF Popped, OthersKept
    <3>2. CallOK(u, i)
      BY <2>2, <3>1 DEF CallsInv
    <3> QED BY <1>5, <3>1, <3>2 DEF CallOK
  <2>3. ASSUME NEW i \in 1 .. n - 1 PROVE CallOK(t, i)'
    <3>1. CallOK(t, i) /\ i \in Nat /\ i > 0 /\ i < n
      BY <1>a DEF CallsInv
    <3>a. \A j \in 1 .. n - 1 : calls'[t][j] = calls[t][j]
      BY <1>a, <1>5 DEF Popped
    <3>2. /\ calls'[t][i] = calls[t][i] /\ (i < n - 1 => calls'[t][i + 1] = calls[t][i + 1])
          /\ (i > 1 => calls'[t][i - 1] = calls[t][i - 1])
      <4>1. (i < n - 1 => i + 1 \in 1 .. n - 1) /\ (i > 1 => i - 1 \in 1 .. n - 1)
        BY <3>1
      <4> QED BY <3>a, <4>1
    <3>3. calls[t][i].at \notin {"mutex", "exit"} /\ (calls[t][i].at = "loop" => i = n - 1)
      BY <1>a, <3>1 DEF CallOK
    <3> QED BY <1>a, <1>5, <2>1, <3>1, <3>2, <3>3 DEF CallOK, Ending
  <2>4. \A u \in Threads : AE_mutex' = u => \E i \in DOMAIN calls'[u] : calls'[u][i].at = "loop"
    <3>1. ASSUME AE_mutex = t PROVE \E i \in DOMAIN calls'[t] : calls'[t][i].at = "loop"
      <4>1. PICK i \in 1 .. n : calls[t][i].at = "loop"
        BY <1>a, <3>1 DEF CallsInv
      <4>2. i \in 1 .. n - 1
        BY <1>5, <4>1
      <4> QED BY <1>a, <1>5, <2>1, <4>1, <4>2 DEF Popped
    <3>2. ASSUME NEW u \in Threads, u # t, AE_mutex = u
          PROVE  \E i \in DOMAIN calls'[u] : calls'[u][i].at = "loop"
      BY <1>5, <3>2 DEF Popped, OthersKept, CallsInv
    <3> QED BY <1>5, <3>1, <3>2
  <2> QED BY <1>5, <2>1, <2>2, <2>3, <2>4 DEF CallsInv
<1>6. CASE LoopReturns(t)
  <2>1. /\ InCall(t, "loop")
        /\ Replaced(t, Call("exit", Last(calls[t]).run, onExitProcs, exitError))
    BY <1>6, CallsChange
  <2>2. AE_mutex' = Nobody /\ AE_status' = "stopped" /\ UNCHANGED runs
    BY <1>6 DEF LoopReturns
  <2>3. DOMAIN calls'[t] = 1 .. n /\ Len(calls'[t]) = n /\ n \in 1 .. n
    BY <1>0, <1>a, <2>1 DEF Replaced, Numbered, InCall
  <2>4. AE_mutex = t
    BY <1>a, <2>1 DEF CallsInv, CallOK, InCall
  <2>5. ASSUME NEW u \in Threads, u # t, NEW i \in DOMAIN calls'[u] PROVE CallOK(u, i)'
    <3>1. calls'[u] = calls[u]
      BY <2>1, <2>5 DEF Replaced, OthersKept
    <3>2. CallOK(u, i) /\ i \in DOMAIN calls[u]
      BY <2>5, <3>1 DEF CallsInv
    <3> QED BY <2>2, <2>4, <2>5, <3>1, <3>2, NobodyAssumption DEF CallOK
  <2>6. calls'[t][n].at = "exit"
    BY <1>a, <2>1 DEF Replaced, Call
  <2>7. ASSUME NEW i \in 1 .. n - 1 PROVE CallOK(t, i)'
    <3>1. CallOK(t, i) /\ i \in Nat /\ i > 0 /\ i < n
      BY <1>a DEF CallsInv
    <3>2. calls[t][i].at # "loop"
      BY <1>a, <2>1, <3>1 DEF CallOK, InCall
    <3>3. calls'[t][i] = calls[t][i] /\ calls[t][i].at \notin {"mutex", "exit", "loop"}
      BY <1>a, <2>1, <3>1, <3>2 DEF Replaced, CallOK
    <3> QED BY <3>1, <3>3 DEF CallOK, Ending
  <2>8. CallOK(t, n)'
    BY <1>a, <2>2, <2>3, <2>6 DEF CallOK, Ending
  <2>9. \A i \in DOMAIN calls'[t] : CallOK(t, i)'
    BY <1>a, <2>3, <2>7, <2>8
  <2> QED BY <2>2, <2>5, <2>9, NobodyAssumption DEF CallsInv
<1>7. ASSUME NEW at \in {"exit", "proc"}, NEW procs,
             InCall(t, "exit") \/ InCall(t, "proc"),
             Replaced(t, Call(at, Last(calls[t]).run, procs, Last(calls[t]).error)),
             UNCHANGED <<AE_mutex, AE_status, runs>>
      PROVE  CallsInv'
  <2>1. DOMAIN calls'[t] = 1 .. n /\ Len(calls'[t]) = n /\ n \in 1 .. n
    BY <1>0, <1>a, <1>7 DEF Replaced, Numbered, InCall
  <2>2. ASSUME NEW u \in Threads, u # t, NEW i \in DOMAIN calls'[u] PROVE CallOK(u, i)'
    <3>1. calls'[u] = calls[u]
      BY <1>7, <2>2 DEF Replaced, OthersKept
    <3>2. CallOK(u, i)
      BY <2>2, <3>1 DEF CallsInv
    <3> QED BY <1>7, <3>1, <3>2 DEF CallOK
  <2>3. calls[t][n].at \in {"exit", "proc"} /\ calls'[t][n].at \in {"exit", "proc"}
    BY <1>a, <1>7 DEF Replaced, Call, InCall
  <2>4. ASSUME NEW i \in 1 .. n - 1 PROVE CallOK(t, i)' /\ calls[t][i].at # "loop"
    <3>1. CallOK(t, i) /\ i \in Nat /\ i > 0 /\ i < n
      BY <1>a DEF CallsInv
    <3>2. calls[t][i].at # "loop"
      BY <1>a, <2>3, <3>1 DEF CallOK
    <3>3. calls'[t][i] = calls[t][i] /\ calls[t][i].at \notin {"mutex", "exit", "loop"}
      BY <1>a, <1>7, <3>1, <3>2 DEF Replaced, CallOK
    <3> QED BY <3>1, <3>3 DEF CallOK, Ending
  <2>5. CallOK(t, n)'
    BY <1>a, <2>1, <2>3 DEF CallOK, Ending
  <2>6. \A i \in DOMAIN calls'[t] : CallOK(t, i)'
    BY <1>a, <2>1, <2>4, <2>5
  <2>7. AE_mutex # t
    BY <1>a, <2>1, <2>3, <2>4 DEF CallsInv
  <2>8. \A u \in Threads : AE_mutex' = u => \E i \in DOMAIN calls'[u] : calls'[u][i].at = "loop"
    BY <1>7, <2>7 DEF Replaced, OthersKept, CallsInv
  <2> QED BY <1>7, <2>2, <2>6, <2>8 DEF CallsInv
<1>8. CASE Lock(t) /\ ~(AE_status = "stopped" /\ runs < MaxRuns)
  <2>1. InCall(t, "mutex") /\ Popped(t)
    BY <1>8, CallsChange
  <2> QED BY <1>a, <1>5, <1>8, <2>1 DEF Lock, InCall
<1>9. CASE LockRaises(t) \/ ProcRaises(t) \/ RunEnds(t)
  <2>1. Popped(t) /\ n \in 1 .. n /\ calls[t][n].at # "loop"
    BY <1>a, <1>9, CallsChange DEF InCall
  <2>2. UNCHANGED <<AE_mutex, AE_status, runs>>
    BY <1>9 DEF LockRaises, ProcRaises, RunEnds, engineVars
  <2> QED BY <1>5, <2>1, <2>2
<1>10. CASE CallProc(t) \/ ProcReturns(t)
  <2>1. UNCHANGED <<AE_mutex, AE_status, runs>>
    BY <1>10 DEF CallProc, ProcReturns, engineVars
  <2> QED BY <1>7, <1>10, <2>1, CallsChange
<1> QED BY <1>1, <1>2, <1>3, <1>4, <1>6, <1>8, <1>9, <1>10 DEF Step

-----------------------------------------------------------------------------
(* The calls that call on_exit procs: a step keeps them, starts one or takes *)
(* a proc from one.                                                          *)
Kept(u, i) ==
  /\ i \in DOMAIN calls[u] /\ Ending(calls[u][i])
  /\ calls'[u][i].run = calls[u][i].run /\ calls'[u][i].error = calls[u][i].error

LEMMA Endings ==
  ASSUME TypeOK, NEW t \in Threads, Step(t),
         NEW u \in Threads, NEW i \in DOMAIN calls'[u], Ending(calls'[u][i])
  PROVE  \/ /\ Kept(u, i) /\ calls'[u][i].procs = calls[u][i].procs
            /\ ~(CallProc(t) /\ u = t /\ i = Len(calls[t]))
         \/ /\ LoopReturns(t) /\ u = t /\ i = Len(calls[t]) /\ InCall(t, "loop")
            /\ calls'[u][i] = Call("exit", calls[t][i].run, onExitProcs, exitError)
         \/ /\ CallProc(t) /\ u = t /\ i = Len(calls[t]) /\ Kept(u, i)
            /\ calls'[u][i].procs = Tail(calls[u][i].procs)
<1>0. Numbered /\ Numbered'
  BY CallsChange
<1>a. PICK n \in Nat : n = Len(calls[t]) /\ DOMAIN calls[t] = 1 .. n
  BY <1>0 DEF Numbered
<1>1. CASE u # t
  <2>1. OthersKept(t)
    BY CallsChange DEF Step, Pushed, Replaced, Popped, OthersKept
  <2> QED BY <1>1, <2>1 DEF OthersKept, Kept
<1>2. CASE u = t /\ ~CallProc(t) /\ UNCHANGED calls
  BY <1>2 DEF Kept
<1>3. CASE u = t /\ ~CallProc(t) /\ Popped(t) /\ n \in 1 .. n
  <2>1. i \in 1 .. n - 1
    BY <1>0, <1>a, <1>3 DEF Popped, Numbered
  <2>2. calls'[t][i] = calls[t][i] /\ i \in 1 .. n /\ i # n
    BY <1>a, <1>3, <2>1 DEF Popped
  <2> QED BY <1>a, <1>3, <2>2 DEF Kept
<1>4. CASE u = t /\ ~CallProc(t) /\ Pushed(t, Call("mutex", 0, <<>>, NoError))
  <2>1. i \in 1 .. n + 1
    BY <1>0, <1>a, <1>4 DEF Pushed, Numbered
  <2>2. i # n + 1
    BY <1>a, <1>4 DEF Pushed, Call, Ending
  <2>3. i \in 1 .. n
    BY <2>1, <2>2
  <2>4. calls'[t][i] = calls[t][i]
    BY <1>a, <1>4, <2>3 DEF Pushed
  <2> QED BY <1>a, <1>4, <2>3, <2>4 DEF Kept
<1>5. ASSUME NEW c, u = t, Replaced(t, c), n \in 1 .. n
      PROVE  /\ i \in 1 .. n
             /\ i = n => calls'[t][i] = c
             /\ i # n => Kept(u, i) /\ calls'[u][i].procs = calls[u][i].procs
  <2>1. i \in 1 .. n
    BY <1>0, <1>a, <1>5 DEF Replaced, Numbered
  <2>2. i = n => calls'[t][i] = c
    BY <1>a, <1>5 DEF Replaced
  <2>3. i # n => i \in 1 .. n - 1
    BY <2>1
  <2>4. i # n => calls'[t][i] = calls[t][i]
    BY <1>a, <1>5, <2>3 DEF Replaced
  <2> QED BY <1>a, <1>5, <2>1, <2>2, <2>4 DEF Kept
<1>6. CASE u = t /\ CallProc(t)
  <2> DEFINE last == calls[t][n]
             c == Call("proc", last.run, Tail(last.procs), last.error)
  <2>1. InCall(t, "exit") /\ Replaced(t, c) /\ n \in 1 .. n /\ last.at = "exit"
    BY <1>a, <1>6, CallsChange DEF InCall
  <2>2. CASE i = n
    <3>1. calls'[t][i] = c
      BY <1>5, <1>6, <2>1, <2>2
    <3>2. /\ calls'[t][i].run = last.run /\ calls'[t][i].error = last.error
          /\ calls'[t][i].procs = Tail(last.procs)
      BY <3>1 DEF Call
    <3> QED BY <1>a, <1>6, <2>1, <2>2, <3>2 DEF Kept, Ending
  <2>3. CASE i # n
    <3> HIDE DEF c
    <3> QED BY <1>a, <1>5, <1>6, <2>1, <2>3
  <2> QED BY <2>2, <2>3
<1>7. CASE u = t /\ ~CallProc(t) /\ ProcReturns(t)
  <2> DEFINE last == calls[t][n]
             c == Call("exit", last.run, last.procs, last.error)
  <2>1. InCall(t, "proc") /\ Replaced(t, c) /\ n \in 1 .. n /\ last.at = "proc"
    BY <1>a, <1>7, CallsChange DEF InCall
  <2>2. CASE i = n
    <3>1. calls'[t][i] = c
      BY <1>5, <1>7, <2>1, <2>2
    <3>2. /\ calls'[t][i].run = last.run /\ calls'[t][i].error = last.error
          /\ calls'[t][i].procs = last.procs
      BY <3>1 DEF Call
    <3> QED BY <1>a, <1>7, <2>1, <2>2, <3>2 DEF Kept, Ending
  <2>3. CASE i # n
    <3> HIDE DEF c
    <3> QED BY <1>a, <1>5, <1>7, <2>1, <2>3
  <2> QED BY <2>2, <2>3
<1>8. CASE u = t /\ ~CallProc(t) /\ LoopReturns(t)
  <2> DEFINE c == Call("exit", calls[t][n].run, onExitProcs, exitError)
  <2>1. InCall(t, "loop") /\ Replaced(t, c) /\ n \in 1 .. n
    BY <1>a, <1>8, CallsChange DEF InCall
  <2> HIDE DEF c
  <2>2. CASE i = n
    BY <1>a, <1>5, <1>8, <2>1, <2>2 DEF c
  <2>3. CASE i # n
    BY <1>a, <1>5, <1>8, <2>1, <2>3
  <2> QED BY <2>2, <2>3
<1>9. CASE u = t /\ ~CallProc(t) /\ Lock(t) /\ AE_status = "stopped" /\ runs < MaxRuns
  <2> DEFINE c == Call("loop", runs + 1, <<>>, NoError)
  <2>1. Replaced(t, c) /\ n \in 1 .. n
    BY <1>a, <1>9, CallsChange DEF InCall
  <2>2. i # n
    BY <1>5, <1>9, <2>1 DEF Call, Ending
  <2> HIDE DEF c
  <2> QED BY <1>5, <1>9, <2>1, <2>2
<1>10. CASE u = t /\ ~CallProc(t) /\ (\/ Lock(t) /\ ~(AE_status = "stopped" /\ runs < MaxRuns)
                                      \/ LockRaises(t) \/ ProcRaises(t) \/ RunEnds(t))
  <2>1. Popped(t) /\ n \in 1 .. n
    BY <1>a, <1>10, CallsChange DEF InCall
  <2> QED BY <1>3, <1>10, <2>1
<1>11. CASE u = t /\ ~CallProc(t) /\ (\/ on_exit(t) \/ unset_on_exit(t)
                                      \/ \E e \in Outcomes : Release(t, e))
  BY <1>2, <1>11, CallsChange
<1>12. CASE u = t /\ ~CallProc(t) /\ Run(t)
  BY <1>4, <1>12, CallsChange
<1> QED BY <1>1, <1>6, <1>7, <1>8, <1>9, <1>10, <1>11, <1>12 DEF Step

(* The runs that have ended keep the error that ended them.                  *)
LEMMA RunsChange ==
  ASSUME TypeOK, CallsInv, NEW t \in Threads, Step(t)
  PROVE  /\ Ended \in Nat /\ Ended <= MaxRuns /\ runs \in Nat
         /\ \A r \in 1 .. Ended : failure'[r] = failure[r]
         /\ LoopReturns(t) => /\ Ended = runs - 1 /\ Ended' = runs /\ runs \in 1 .. runs
                              /\ InCall(t, "loop")
                              /\ calls[t][Len(calls[t])].run = runs
                              /\ failure' = failure
         /\ ~LoopReturns(t) => Ended' = Ended
<1>1. runs \in Nat /\ MaxRuns \in Nat /\ runs <= MaxRuns /\ (AE_status # "stopped" => runs > 0)
  BY BoundsAssumption DEF TypeOK, CallsInv
<1>2. Ended \in Nat /\ Ended <= MaxRuns
  BY <1>1 DEF Ended
<1>3. CASE \E e \in Outcomes : Release(t, e)
  <2>1. /\ AE_status = "running" /\ AE_status' = "releasing" /\ UNCHANGED runs
        /\ \E e \in Outcomes : failure' = [failure EXCEPT ![runs] = e]
    BY <1>3 DEF Release
  <2>2. Ended = runs - 1 /\ Ended' = Ended
    BY <2>1 DEF Ended
  <2>3. \A r \in 1 .. Ended : failure'[r] = failure[r]
    BY <1>1, <1>2, <2>1, <2>2 DEF TypeOK
  <2>4. ~LoopReturns(t)
    BY <2>1 DEF LoopReturns
  <2> QED BY <1>1, <1>2, <2>2, <2>3, <2>4
<1>4. CASE LoopReturns(t)
  <2>1. AE_status = "releasing" /\ AE_status' = "stopped" /\ UNCHANGED <<runs, failure>>
    BY <1>4 DEF LoopReturns
  <2>2. InCall(t, "loop")
    BY <1>4, CallsChange
  <2>3. calls[t][Len(calls[t])].run = runs
    BY <2>2 DEF InCall, CallsInv, CallOK
  <2> QED BY <1>1, <1>2, <1>4, <2>1, <2>2, <2>3 DEF Ended
<1>5. CASE Lock(t) /\ ~LoopReturns(t)
  <2>1. UNCHANGED failure
    BY <1>5 DEF Lock
  <2>2. Ended' = Ended
    BY <1>1, <1>5 DEF Lock, Ended
  <2> QED BY <1>1, <1>2, <1>5, <2>1, <2>2
<1>6. CASE ~LoopReturns(t) /\ UNCHANGED <<AE_status, runs, failure>>
  BY <1>1, <1>2, <1>6 DEF Ended
<1> QED
  BY <1>3, <1>4, <1>5, <1>6
  DEF Step, on_exit, unset_on_exit, Run, LockRaises, CallProc, ProcReturns, ProcRaises,
      RunEnds, engineVars

-----------------------------------------------------------------------------
(* The calls of the procs.                                                   *)
CalledEntries ==
  /\ Len(called) \in Nat /\ DOMAIN called = 1 .. Len(called)
  /\ \A k \in DOMAIN called : /\ called[k].proc \in Nat \ {0} /\ called[k].proc \in Procs
                              /\ called[k].run \in Nat
  /\ ToSet(called) = {called[k] : k \in DOMAIN called}

LEMMA CalledType == TypeOK => CalledEntries
<1> SUFFICES ASSUME TypeOK PROVE CalledEntries
  OBVIOUS
<1> DEFINE E == [proc : Procs, run : 1 .. MaxRuns, error : Outcomes]
<1>1. called \in Seq(E)
  BY DEF TypeOK
<1>2. \A e \in E : e.proc \in Nat \ {0} /\ e.proc \in Procs /\ e.run \in Nat
  BY BoundsAssumption DEF Procs
<1> HIDE DEF E
<1>3. \A k \in 1 .. Len(called) : called[k] \in E
  BY <1>1, ElementOfSeq
<1> QED BY <1>1, <1>2, <1>3, LenProperties DEF CalledEntries, ToSet

LEMMA CalledTypes == (TypeOK => CalledEntries) /\ (TypeOK' => CalledEntries')
BY CalledType, PTL

Entry(t) == LET call == calls[t][Len(calls[t])]
            IN  [proc |-> Head(call.procs), run |-> call.run, error |-> call.error]

LEMMA CalledChange ==
  ASSUME TypeOK, TypeOK', NEW t \in Threads, Step(t)
  PROVE  /\ CalledEntries /\ CalledEntries'
         /\ ~CallProc(t) => UNCHANGED called
         /\ CallProc(t) => /\ InCall(t, "exit") /\ calls[t][Len(calls[t])].procs # <<>>
                           /\ Len(called') = Len(called) + 1
                           /\ DOMAIN called' = 1 .. Len(called) + 1
                           /\ \A k \in 1 .. Len(called) : called'[k] = called[k]
                           /\ called'[Len(called) + 1] = Entry(t)
<1>1. CalledEntries /\ CalledEntries'
  BY CalledTypes
<1>2. ~CallProc(t) => UNCHANGED called
  BY DEF Step, on_exit, unset_on_exit, Run, Lock, LockRaises, Release, LoopReturns,
         ProcReturns, ProcRaises, RunEnds, historyVars
<1>3. ASSUME CallProc(t)
      PROVE  /\ InCall(t, "exit") /\ calls[t][Len(calls[t])].procs # <<>>
             /\ called' = Append(called, Entry(t))
  <2>1. InCall(t, "exit")
    BY <1>3, CallsChange
  <2> QED BY <1>3, <2>1 DEF CallProc, InCall, Entry
<1>4. ASSUME CallProc(t)
      PROVE  /\ Len(called') = Len(called) + 1
             /\ \A k \in 1 .. Len(called) : called'[k] = called[k]
             /\ called'[Len(called) + 1] = Entry(t)
  <2> DEFINE e == Entry(t)
             E == [proc : Procs, run : 1 .. MaxRuns, error : Outcomes]
  <2>1. called \in Seq(E \cup {e}) /\ e \in E \cup {e} /\ called' = Append(called, e)
    <3>1. called \in Seq(E)
      BY DEF TypeOK
    <3> HIDE DEF E
    <3> QED BY <1>3, <1>4, <3>1, SeqMonotonic
  <2> HIDE DEF e, E
  <2>2. /\ Len(called') = Len(called) + 1
        /\ \A k \in 1 .. Len(called) : called'[k] = called[k]
        /\ called'[Len(called) + 1] = e
    BY <2>1, AppendProperties
  <2> QED BY <2>2 DEF e
<1>5. CallProc(t) => DOMAIN called' = 1 .. Len(called) + 1
  BY <1>4 DEF CalledEntries
<1> QED BY <1>1, <1>2, <1>3, <1>4, <1>5

-----------------------------------------------------------------------------
LEMMA ErrorStep ==
  ASSUME TypeOK, TypeOK', CallsInv, ErrorInv, ErrorOfItsRun, NEW t \in Threads, Step(t)
  PROVE  ErrorInv' /\ ErrorOfItsRun'
<1>0. /\ Ended \in Nat /\ runs \in Nat
      /\ \A r \in 1 .. Ended : failure'[r] = failure[r]
      /\ Ended' \in {Ended, Ended + 1}
  BY RunsChange
<1>1. exitError' = IF AE_status' = "releasing" THEN failure'[runs'] ELSE NoError
  <2>1. CASE \E e \in Outcomes : Release(t, e)
    <3>1. runs \in 1 .. MaxRuns
      BY <2>1, BoundsAssumption DEF Release, CallsInv, TypeOK
    <3> QED BY <2>1, <3>1 DEF Release, ErrorInv, TypeOK
  <2>2. CASE Lock(t)
    BY <2>2 DEF Lock, ErrorInv
  <2>3. CASE LoopReturns(t)
    BY <2>3 DEF LoopReturns
  <2>4. CASE UNCHANGED <<AE_status, runs, failure, exitError>>
    BY <2>4 DEF ErrorInv
  <2> QED
    BY <2>1, <2>2, <2>3, <2>4
    DEF Step, on_exit, unset_on_exit, Run, LockRaises, CallProc, ProcReturns, ProcRaises,
        RunEnds, engineVars
<1>2. ASSUME NEW u \in Threads, NEW i \in DOMAIN calls'[u], Ending(calls'[u][i])
      PROVE  \/ /\ Kept(u, i) /\ calls'[u][i].run \in 1 .. Ended
             \/ /\ LoopReturns(t) /\ u = t /\ i = Len(calls[t])
                /\ calls'[u][i].run = runs /\ calls'[u][i].error = exitError
  <2>1. CASE Kept(u, i)
    BY <2>1 DEF Kept, ErrorInv, EndingOK
  <2>2. CASE /\ LoopReturns(t) /\ u = t /\ i = Len(calls[t])
             /\ calls'[u][i] = Call("exit", calls[t][i].run, onExitProcs, exitError)
    BY <2>2, RunsChange DEF Call
  <2> QED BY <1>2, <2>1, <2>2, Endings
<1>3. ASSUME NEW u \in Threads, NEW i \in DOMAIN calls'[u], Ending(calls'[u][i])
      PROVE  EndingOK(u, i)'
  <2>1. CASE Kept(u, i) /\ calls'[u][i].run \in 1 .. Ended
    <3>1. calls[u][i].error = failure[calls[u][i].run]
      BY <2>1 DEF Kept, ErrorInv, EndingOK
    <3> QED BY <1>0, <2>1, <3>1 DEF Kept, EndingOK
  <2>2. CASE LoopReturns(t) /\ calls'[u][i].run = runs /\ calls'[u][i].error = exitError
    <3>1. exitError = failure[runs] /\ failure' = failure /\ Ended' = runs /\ runs \in 1 .. runs
      BY <2>2, RunsChange DEF LoopReturns, ErrorInv
    <3> QED BY <2>2, <3>1 DEF EndingOK
  <2> QED BY <1>2, <1>3, <2>1, <2>2
<1>4. ASSUME NEW u \in Threads, NEW i \in DOMAIN calls'[u], Ending(calls'[u][i]),
             NEW v \in Threads, NEW j \in DOMAIN calls'[v], Ending(calls'[v][j]),
             calls'[v][j].run = calls'[u][i].run
      PROVE  v = u /\ j = i
  <2>1. CASE Kept(u, i) /\ Kept(v, j)
    BY <1>4, <2>1 DEF Kept, ErrorInv, OnlyCallOfRun
  <2>2. CASE \/ Kept(u, i) /\ calls'[u][i].run \in 1 .. Ended /\ ~Kept(v, j)
             \/ Kept(v, j) /\ calls'[v][j].run \in 1 .. Ended /\ ~Kept(u, i)
    <3>1. LoopReturns(t) => Ended = runs - 1
      BY RunsChange
    <3>2. (~Kept(u, i) => LoopReturns(t) /\ calls'[u][i].run = runs)
          /\ (~Kept(v, j) => LoopReturns(t) /\ calls'[v][j].run = runs)
      BY <1>2, <1>4
    <3> QED BY <1>0, <1>4, <2>2, <3>1, <3>2
  <2>3. CASE ~Kept(u, i) /\ ~Kept(v, j)
    BY <1>2, <1>4, <2>3
  <2> QED BY <1>2, <1>4, <2>1, <2>2, <2>3
<1>5. ASSUME NEW u \in Threads, NEW i \in DOMAIN calls'[u], Ending(calls'[u][i])
      PROVE  OnlyCallOfRun(u, i)'
  BY <1>4, <1>5 DEF OnlyCallOfRun
<1>6. ASSUME NEW k \in DOMAIN called'
      PROVE  /\ called'[k].run \in 1 .. Ended
             /\ called'[k].error = failure'[called'[k].run]
  <2>1. CASE k \in DOMAIN called /\ called'[k] = called[k]
    <3>1. called[k].run \in 1 .. Ended
      BY <2>1 DEF ErrorInv
    <3>2. called[k].error = failure[called[k].run]
      BY <2>1, CalledTypes DEF ErrorOfItsRun, CalledEntries
    <3> QED BY <1>0, <2>1, <3>1, <3>2
  <2>2. CASE CallProc(t) /\ called'[k] = Entry(t)
    <3> DEFINE call == calls[t][Len(calls[t])]
    <3>1. InCall(t, "exit")
      BY <2>2, CallsChange
    <3>2. EndingOK(t, Len(calls[t]))
      BY <3>1 DEF InCall, Ending, ErrorInv
    <3>3. call.run \in 1 .. Ended /\ call.error = failure[call.run]
      BY <3>2 DEF EndingOK
    <3>4. called'[k].run = call.run /\ called'[k].error = call.error
      BY <2>2 DEF Entry
    <3> QED BY <1>0, <3>3, <3>4
  <2>3. CASE ~CallProc(t)
    BY <2>1, <2>3, CalledChange
  <2>4. CASE CallProc(t)
    <3>1. k \in 1 .. Len(called) + 1 /\ Len(called) \in Nat /\ DOMAIN called = 1 .. Len(called)
      BY <2>4, CalledChange DEF CalledEntries
    <3>2. k = Len(called) + 1 \/ k \in 1 .. Len(called)
      BY <3>1
    <3> QED BY <2>1, <2>2, <2>4, <3>1, <3>2, CalledChange
  <2> QED BY <2>3, <2>4
<1>7. \A k \in DOMAIN called' : called'[k].run \in 1 .. Ended'
  BY <1>0, <1>6
<1>8. ErrorOfItsRun'
  BY <1>6, CalledTypes DEF ErrorOfItsRun, CalledEntries
<1> QED BY <1>1, <1>3, <1>5, <1>7, <1>8 DEF ErrorInv

-----------------------------------------------------------------------------
(* The procs registered, and those that wait.                                *)
LEMMA TailOf ==
  ASSUME NEW S, NEW s \in Seq(S), s # <<>>
  PROVE  /\ Tail(s) \in Seq(S) /\ Head(s) = s[1] /\ 1 \in DOMAIN s
         /\ \A k \in DOMAIN Tail(s) : /\ k \in Nat \ {0} /\ k + 1 \in DOMAIN s
                                      /\ Tail(s)[k] = s[k + 1]
         /\ \A k \in DOMAIN s : k = 1 \/ (k - 1 \in DOMAIN Tail(s) /\ Tail(s)[k - 1] = s[k])
<1>1. /\ Len(s) \in Nat \ {0} /\ DOMAIN s = 1 .. Len(s)
  BY EmptySeq, LenProperties
<1>2. /\ Tail(s) \in Seq(S) /\ Head(s) = s[1] /\ Len(Tail(s)) = Len(s) - 1
      /\ \A k \in 1 .. Len(Tail(s)) : Tail(s)[k] = s[k + 1]
  BY HeadTailProperties
<1>3. DOMAIN Tail(s) = 1 .. Len(s) - 1
  BY <1>2, LenProperties
<1> QED BY <1>1, <1>2, <1>3

LEMMA WaitingChange ==
  ASSUME TypeOK, NEW t \in Threads, Step(t)
  PROVE  /\ Len(registered) \in Nat /\ Len(onExitProcs) \in Nat
         /\ DOMAIN onExitProcs = 1 .. Len(onExitProcs)
         /\ \A k \in DOMAIN onExitProcs : onExitProcs[k] \in Nat \ {0}
         /\ \A r \in 1 .. Len(registered) : registered'[r] = registered[r] /\ registered[r] \in Nat
         /\ \/ /\ on_exit(t)
               /\ Len(registered') = Len(registered) + 1
               /\ registered'[Len(registered) + 1] = Ended
               /\ DOMAIN onExitProcs' = 1 .. Len(onExitProcs) + 1
               /\ \A k \in DOMAIN onExitProcs : onExitProcs'[k] = onExitProcs[k]
               /\ onExitProcs'[Len(onExitProcs) + 1] = Len(registered) + 1
            \/ /\ ~on_exit(t) /\ registered' = registered
               /\ onExitProcs' \in {<<>>, onExitProcs}
<1>1. /\ Len(registered) \in Nat /\ Len(onExitProcs) \in Nat
      /\ DOMAIN onExitProcs = 1 .. Len(onExitProcs) 
      /\ \A k \in DOMAIN onExitProcs : onExitProcs[k] \in Procs
      /\ \A r \in 1 .. Len(registered) : registered[r] \in 0 .. MaxRuns
  BY ElementOfSeq, LenProperties DEF TypeOK
<1>2. /\ \A k \in DOMAIN onExitProcs : onExitProcs[k] \in Nat \ {0}
      /\ \A r \in 1 .. Len(registered) : registered[r] \in Nat
  BY <1>1, BoundsAssumption DEF Procs
<1>3. CASE on_exit(t)
  <2>1. registered \in Seq(0 .. MaxRuns \cup {Ended}) /\ registered' = Append(registered, Ended)
    BY <1>3, SeqMonotonic DEF on_exit, TypeOK
  <2>2. /\ Len(registered') = Len(registered) + 1
        /\ \A r \in 1 .. Len(registered) : registered'[r] = registered[r]
        /\ registered'[Len(registered) + 1] = Ended
    BY <2>1, AppendProperties
  <2>3. /\ onExitProcs \in Seq(Nat) /\ Len(registered) + 1 \in Nat
        /\ onExitProcs' = Append(onExitProcs, Len(registered) + 1)
    BY <1>1, <1>3, BoundsAssumption, SeqMonotonic DEF on_exit, TypeOK, Procs
  <2>4. /\ onExitProcs' \in Seq(Nat) /\ Len(onExitProcs') = Len(onExitProcs) + 1
        /\ \A k \in 1 .. Len(onExitProcs) : onExitProcs'[k] = onExitProcs[k]
        /\ onExitProcs'[Len(onExitProcs) + 1] = Len(registered) + 1
    BY <2>3, AppendProperties
  <2>5. DOMAIN onExitProcs' = 1 .. Len(onExitProcs) + 1
    BY <2>4, LenProperties
  <2> QED BY <1>1, <1>2, <1>3, <2>2, <2>4, <2>5
<1>4. CASE ~on_exit(t)
  <2>1. registered' = registered /\ onExitProcs' \in {<<>>, onExitProcs}
    BY <1>4 DEF Step, unset_on_exit, Run, Lock, LockRaises, Release, LoopReturns, CallProc,
                ProcReturns, ProcRaises, RunEnds, historyVars
  <2> QED BY <1>1, <1>2, <1>4, <2>1
<1> QED BY <1>3, <1>4

LEMMA CallProcs ==
  ASSUME TypeOK, NEW t \in Threads, NEW i \in DOMAIN calls[t]
  PROVE  /\ calls[t][i].procs \in Seq(Procs)
         /\ \A k \in DOMAIN calls[t][i].procs : calls[t][i].procs[k] \in Nat \ {0}
<1>1. calls[t] \in Seq(CallType)
  BY DEF TypeOK
<1>2. calls[t][i] \in CallType
  BY <1>1, ElementOfSeq, LenProperties
<1>3. calls[t][i].procs \in Seq(Procs)
  BY <1>2 DEF CallType
<1>4. \A k \in DOMAIN calls[t][i].procs : calls[t][i].procs[k] \in Procs
  BY <1>3, ElementOfSeq, LenProperties
<1> QED BY <1>3, <1>4, BoundsAssumption DEF Procs

LEMMA OrderStep ==
  ASSUME TypeOK, TypeOK', CallsInv, CallsInv', ErrorInv, OrderInv, CalledInOrder,
         CalledByTheNextEnd, NEW t \in Threads, Step(t)
  PROVE  OrderInv' /\ CalledInOrder' /\ CalledByTheNextEnd'
<1> DEFINE n == Len(calls[t])
<1>1. Increasing(onExitProcs)'
  <2>1. CASE on_exit(t)
    <3>1. \A k \in DOMAIN onExitProcs : onExitProcs[k] <= Len(registered)
      BY DEF OrderInv
    <3> QED BY <2>1, <3>1, WaitingChange DEF OrderInv, Increasing
  <2>2. CASE onExitProcs' \in {<<>>, onExitProcs}
    <3>1. DOMAIN <<>> = {}
      OBVIOUS
    <3> QED BY <2>2, <3>1 DEF OrderInv, Increasing
  <2> QED BY <2>1, <2>2, WaitingChange
<1>2. ASSUME NEW k \in DOMAIN onExitProcs'
      PROVE  onExitProcs'[k] <= Len(registered') /\ registered'[onExitProcs'[k]] = Ended'
  <2>1. ~LoopReturns(t)
    BY DEF LoopReturns
  <2>2. Ended' = Ended
    BY <2>1, RunsChange
  <2>3. \A l \in DOMAIN onExitProcs :
          /\ onExitProcs[l] \in 1 .. Len(registered) /\ registered[onExitProcs[l]] = Ended
          /\ registered'[onExitProcs[l]] = Ended
    BY WaitingChange DEF OrderInv
  <2>4. CASE on_exit(t)
    <3>1. k = Len(onExitProcs) + 1 \/ k \in DOMAIN onExitProcs
      BY <2>4, WaitingChange
    <3> QED BY <2>2, <2>3, <2>4, <3>1, WaitingChange
  <2>5. CASE ~on_exit(t)
    <3>1. onExitProcs' = onExitProcs /\ registered' = registered
      BY <2>5, WaitingChange
    <3> QED BY <2>2, <2>3, <3>1, WaitingChange
  <2> QED BY <2>4, <2>5
<1>3. /\ CalledEntries /\ CalledEntries' /\ Len(registered) \in Nat
      /\ \A l \in DOMAIN called : called[l].proc \in 1 .. Len(registered)
  BY CalledTypes, WaitingChange DEF CalledEntries, OrderInv
<1>4. CallProc(t) =>
        /\ n \in DOMAIN calls[t] /\ Ending(calls[t][n]) /\ LeftOK(t, n)
        /\ calls[t][n].procs \in Seq(Procs) /\ calls[t][n].procs # <<>>
        /\ Entry(t).proc = calls[t][n].procs[1] /\ 1 \in DOMAIN calls[t][n].procs
        /\ Entry(t).run = calls[t][n].run
  <2>1. CallProc(t) => InCall(t, "exit") /\ calls[t][n].procs # <<>>
    BY CalledChange
  <2>2. CallProc(t) => n \in DOMAIN calls[t] /\ Ending(calls[t][n]) /\ LeftOK(t, n)
    BY <2>1 DEF InCall, Ending, OrderInv
  <2>3. CallProc(t) => calls[t][n].procs \in Seq(Procs)
    BY <2>1, Innermost DEF InCall, CallsOK, TypeOK, CallType
  <2> QED BY <2>1, <2>2, <2>3, TailOf DEF Entry
<1>5. ASSUME NEW l \in DOMAIN called'
      PROVE  \/ l \in DOMAIN called /\ called'[l] = called[l]
             \/ CallProc(t) /\ l = Len(called) + 1 /\ called'[l] = Entry(t)
  <2>1. ~CallProc(t) => called' = called
    BY CalledChange
  <2>2. CallProc(t) => /\ DOMAIN called' = 1 .. Len(called) + 1
                       /\ \A k \in 1 .. Len(called) : called'[k] = called[k]
                       /\ called'[Len(called) + 1] = Entry(t)
    BY CalledChange
  <2>3. Len(called) \in Nat /\ DOMAIN called = 1 .. Len(called)
    BY <1>3 DEF CalledEntries
  <2>4. CASE CallProc(t)
    <3>1. l \in 1 .. Len(called) + 1
      BY <2>2, <2>4
    <3>2. l = Len(called) + 1 \/ l \in 1 .. Len(called)
      BY <2>3, <3>1
    <3> QED BY <2>2, <2>3, <2>4, <3>2
  <2> QED BY <2>1, <2>4
<1>6. ASSUME NEW u \in Threads, NEW i \in DOMAIN calls'[u], Ending(calls'[u][i])
      PROVE  LeftOK(u, i)'
  <2>1. \A k \in 1 .. Len(registered) :
          registered'[k] = registered[k] /\ k <= Len(registered')
    BY WaitingChange
  <2>2. CASE /\ Kept(u, i) /\ calls'[u][i].procs = calls[u][i].procs
             /\ ~(CallProc(t) /\ u = t /\ i = n)
    <3>1. LeftOK(u, i) /\ i \in DOMAIN calls[u] /\ Ending(calls[u][i])
      BY <2>2 DEF Kept, OrderInv
    <3>2. Increasing(calls'[u][i].procs)
      BY <2>2, <3>1 DEF LeftOK
    <3>3. ASSUME NEW k \in DOMAIN calls'[u][i].procs
          PROVE  /\ calls'[u][i].procs[k] \in 1 .. Len(registered)
                 /\ registered[calls'[u][i].procs[k]] + 1 = calls'[u][i].run
                 /\ \A l \in DOMAIN called : called[l].run = calls'[u][i].run =>
                      called[l].proc < calls'[u][i].procs[k]
      <4>1. calls[u][i].procs[k] \in Nat \ {0}
        BY <2>2, <3>1, CallProcs
      <4> QED BY <1>3, <2>2, <3>1, <4>1 DEF LeftOK, Kept
    <3>4. CallProc(t) => Entry(t).run # calls'[u][i].run
      <4>1. CallProc(t) => OnlyCallOfRun(t, n)
        BY <1>4 DEF ErrorInv
      <4> QED BY <1>4, <2>2, <3>1, <4>1 DEF OnlyCallOfRun, Kept
    <3>5. ASSUME NEW k \in DOMAIN calls'[u][i].procs, NEW l \in DOMAIN called',
                 called'[l].run = calls'[u][i].run
          PROVE  called'[l].proc < calls'[u][i].procs[k]
      BY <1>5, <3>3, <3>4, <3>5
    <3> QED BY <2>1, <3>2, <3>3, <3>5 DEF LeftOK
  <2>3. CASE /\ LoopReturns(t) /\ u = t /\ i = n /\ InCall(t, "loop")
             /\ calls'[u][i] = Call("exit", calls[t][i].run, onExitProcs, exitError)
    <3>1. calls'[u][i].procs = onExitProcs /\ calls'[u][i].run = runs /\ Ended = runs - 1
          /\ runs \in Nat
      BY <2>3, RunsChange DEF Call
    <3>2. \A k \in DOMAIN onExitProcs :
            /\ onExitProcs[k] \in 1 .. Len(registered) /\ registered[onExitProcs[k]] = Ended
      BY WaitingChange DEF OrderInv
    <3>3. called' = called /\ \A l \in DOMAIN called : called[l].run # runs
      BY <2>3, <3>1 DEF LoopReturns, historyVars, ErrorInv
    <3> QED BY <2>1, <3>1, <3>2, <3>3 DEF LeftOK, OrderInv
  <2>4. CASE /\ CallProc(t) /\ u = t /\ i = n /\ Kept(u, i)
             /\ calls'[u][i].procs = Tail(calls[u][i].procs)
    <3> DEFINE procs == calls[u][i].procs
    <3>1. LeftOK(u, i) /\ procs \in Seq(Procs) /\ procs # <<>> /\ i \in DOMAIN calls[u]
      BY <1>4, <2>4
    <3>2. /\ \A k \in DOMAIN Tail(procs) : /\ k \in Nat \ {0} /\ k + 1 \in DOMAIN procs
                                            /\ Tail(procs)[k] = procs[k + 1]
          /\ Head(procs) = procs[1] /\ 1 \in DOMAIN procs
      BY <3>1, TailOf
    <3>3. Increasing(Tail(procs))
      <4>1. ASSUME NEW k \in DOMAIN Tail(procs), NEW l \in DOMAIN Tail(procs), k < l
            PROVE  Tail(procs)[k] < Tail(procs)[l]
        <5>1. /\ k + 1 \in DOMAIN procs /\ l + 1 \in DOMAIN procs /\ k + 1 < l + 1
              /\ Tail(procs)[k] = procs[k + 1] /\ Tail(procs)[l] = procs[l + 1]
          BY <3>2, <4>1
        <5>2. Increasing(procs)
          BY <3>1 DEF LeftOK
        <5> QED BY <5>1, <5>2 DEF Increasing
      <4> QED BY <4>1 DEF Increasing
    <3>4. ASSUME NEW k \in DOMAIN Tail(procs)
          PROVE  /\ Tail(procs)[k] \in 1 .. Len(registered)
                 /\ registered[Tail(procs)[k]] + 1 = calls[u][i].run
                 /\ procs[1] < Tail(procs)[k]
                 /\ \A l \in DOMAIN called : called[l].run = calls[u][i].run =>
                      called[l].proc < Tail(procs)[k]
      <4>1. procs[k + 1] \in Nat \ {0} /\ k + 1 \in DOMAIN procs /\ 1 < k + 1
        BY <3>1, <3>2, <2>4, CallProcs DEF Kept
      <4> HIDE DEF procs
      <4>2. Tail(procs)[k] = procs[k + 1] /\ 1 \in DOMAIN procs
        BY <3>2
      <4>3. /\ procs[k + 1] <= Len(registered)
            /\ registered[procs[k + 1]] + 1 = calls[u][i].run
            /\ \A l \in DOMAIN called : called[l].run = calls[u][i].run =>
                 called[l].proc < procs[k + 1]
        BY <3>1, <4>1 DEF LeftOK, procs
      <4>4. procs[1] < procs[k + 1]
        BY <3>1, <4>1, <4>2 DEF LeftOK, Increasing, procs
      <4> QED BY <1>3, <4>1, <4>2, <4>3, <4>4
    <3>5. ASSUME NEW k \in DOMAIN Tail(procs), NEW l \in DOMAIN called',
                 called'[l].run = calls[u][i].run
          PROVE  called'[l].proc < Tail(procs)[k]
      <4>1. Entry(t).proc = procs[1]
        BY <1>4, <2>4
      <4> HIDE DEF procs
      <4> QED BY <1>5, <3>4, <3>5, <4>1
    <3>6. calls'[u][i].procs = Tail(procs) /\ calls'[u][i].run = calls[u][i].run
      BY <2>4 DEF Kept
    <3> HIDE DEF procs
    <3> QED BY <2>1, <3>3, <3>4, <3>5, <3>6 DEF LeftOK
  <2> QED BY <1>6, <2>2, <2>3, <2>4, Endings
<1>7. \A u \in Threads : \A i \in DOMAIN calls'[u] : LeftOK(u, i)'
  <2>1. \A u \in Threads : \A i \in DOMAIN calls'[u] :
          ~Ending(calls'[u][i]) => calls'[u][i].procs = <<>>
    BY DEF CallsInv, CallOK
  <2>2. DOMAIN <<>> = {}
    OBVIOUS
  <2>3. ASSUME NEW u \in Threads, NEW i \in DOMAIN calls'[u], ~Ending(calls'[u][i])
        PROVE  LeftOK(u, i)'
    BY <2>1, <2>2, <2>3 DEF LeftOK, Increasing
  <2> QED BY <1>6, <2>3
<1>8. /\ \A r \in 1 .. Len(registered) : registered'[r] = registered[r]
      /\ \A r \in 1 .. Len(registered) : r <= Len(registered')
  BY WaitingChange
<1>9. CallProc(t) =>
        /\ Entry(t).proc \in 1 .. Len(registered)
        /\ registered[Entry(t).proc] + 1 = Entry(t).run
        /\ \A l \in DOMAIN called : called[l].run = Entry(t).run => called[l].proc < Entry(t).proc
  <2>1. CallProc(t) => calls[t][n].procs[1] \in Nat \ {0}
    BY <1>4, CallProcs
  <2> QED BY <1>3, <1>4, <2>1 DEF LeftOK
<1>10. \A l \in DOMAIN called' : called'[l].proc <= Len(registered')
  BY <1>3, <1>5, <1>8, <1>9
<1>11. CalledInOrder'
  <2>1. ASSUME NEW j \in DOMAIN called', NEW l \in DOMAIN called', j < l,
               called'[j].run = called'[l].run
        PROVE  called'[j].proc < called'[l].proc
    <3>1. CASE l \in DOMAIN called /\ called'[l] = called[l]
      <4>1. j \in DOMAIN called /\ called'[j] = called[j]
        BY <1>3, <1>5, <2>1, <3>1 DEF CalledEntries
      <4> QED BY <2>1, <3>1, <4>1 DEF CalledInOrder
    <3>2. CASE CallProc(t) /\ l = Len(called) + 1 /\ called'[l] = Entry(t)
      <4>1. j \in DOMAIN called /\ called'[j] = called[j]
        BY <1>3, <1>5, <2>1, <3>2 DEF CalledEntries
      <4> QED BY <1>9, <2>1, <3>2, <4>1
    <3> QED BY <1>5, <3>1, <3>2
  <2> QED BY <2>1 DEF CalledInOrder
<1>12. CalledByTheNextEnd'
  <2>1. ASSUME NEW l \in DOMAIN called'
        PROVE  called'[l].run = registered'[called'[l].proc] + 1
    <3>1. CASE l \in DOMAIN called /\ called'[l] = called[l]
      <4>1. called[l].run = registered[called[l].proc] + 1
        BY <1>3, <3>1 DEF CalledByTheNextEnd, CalledEntries
      <4> QED BY <1>3, <1>8, <3>1, <4>1
    <3>2. CASE CallProc(t) /\ called'[l] = Entry(t)
      BY <1>8, <1>9, <3>2
    <3> QED BY <1>5, <3>1, <3>2
  <2> QED BY <1>3, <2>1 DEF CalledByTheNextEnd, CalledEntries
<1> QED BY <1>1, <1>2, <1>7, <1>10, <1>11, <1>12 DEF OrderInv

-----------------------------------------------------------------------------
(* The procs left to call: those of a thread's innermost call, and the rest. *)
Rest(t) == UNION {UNION {ToSet(calls[u][i].procs) :
                           i \in {j \in DOMAIN calls[u] : u # t \/ j # Len(calls[t])}} :
                  u \in Threads}

LEMMA LeftChange ==
  ASSUME Numbered, Numbered', NEW t \in Threads
  PROVE  /\ Len(calls[t]) \in DOMAIN calls[t] =>
              LeftToCall = Rest(t) \cup ToSet(calls[t][Len(calls[t])].procs)
         /\ Len(calls[t]) \in DOMAIN calls[t] /\ Popped(t) => LeftToCall' = Rest(t)
         /\ \A c : Len(calls[t]) \in DOMAIN calls[t] /\ Replaced(t, c) =>
              LeftToCall' = Rest(t) \cup ToSet(c.procs)
         /\ \A c : Pushed(t, c) => LeftToCall' = LeftToCall \cup ToSet(c.procs)
<1>a. PICK n \in Nat : n = Len(calls[t]) /\ DOMAIN calls[t] = 1 .. n
  BY DEF Numbered
<1>1. \A p : p \in LeftToCall <=>
        \E u \in Threads : \E i \in DOMAIN calls[u] : p \in ToSet(calls[u][i].procs)
  BY DEF LeftToCall
<1>2. \A p : p \in LeftToCall' <=>
        \E u \in Threads : \E i \in DOMAIN calls'[u] : p \in ToSet(calls'[u][i].procs)
  BY DEF LeftToCall
<1>3. \A p : p \in Rest(t) <=>
        \E u \in Threads : \E i \in DOMAIN calls[u] :
          (u # t \/ i # n) /\ p \in ToSet(calls[u][i].procs)
  BY <1>a DEF Rest
<1>4. ASSUME n \in 1 .. n
      PROVE  LeftToCall = Rest(t) \cup ToSet(calls[t][n].procs)
  BY <1>a, <1>1, <1>3, <1>4
<1>5. ASSUME n \in 1 .. n, Popped(t)
      PROVE  LeftToCall' = Rest(t)
  <2>1. /\ \A u \in Threads : u # t => calls'[u] = calls[u]
        /\ DOMAIN calls'[t] = 1 .. n - 1
        /\ \A i \in 1 .. n - 1 : calls'[t][i] = calls[t][i]
    BY <1>a, <1>5 DEF Popped, OthersKept, Numbered
  <2>2. \A i : i \in 1 .. n /\ i # n <=> i \in 1 .. n - 1
    OBVIOUS
  <2>3. ASSUME NEW p PROVE p \in LeftToCall' => p \in Rest(t)
    BY <1>a, <1>2, <1>3, <2>1, <2>2
  <2>4. ASSUME NEW p PROVE p \in Rest(t) => p \in LeftToCall'
    BY <1>a, <1>2, <1>3, <2>1, <2>2
  <2> QED BY <2>3, <2>4
<1>6. ASSUME NEW c, n \in 1 .. n, Replaced(t, c)
      PROVE  LeftToCall' = Rest(t) \cup ToSet(c.procs)
  <2>1. /\ \A u \in Threads : u # t => calls'[u] = calls[u]
        /\ DOMAIN calls'[t] = 1 .. n /\ calls'[t][n] = c
        /\ \A i \in 1 .. n - 1 : calls'[t][i] = calls[t][i]
    BY <1>a, <1>6 DEF Replaced, OthersKept, Numbered
  <2>2. \A i : i \in 1 .. n /\ i # n <=> i \in 1 .. n - 1
    OBVIOUS
  <2>3. ASSUME NEW p PROVE p \in LeftToCall' => p \in Rest(t) \/ p \in ToSet(c.procs)
    BY <1>a, <1>2, <1>3, <2>1, <2>2
  <2>4. ASSUME NEW p PROVE p \in Rest(t) => p \in LeftToCall'
    BY <1>a, <1>2, <1>3, <2>1, <2>2
  <2>5. ASSUME NEW p PROVE p \in ToSet(c.procs) => p \in LeftToCall'
    BY <1>2, <1>6, <2>1
  <2> QED BY <2>3, <2>4, <2>5
<1>7. ASSUME NEW c, Pushed(t, c)
      PROVE  LeftToCall' = LeftToCall \cup ToSet(c.procs)
  <2>1. /\ \A u \in Threads : u # t => calls'[u] = calls[u]
        /\ DOMAIN calls'[t] = 1 .. n + 1 /\ calls'[t][n + 1] = c
        /\ \A i \in 1 .. n : calls'[t][i] = calls[t][i]
    BY <1>a, <1>7 DEF Pushed, OthersKept, Numbered
  <2>2. \A i : i \in 1 .. n + 1 <=> i \in 1 .. n \/ i = n + 1
    OBVIOUS
  <2>3. ASSUME NEW p PROVE p \in LeftToCall' => p \in LeftToCall \/ p \in ToSet(c.procs)
    BY <1>a, <1>1, <1>2, <2>1, <2>2
  <2>4. ASSUME NEW p PROVE p \in LeftToCall => p \in LeftToCall'
    BY <1>a, <1>1, <1>2, <2>1, <2>2
  <2>5. ASSUME NEW p PROVE p \in ToSet(c.procs) => p \in LeftToCall'
    BY <1>2, <2>1, <2>2
  <2> QED BY <2>3, <2>4, <2>5
<1> QED BY <1>a, <1>4, <1>5, <1>6, <1>7

(* A proc's number of ended runs tells its places apart; a call has not      *)
(* called what it has left to call.                                          *)
Apart ==
  /\ \A p \in ToSet(onExitProcs) : p \in 1 .. Len(registered) /\ registered[p] = Ended
  /\ \A t \in Threads : \A i \in DOMAIN calls[t] : \A p \in ToSet(calls[t][i].procs) :
       /\ Ending(calls[t][i]) /\ calls[t][i].run \in 1 .. Ended
       /\ p \in 1 .. Len(registered) /\ registered[p] + 1 = calls[t][i].run
       /\ p \notin WasCalled
  /\ \A p \in WasCalled : p \in 1 .. Len(registered) /\ registered[p] + 1 \in 1 .. Ended

LEMMA Places ==
  TypeOK /\ CallsInv /\ ErrorInv /\ OrderInv /\ CalledByTheNextEnd => Apart
<1> SUFFICES ASSUME TypeOK, CallsInv, ErrorInv, OrderInv, CalledByTheNextEnd PROVE Apart
  OBVIOUS
<1>1. /\ Len(registered) \in Nat
      /\ \A k \in DOMAIN onExitProcs : onExitProcs[k] \in Nat \ {0}
  <2>1. \A k \in DOMAIN onExitProcs : onExitProcs[k] \in Procs
    BY ElementOfSeq, LenProperties DEF TypeOK
  <2> QED BY <2>1, LenProperties, BoundsAssumption DEF TypeOK, Procs
<1>2. CalledEntries
  BY CalledType
<1>3. ASSUME NEW p \in ToSet(onExitProcs)
      PROVE  p \in 1 .. Len(registered) /\ registered[p] = Ended
  BY <1>1 DEF ToSet, OrderInv
<1>4. ASSUME NEW k \in DOMAIN called
      PROVE  /\ called[k].proc \in 1 .. Len(registered) /\ called[k].run \in 1 .. Ended
             /\ called[k].run = registered[called[k].proc] + 1
  BY <1>1, <1>2 DEF CalledEntries, OrderInv, ErrorInv, CalledByTheNextEnd
<1>5. ASSUME NEW p \in WasCalled
      PROVE  p \in 1 .. Len(registered) /\ registered[p] + 1 \in 1 .. Ended
  BY <1>4 DEF WasCalled
<1>6. ASSUME NEW t \in Threads, NEW i \in DOMAIN calls[t], NEW p \in ToSet(calls[t][i].procs)
      PROVE  /\ Ending(calls[t][i]) /\ calls[t][i].run \in 1 .. Ended
             /\ p \in 1 .. Len(registered) /\ registered[p] + 1 = calls[t][i].run
             /\ p \notin WasCalled
  <2>1. PICK k \in DOMAIN calls[t][i].procs : p = calls[t][i].procs[k]
    BY DEF ToSet
  <2>2. Ending(calls[t][i])
    <3>1. ~Ending(calls[t][i]) => calls[t][i].procs = <<>>
      BY DEF CallsInv, CallOK
    <3> QED BY <2>1, <3>1
  <2>3. EndingOK(t, i) /\ LeftOK(t, i)
    BY <2>2 DEF ErrorInv, OrderInv
  <2>4. p \in 1 .. Len(registered) /\ registered[p] + 1 = calls[t][i].run
    BY <1>1, <2>1, <2>3, CallProcs DEF LeftOK
  <2>5. ASSUME NEW l \in DOMAIN called PROVE called[l].proc # p
    BY <1>1, <1>4, <2>1, <2>3, <2>4 DEF LeftOK
  <2> QED BY <2>2, <2>3, <2>4, <2>5 DEF EndingOK, WasCalled
<1> QED BY <1>3, <1>5, <1>6 DEF Apart

LEMMA PlaceStep ==
  ASSUME TypeOK, TypeOK', CallsInv, ErrorInv, Apart, PlaceInv, NEW t \in Threads, Step(t)
  PROVE  PlaceInv'
<1> DEFINE n == Len(calls[t])
           W == ToSet(onExitProcs)
           N == Len(registered)
<1>0. Numbered /\ Numbered' /\ N \in Nat
  BY CallsChange, WaitingChange
<1>1. given \cap (W \cup LeftToCall \cup WasCalled) = {}
      /\ given \cup W \cup LeftToCall \cup WasCalled = 1 .. N
  BY DEF PlaceInv
<1>2. ~CallProc(t) => WasCalled' = WasCalled
  BY CalledChange DEF WasCalled
<1>3. ToSet(<<>>) = {}
  BY DEF ToSet
<1>4. \A p \in LeftToCall : registered[p] + 1 \in 1 .. Ended
  BY DEF LeftToCall, Apart
<1>5. Ended \in Nat
  BY RunsChange
<1>6. W \cap LeftToCall = {} /\ W \cap WasCalled = {}
  BY <1>4, <1>5 DEF Apart
<1>7. CASE on_exit(t)
  <2>1. LeftToCall' = LeftToCall /\ given' = given /\ Len(registered') = N + 1
    BY <1>7, WaitingChange DEF on_exit, LeftToCall
  <2>2. ToSet(onExitProcs') = W \cup {N + 1}
    <3>1. /\ DOMAIN onExitProcs = 1 .. Len(onExitProcs) /\ Len(onExitProcs) \in Nat
          /\ DOMAIN onExitProcs' = 1 .. Len(onExitProcs) + 1
          /\ \A k \in DOMAIN onExitProcs : onExitProcs'[k] = onExitProcs[k]
          /\ onExitProcs'[Len(onExitProcs) + 1] = N + 1
      BY <1>7, WaitingChange
    <3>2. DOMAIN onExitProcs' = DOMAIN onExitProcs \cup {Len(onExitProcs) + 1}
      BY <3>1
    <3> QED BY <3>1, <3>2 DEF ToSet
  <2>3. N + 1 \notin given /\ 1 .. N + 1 = 1 .. N \cup {N + 1}
    BY <1>0, <1>1
  <2>4. WasCalled' = WasCalled
    BY <1>7 DEF on_exit, WasCalled
  <2> QED BY <1>1, <2>1, <2>2, <2>3, <2>4 DEF PlaceInv
<1>8. CASE unset_on_exit(t)
  <2>1. /\ LeftToCall' = LeftToCall /\ given' = given \cup W /\ onExitProcs' = <<>>
        /\ registered' = registered /\ WasCalled' = WasCalled
    BY <1>8 DEF unset_on_exit, LeftToCall, WasCalled
  <2> QED BY <1>1, <1>3, <1>6, <2>1 DEF PlaceInv
<1>9. ASSUME LeftToCall' = LeftToCall, UNCHANGED <<given, onExitProcs, registered, called>>
      PROVE  PlaceInv'
  BY <1>9 DEF PlaceInv, WasCalled
<1>10. ASSUME n \in DOMAIN calls[t], calls[t][n].procs = <<>>,
              Popped(t) \/ \E c : Replaced(t, c) /\ c.procs = <<>>
       PROVE  LeftToCall' = LeftToCall
  BY <1>0, <1>3, <1>10, LeftChange
<1>11. n \in DOMAIN calls[t] /\ ~Ending(calls[t][n]) => calls[t][n].procs = <<>>
  BY DEF CallsInv, CallOK
<1>12. CASE Run(t)
  <2> DEFINE c == Call("mutex", 0, <<>>, NoError)
  <2>1. Pushed(t, c) /\ c.procs = <<>>
    BY <1>12, CallsChange DEF Call
  <2>2. LeftToCall' = LeftToCall
    <3> HIDE DEF c
    <3> QED BY <1>0, <1>3, <2>1, LeftChange
  <2> QED BY <1>9, <1>12, <2>2 DEF Run, historyVars
<1>13. CASE Lock(t) \/ LockRaises(t)
  <2>1. InCall(t, "mutex") /\ (Popped(t) \/ Replaced(t, Call("loop", runs + 1, <<>>, NoError)))
    BY <1>13, CallsChange
  <2>2. n \in DOMAIN calls[t] /\ calls[t][n].procs = <<>>
    BY <1>11, <2>1 DEF InCall, Ending
  <2>3. LeftToCall' = LeftToCall
    BY <1>10, <2>1, <2>2 DEF Call
  <2> QED BY <1>9, <1>13, <2>3 DEF Lock, LockRaises, historyVars
<1>14. CASE \E e \in Outcomes : Release(t, e)
  <2>1. LeftToCall' = LeftToCall
    BY <1>14 DEF Release, LeftToCall
  <2> QED BY <1>9, <1>14, <2>1 DEF Release, historyVars
<1>15. CASE RunEnds(t)
  <2>1. InCall(t, "exit") /\ Popped(t)
    BY <1>15, CallsChange
  <2>2. n \in DOMAIN calls[t] /\ calls[t][n].procs = <<>>
    BY <1>15, <2>1 DEF InCall, RunEnds
  <2>3. LeftToCall' = LeftToCall
    BY <1>10, <2>1, <2>2
  <2> QED BY <1>9, <1>15, <2>3 DEF RunEnds, historyVars
<1>16. CASE LoopReturns(t)
  <2>1. InCall(t, "loop")
        /\ Replaced(t, Call("exit", Last(calls[t]).run, onExitProcs, exitError))
    BY <1>16, CallsChange
  <2>2. n \in DOMAIN calls[t] /\ calls[t][n].procs = <<>>
    BY <1>11, <2>1 DEF InCall, Ending
  <2>3. LeftToCall' = LeftToCall \cup W
    BY <1>0, <1>3, <2>1, <2>2, LeftChange DEF Call
  <2>4. onExitProcs' = <<>> /\ UNCHANGED <<given, registered>> /\ WasCalled' = WasCalled
    BY <1>16 DEF LoopReturns, historyVars, WasCalled
  <2> QED BY <1>1, <1>3, <2>3, <2>4 DEF PlaceInv
<1>17. CASE ProcReturns(t)
  <2> DEFINE c == Call("exit", Last(calls[t]).run, Last(calls[t]).procs, Last(calls[t]).error)
  <2>1. n \in DOMAIN calls[t] /\ Replaced(t, c) /\ c.procs = calls[t][n].procs
    BY <1>17, CallsChange DEF Call, InCall
  <2>2. LeftToCall' = LeftToCall
    <3> HIDE DEF c
    <3> QED BY <1>0, <2>1, LeftChange
  <2> QED BY <1>9, <1>17, <2>2 DEF ProcReturns, historyVars
<1>18. CASE ProcRaises(t)
  <2> DEFINE procs == ToSet(calls[t][n].procs)
  <2>1. InCall(t, "proc") /\ Popped(t) /\ n \in DOMAIN calls[t]
    BY <1>18, CallsChange DEF InCall
  <2>2. LeftToCall = Rest(t) \cup procs /\ LeftToCall' = Rest(t)
    BY <1>0, <2>1, LeftChange
  <2>3. /\ given' = given \cup procs /\ onExitProcs' = onExitProcs
        /\ registered' = registered /\ WasCalled' = WasCalled
    BY <1>18, <2>1 DEF ProcRaises, InCall, WasCalled
  <2>4. procs \cap WasCalled = {} /\ procs \cap W = {}
    BY <1>6, <2>1, <2>2 DEF Apart
  <2>5. procs \cap Rest(t) = {}
    <3>1. ASSUME NEW p \in procs, NEW u \in Threads, NEW i \in DOMAIN calls[u],
                 p \in ToSet(calls[u][i].procs)
          PROVE  u = t /\ i = n
      <4>1. /\ Ending(calls[t][n]) /\ Ending(calls[u][i])
            /\ registered[p] + 1 = calls[t][n].run /\ registered[p] + 1 = calls[u][i].run
        BY <2>1, <3>1 DEF Apart
      <4>2. OnlyCallOfRun(t, n)
        BY <2>1, <4>1 DEF ErrorInv
      <4> QED BY <4>1, <4>2 DEF OnlyCallOfRun
    <3> QED BY <3>1 DEF Rest
  <2> HIDE DEF procs
  <2> QED BY <1>1, <2>2, <2>3, <2>4, <2>5 DEF PlaceInv
<1>19. CASE CallProc(t)
  <2> DEFINE procs == calls[t][n].procs
             c == Call("proc", Last(calls[t]).run, Tail(Last(calls[t]).procs),
                       Last(calls[t]).error)
  <2>1. n \in DOMAIN calls[t] /\ procs # <<>> /\ Replaced(t, c) /\ c.procs = Tail(procs)
    BY <1>19, CallsChange, CalledChange DEF InCall, Call
  <2>2. LeftToCall = Rest(t) \cup ToSet(procs) /\ LeftToCall' = Rest(t) \cup ToSet(Tail(procs))
    <3> HIDE DEF c
    <3>1. LeftToCall' = Rest(t) \cup ToSet(c.procs)
      BY <1>0, <2>1, LeftChange
    <3>2. LeftToCall = Rest(t) \cup ToSet(procs)
      BY <1>0, <2>1, LeftChange
    <3> QED BY <2>1, <3>1, <3>2
  <2>3. procs \in Seq(Procs)
    BY <2>1, CallProcs
  <2>4. ToSet(procs) = ToSet(Tail(procs)) \cup {Head(procs)}
    <3> HIDE DEF procs
    <3>1. /\ Head(procs) = procs[1] /\ 1 \in DOMAIN procs
          /\ \A k \in DOMAIN Tail(procs) : /\ k \in Nat \ {0} /\ k + 1 \in DOMAIN procs
                                           /\ Tail(procs)[k] = procs[k + 1]
          /\ \A k \in DOMAIN procs :
               k = 1 \/ (k - 1 \in DOMAIN Tail(procs) /\ Tail(procs)[k - 1] = procs[k])
      BY <2>1, <2>3, TailOf
    <3>2. ASSUME NEW k \in DOMAIN procs PROVE procs[k] \in ToSet(Tail(procs)) \cup {Head(procs)}
      BY <3>1 DEF ToSet
    <3>3. ASSUME NEW k \in DOMAIN Tail(procs) PROVE Tail(procs)[k] \in ToSet(procs)
      BY <3>1 DEF ToSet
    <3> QED BY <3>1, <3>2, <3>3 DEF ToSet
  <2>5. WasCalled' = WasCalled \cup {Head(procs)}
    <3>a. Entry(t).proc = Head(procs)
      BY DEF Entry
    <3>b. DOMAIN called = 1 .. Len(called) /\ Len(called) \in Nat
      BY CalledType DEF CalledEntries
    <3>1. /\ DOMAIN called' = 1 .. Len(called) + 1
          /\ \A k \in 1 .. Len(called) : called'[k] = called[k]
          /\ called'[Len(called) + 1].proc = Head(procs)
      BY <1>19, <3>a, CalledChange
    <3>2. DOMAIN called' = DOMAIN called \cup {Len(called) + 1}
      BY <3>b, <3>1
    <3> QED BY <3>b, <3>1, <3>2 DEF WasCalled
  <2>6. UNCHANGED <<given, onExitProcs, registered>>
    BY <1>19 DEF CallProc
  <2> HIDE DEF procs
  <2> QED BY <1>1, <2>2, <2>4, <2>5, <2>6 DEF PlaceInv
<1> QED
  BY <1>7, <1>8, <1>12, <1>13, <1>14, <1>15, <1>16, <1>17, <1>18, <1>19 DEF Step

-----------------------------------------------------------------------------
LEMMA OnExitInvStep == OnExitInv /\ [Next]_vars => OnExitInv'
<1> SUFFICES ASSUME OnExitInv, [Next]_vars PROVE OnExitInv'
  OBVIOUS
<1> USE DEF OnExitInv
<1>1. CASE UNCHANGED vars
  <2>1. UNCHANGED <<AE_status, AE_mutex, exitError, onExitProcs, calls, registered, runs,
                    failure, called, given>>
    BY <1>1 DEF vars, engineVars, historyVars
  <2>2. TypeOK' /\ CallsInv'
    BY <2>1 DEF TypeOK, CallsInv, CallOK
  <2>3. ErrorInv' /\ ErrorOfItsRun' /\ CalledInOrder' /\ CalledByTheNextEnd'
    BY <2>1 DEF ErrorInv, EndingOK, OnlyCallOfRun, ErrorOfItsRun, CalledInOrder,
                CalledByTheNextEnd, Ended
  <2>4. OrderInv'
    BY <2>1 DEF OrderInv, LeftOK, Ended
  <2>5. PlaceInv'
    BY <2>1 DEF PlaceInv, LeftToCall, WasCalled
  <2> QED BY <2>2, <2>3, <2>4, <2>5
<1>2. ASSUME NEW t \in Threads, Step(t) PROVE OnExitInv'
  <2>1. TypeOK'
    BY <1>2, TypeStep
  <2>2. CallsInv'
    BY <1>2, CallsStep
  <2>3. ErrorInv' /\ ErrorOfItsRun'
    BY <1>2, <2>1, ErrorStep
  <2>4. OrderInv' /\ CalledInOrder' /\ CalledByTheNextEnd'
    BY <1>2, <2>1, <2>2, OrderStep
  <2>5. PlaceInv'
    BY <1>2, <2>1, Places, PlaceStep
  <2> QED BY <2>1, <2>2, <2>3, <2>4, <2>5
<1> QED BY <1>1, <1>2 DEF Next

(* What the steps of AE.run, AE.on_exit and AE.unset_on_exit preserve, of any *)
(* number of threads, procs and runs: the conjuncts of OnExitInv.            *)
THEOREM OnExitInvariant == Spec => []OnExitInv
BY InitOnExit, OnExitInvStep, PTL DEF Spec

(* A proc gets the error that ended the run that calls it, also when procs   *)
(* and other threads run the engine before it is called.                     *)
THEOREM TheErrorOfItsRun == Spec => []ErrorOfItsRun
<1>1. OnExitInv => ErrorOfItsRun
  BY DEF OnExitInv
<1> QED BY <1>1, OnExitInvariant, PTL

(* A proc is called by the run that ended next after its registration.       *)
THEOREM TheNextEndCalls == Spec => []CalledByTheNextEnd
<1>1. OnExitInv => CalledByTheNextEnd
  BY DEF OnExitInv
<1> QED BY <1>1, OnExitInvariant, PTL

(* No thread waits for the mutex that it owns itself, but in a hook that the *)
(* release of its own loop calls, and then rb_mutex_lock raises.             *)
THEOREM OwnMutexOnlyInAHook == Spec => []NotItsOwnMutex
<1>1. OnExitInv => NotItsOwnMutex
  BY DEF OnExitInv, CallsInv, CallOK, NotItsOwnMutex
<1> QED BY <1>1, OnExitInvariant, PTL

(* Each place excludes the others.                                           *)
LEMMA OnePlace ==
  ASSUME OnExitInv, NEW p \in 1 .. Len(registered)
  PROVE  Cardinality({i \in DOMAIN called : called[i].proc = p})
         + Cardinality({place \in {"waiting", "next", "given"} :
                          p \in CASE place = "waiting" -> ToSet(onExitProcs)
                                 [] place = "next" -> LeftToCall
                                 [] OTHER -> given}) = 1
<1> DEFINE W == ToSet(onExitProcs)
           C == {i \in DOMAIN called : called[i].proc = p}
           P == {place \in {"waiting", "next", "given"} :
                   p \in CASE place = "waiting" -> ToSet(onExitProcs)
                          [] place = "next" -> LeftToCall
                          [] OTHER -> given}
<1>1. /\ given \cap (W \cup LeftToCall \cup WasCalled) = {}
      /\ given \cup W \cup LeftToCall \cup WasCalled = 1 .. Len(registered)
  BY DEF OnExitInv, PlaceInv
<1>2. Apart /\ CalledEntries /\ CalledByTheNextEnd /\ CalledInOrder
  BY Places, CalledType DEF OnExitInv
<1>3. Ended \in Nat
  BY BoundsAssumption DEF OnExitInv, TypeOK, CallsInv, Ended
<1>4. /\ \A q \in LeftToCall : registered[q] + 1 \in 1 .. Ended
      /\ LeftToCall \cap WasCalled = {}
  BY <1>2 DEF LeftToCall, Apart
<1>5. W \cap LeftToCall = {} /\ W \cap WasCalled = {}
  BY <1>2, <1>3, <1>4 DEF Apart
<1>6. P = (IF p \in W THEN {"waiting"} ELSE {}) \cup (IF p \in LeftToCall THEN {"next"} ELSE {})
          \cup (IF p \in given THEN {"given"} ELSE {})
  OBVIOUS
<1>7. C = {} <=> p \notin WasCalled
  BY DEF WasCalled
<1>8. \A i, j \in C : i = j
  <2>1. ASSUME NEW i \in C, NEW j \in C, i < j PROVE FALSE
    <3>1. called[i].run = called[j].run /\ called[i].proc = called[j].proc
          /\ called[i].proc \in Nat
      BY <1>2 DEF CalledEntries, CalledByTheNextEnd
    <3>2. called[i].proc < called[j].proc
      BY <1>2, <2>1, <3>1 DEF CalledInOrder
    <3> QED BY <3>1, <3>2
  <2>2. \A i \in C : i \in Nat
    BY <1>2 DEF CalledEntries
  <2> QED BY <2>1, <2>2
<1> SUFFICES Cardinality(C) + Cardinality(P) = 1
  OBVIOUS
<1> HIDE DEF C, P, W
<1>9. Cardinality({}) = 0 /\ \A x : Cardinality({x}) = 1
  BY FS_EmptySet, FS_Singleton
<1>10. CASE p \in WasCalled
  <2>1. P = {}
    BY <1>1, <1>4, <1>5, <1>6, <1>10
  <2>2. \E i : C = {i}
    <3>1. PICK i \in C : TRUE
      BY <1>7, <1>10
    <3>2. C = {i}
      BY <1>8, <3>1
    <3> QED BY <3>2
  <2>3. Cardinality(C) = 1 /\ Cardinality(P) = 0
    BY <1>9, <2>1, <2>2, Zenon
  <2> QED BY <2>3
<1>11. CASE p \notin WasCalled
  <2>1. \E x : P = {x}
    BY <1>1, <1>5, <1>6, <1>11
  <2>2. C = {}
    BY <1>7, <1>11
  <2>3. Cardinality(C) = 0 /\ Cardinality(P) = 1
    BY <1>9, <2>1, <2>2, Zenon
  <2> QED BY <2>3
<1> QED BY <1>10, <1>11

(* Each proc registered is called at most once, and is lost only where the   *)
(* code gives it up; a run calls its procs in the order of registration.     *)
THEOREM CalledOnceInOrder == Spec => []EachOnceInOrder
<1>1. OnExitInv => EachOnceInOrder
  <2> SUFFICES ASSUME OnExitInv PROVE EachOnceInOrder
    OBVIOUS
  <2>1. CalledInOrder
    BY DEF OnExitInv
  <2> QED BY <2>1, OnePlace DEF EachOnceInOrder, CalledInOrder
<1> QED BY <1>1, OnExitInvariant, PTL
=============================================================================
