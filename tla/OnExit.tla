------------------------------- MODULE OnExit -------------------------------
(* What AE.run (ext/asyncengine/asyncengine_ruby.c) does when uv_run() has   *)
(* returned: the error that ended the run is taken, the engine is given up,  *)
(* and only then the on_exit procs are called, with that error.  They are    *)
(* user code: they may register others and run the engine again, while other *)
(* threads do the same.  The engine itself is described in Engine.           *)
(*                                                                           *)
(* A definition marked "mutant" is a deliberate fault that could replace the *)
(* definition below it; no specification uses one.                           *)
EXTENDS Naturals, Sequences, SequencesExt

CONSTANTS Threads,
          Nobody,       \* owns the mutex when no thread does
          Errors,       \* the errors that may end a run
          NoError,      \* Qnil
          MaxProcs,     \* bound on the procs registered
          MaxRuns       \* bound on the runs of the engine

ASSUME NobodyAssumption == Nobody \notin Threads
ASSUME NoErrorAssumption == NoError \notin Errors
ASSUME BoundsAssumption == MaxProcs \in Nat /\ MaxRuns \in Nat \ {0}

VARIABLES
  AE_status,    \* "stopped", "running" or "releasing"
  AE_mutex,     \* the thread that owns it, or Nobody
  exitError,    \* @_exit_error
  onExitProcs,  \* @_on_exit_procs; procs are numbered as they are registered
  calls,        \* the calls of AE.run each thread is in, the innermost last:
                \*   what it is "at" ("mutex", "loop", "exit" between two procs
                \*   or "proc" in one), its run, and the procs left to call
                \*   with captured_error
  registered,   \* history: for each proc, how many runs had ended
  runs,         \* history: how many runs began
  failure,      \* history: what ended each run
  called,       \* history: the procs that were called, in order, with the run
                \*   that called them and the error they got
  given         \* history: procs unset, or lost because one before them raised

engineVars == <<AE_status, AE_mutex, exitError, runs, failure>>
historyVars == <<registered, called, given>>

vars == <<engineVars, onExitProcs, calls, historyVars>>

Procs == 1 .. MaxProcs
Outcomes == Errors \cup {NoError}
Call(at, run, procs, error) ==
  [at |-> at, run |-> run, procs |-> procs, error |-> error]

CallType == [at : {"mutex", "loop", "exit", "proc"}, run : 0 .. MaxRuns,
             procs : Seq(Procs), error : Outcomes]

TypeOK ==
  /\ AE_status \in {"stopped", "running", "releasing"}
  /\ AE_mutex \in Threads \cup {Nobody}
  /\ exitError \in Outcomes
  /\ onExitProcs \in Seq(Procs)
  /\ calls \in [Threads -> Seq(CallType)]
  /\ registered \in Seq(0 .. MaxRuns) /\ Len(registered) <= MaxProcs
  /\ runs \in 0 .. MaxRuns /\ failure \in [1 .. MaxRuns -> Outcomes]
  /\ called \in Seq([proc : Procs, run : 1 .. MaxRuns, error : Outcomes])
  /\ given \subseteq Procs

Init ==
  /\ AE_status = "stopped" /\ AE_mutex = Nobody /\ exitError = NoError
  /\ onExitProcs = <<>> /\ calls = [t \in Threads |-> <<>>]
  /\ registered = <<>> /\ runs = 0
  /\ failure = [n \in 1 .. MaxRuns |-> NoError]
  /\ called = <<>> /\ given = {}

-----------------------------------------------------------------------------
In(t, at) == calls[t] # <<>> /\ Last(calls[t]).at = at

(* Threads run Ruby code outside AE.run, in the callbacks of the loop and in *)
(* the on_exit procs.                                                        *)
InUserCode(t) == calls[t] = <<>> \/ In(t, "loop") \/ In(t, "proc")

Enter(t, call) == calls' = [calls EXCEPT ![t] = Append(@, call)]
Now(t, call) == calls' = [calls EXCEPT ![t] = Append(Front(@), call)]
Leave(t) == calls' = [calls EXCEPT ![t] = Front(@)]

(* Runs end in the order in which they begin: one engine, one loop.          *)
Ended == IF AE_status = "stopped" THEN runs ELSE runs - 1

on_exit(t) ==
  /\ InUserCode(t) /\ Len(registered) < MaxProcs
  /\ registered' = Append(registered, Ended)
  /\ onExitProcs' = Append(onExitProcs, Len(registered) + 1)
  /\ UNCHANGED <<engineVars, calls, called, given>>

unset_on_exit(t) ==
  /\ InUserCode(t) /\ onExitProcs # <<>>
  /\ given' = given \cup ToSet(onExitProcs)
  /\ onExitProcs' = <<>>
  /\ UNCHANGED <<engineVars, calls, registered, called>>

-----------------------------------------------------------------------------
(* AE.run of a thread that does not find the engine running, up to the       *)
(* mutex.                                                                    *)
Run(t) ==
  /\ InUserCode(t) /\ AE_status # "running"
  /\ runs < MaxRuns /\ Len(calls[t]) <= MaxRuns
  /\ Enter(t, Call("mutex", 0, <<>>, NoError))
  /\ UNCHANGED <<engineVars, onExitProcs, historyVars>>

Lock(t) ==
  /\ In(t, "mutex") /\ AE_mutex = Nobody
  /\ IF AE_status = "stopped" /\ runs < MaxRuns
       THEN /\ AE_mutex' = t /\ AE_status' = "running"
            /\ runs' = runs + 1
            /\ Now(t, Call("loop", runs + 1, <<>>, NoError))
       ELSE Leave(t) /\ UNCHANGED <<AE_mutex, AE_status, runs>>
  /\ UNCHANGED <<exitError, failure, onExitProcs, historyVars>>

(* rb_mutex_lock raises a ThreadError in the thread that owns the mutex.     *)
LockRaises(t) ==
  /\ In(t, "mutex") /\ AE_mutex = t
  /\ Leave(t)
  /\ UNCHANGED <<engineVars, onExitProcs, historyVars>>

(* ae_release_loop, without an error or called by ae_handle_error.           *)
Release(t, e) ==
  /\ In(t, "loop") /\ AE_status = "running"
  /\ AE_status' = "releasing"
  /\ failure' = [failure EXCEPT ![runs] = e]
  /\ IF e = NoError THEN UNCHANGED exitError ELSE exitError' = e
  /\ UNCHANGED <<AE_mutex, runs, onExitProcs, calls, historyVars>>

(* uv_run() returns; up to the loop over the on_exit procs no other thread   *)
(* gets the GVL.                                                             *)
LoopReturns_ErrorKept(t) ==                             \* mutant
  /\ In(t, "loop") /\ AE_status = "releasing"
  /\ AE_status' = "stopped" /\ AE_mutex' = Nobody
  /\ onExitProcs' = <<>>
  /\ Now(t, Call("exit", Last(calls[t]).run, onExitProcs, exitError))
  /\ UNCHANGED <<exitError, runs, failure, historyVars>>

LoopReturns_ArrayKept(t) ==                             \* mutant
  /\ In(t, "loop") /\ AE_status = "releasing"
  /\ AE_status' = "stopped" /\ AE_mutex' = Nobody
  /\ exitError' = NoError
  /\ Now(t, Call("exit", Last(calls[t]).run, onExitProcs, exitError))
  /\ UNCHANGED <<runs, failure, onExitProcs, historyVars>>

LoopReturns_MutexKept(t) ==                             \* mutant
  /\ In(t, "loop") /\ AE_status = "releasing"
  /\ AE_status' = "stopped"
  /\ exitError' = NoError /\ onExitProcs' = <<>>
  /\ Now(t, Call("exit", Last(calls[t]).run, onExitProcs, exitError))
  /\ UNCHANGED <<AE_mutex, runs, failure, historyVars>>

LoopReturns_SkippedOnError(t) ==                        \* mutant
  LET taken == IF exitError = NoError THEN onExitProcs ELSE <<>>
  IN /\ In(t, "loop") /\ AE_status = "releasing"
     /\ AE_status' = "stopped" /\ AE_mutex' = Nobody
     /\ exitError' = NoError
     /\ onExitProcs' = IF taken = <<>> THEN onExitProcs ELSE <<>>
     /\ Now(t, Call("exit", Last(calls[t]).run, taken, exitError))
     /\ UNCHANGED <<runs, failure, historyVars>>

LoopReturns(t) ==
  /\ In(t, "loop") /\ AE_status = "releasing"
  /\ AE_status' = "stopped" /\ AE_mutex' = Nobody
  /\ exitError' = NoError /\ onExitProcs' = <<>>
  /\ Now(t, Call("exit", Last(calls[t]).run, onExitProcs, exitError))
  /\ UNCHANGED <<runs, failure, historyVars>>

-----------------------------------------------------------------------------
CallProc(t) ==
  LET call == Last(calls[t])
  IN /\ In(t, "exit") /\ call.procs # <<>>
     /\ Now(t, Call("proc", call.run, Tail(call.procs), call.error))
     /\ called' = Append(called, [proc |-> Head(call.procs), run |-> call.run,
                                  error |-> call.error])
     /\ UNCHANGED <<engineVars, onExitProcs, registered, given>>

ProcReturns(t) ==
  LET call == Last(calls[t])
  IN /\ In(t, "proc")
     /\ Now(t, Call("exit", call.run, call.procs, call.error))
     /\ UNCHANGED <<engineVars, onExitProcs, historyVars>>

(* A proc raises, itself or because an AE.run in it raised: AE.run is left   *)
(* there and then.                                                           *)
ProcRaises(t) ==
  /\ In(t, "proc")
  /\ given' = given \cup ToSet(Last(calls[t]).procs)
  /\ Leave(t)
  /\ UNCHANGED <<engineVars, onExitProcs, registered, called>>

(* AE.run returns or raises what it captured, which the caller may rescue.   *)
RunEnds(t) ==
  /\ In(t, "exit") /\ Last(calls[t]).procs = <<>>
  /\ Leave(t)
  /\ UNCHANGED <<engineVars, onExitProcs, historyVars>>

Step(t) ==
  \/ on_exit(t) \/ unset_on_exit(t)
  \/ Run(t) \/ Lock(t) \/ LockRaises(t) \/ \E e \in Outcomes : Release(t, e)
  \/ LoopReturns(t) \/ CallProc(t) \/ ProcReturns(t) \/ ProcRaises(t) \/ RunEnds(t)

Next == \E t \in Threads : Step(t)

Spec == Init /\ [][Next]_vars

-----------------------------------------------------------------------------
LeftToCall == UNION {UNION {ToSet(calls[t][i].procs) : i \in DOMAIN calls[t]} :
                     t \in Threads}

(* A proc gets the error that ended the run that calls it: not the one of an *)
(* earlier run, of a run inside another proc, or of another thread's.        *)
ErrorOfItsRun == \A c \in ToSet(called) : c.error = failure[c.run]

(* A proc is called by the run that ended next after it was registered, also *)
(* when it was registered by an on_exit proc or while other threads ran and  *)
(* stopped the engine.                                                       *)
CalledByTheNextEnd == \A c \in ToSet(called) : c.run = registered[c.proc] + 1

(* Each proc registered is in one place: waiting for the end of a run, about *)
(* to be called, called once, or given up because it was unset or because a  *)
(* proc before it raised (test_basic.rb, test_08).  And a run calls them in  *)
(* the order in which they were registered.                                  *)
EachOnceInOrder ==
  /\ \A p \in 1 .. Len(registered) :
       Cardinality({i \in DOMAIN called : called[i].proc = p})
       + Cardinality({place \in {"waiting", "next", "given"} :
                        p \in CASE place = "waiting" -> ToSet(onExitProcs)
                               [] place = "next" -> LeftToCall
                               [] OTHER -> given}) = 1
  /\ \A i, j \in DOMAIN called :
       i < j /\ called[i].run = called[j].run => called[i].proc < called[j].proc

(* An on_exit proc may run the engine again (test_09): a thread asks for the *)
(* mutex it owns only in a hook that the release calls inside its loop, and  *)
(* owns it as long as one of its calls is in the loop.                       *)
NotItsOwnMutex ==
  \A t \in Threads : \A i \in DOMAIN calls[t] :
    /\ calls[t][i].at = "mutex" /\ AE_mutex = t =>
         AE_status = "releasing" /\ i > 1 /\ calls[t][i - 1].at = "loop"
    /\ calls[t][i].at = "loop" => AE_mutex = t

-----------------------------------------------------------------------------
(* The inductive invariant: what the properties above need of the states in  *)
(* between.                                                                  *)
Increasing(s) == \A i, j \in DOMAIN s : i < j => s[i] < s[j]
Ending(call) == call.at \in {"exit", "proc"}       \* it calls on_exit procs

(* Calls nest in user code; what the release of a loop calls gets no further *)
(* than the mutex, and only the thread in the loop owns that.                *)
CallOK(t, i) ==
  /\ calls[t][i].at = "loop" => AE_mutex = t /\ calls[t][i].run = runs
  /\ calls[t][i].at \in {"mutex", "exit"} => i = Len(calls[t])
  /\ calls[t][i].at = "loop" /\ i < Len(calls[t]) =>
       i + 1 = Len(calls[t]) /\ calls[t][i + 1].at = "mutex"
  /\ calls[t][i].at = "mutex" /\ AE_mutex = t =>
       AE_status = "releasing" /\ i > 1 /\ calls[t][i - 1].at = "loop"
  /\ ~Ending(calls[t][i]) => calls[t][i].procs = <<>>

CallsInv ==
  /\ AE_mutex = Nobody <=> AE_status = "stopped"
  /\ AE_status # "stopped" => runs > 0
  /\ \A t \in Threads : AE_mutex = t => \E i \in DOMAIN calls[t] : calls[t][i].at = "loop"
  /\ \A t \in Threads : \A i \in DOMAIN calls[t] : CallOK(t, i)

(* @_exit_error holds the error of the run that is being released, and of no *)
(* other; the runs that ended are called for by different calls.             *)
EndingOK(t, i) == /\ calls[t][i].run \in 1 .. Ended
                  /\ calls[t][i].error = failure[calls[t][i].run]

OnlyCallOfRun(t, i) ==
  \A u \in Threads : \A j \in DOMAIN calls[u] :
    Ending(calls[u][j]) /\ calls[u][j].run = calls[t][i].run => u = t /\ j = i

ErrorInv ==
  /\ exitError = IF AE_status = "releasing" THEN failure[runs] ELSE NoError
  /\ \A t \in Threads : \A i \in DOMAIN calls[t] :
       Ending(calls[t][i]) => EndingOK(t, i) /\ OnlyCallOfRun(t, i)
  /\ \A k \in DOMAIN called : called[k].run \in 1 .. Ended

(* The procs waiting were registered since the last run ended, and those a   *)
(* call has taken while its run was on: those it has called are the first.   *)
LeftOK(t, i) ==
  /\ Increasing(calls[t][i].procs)
  /\ \A k \in DOMAIN calls[t][i].procs :
       /\ calls[t][i].procs[k] <= Len(registered)
       /\ registered[calls[t][i].procs[k]] + 1 = calls[t][i].run
       /\ \A l \in DOMAIN called : called[l].run = calls[t][i].run =>
            called[l].proc < calls[t][i].procs[k]

OrderInv ==
  /\ Increasing(onExitProcs)
  /\ \A k \in DOMAIN onExitProcs :
       onExitProcs[k] <= Len(registered) /\ registered[onExitProcs[k]] = Ended
  /\ \A t \in Threads : \A i \in DOMAIN calls[t] : LeftOK(t, i)
  /\ \A k \in DOMAIN called : called[k].proc <= Len(registered)

CalledInOrder ==
  \A i, j \in DOMAIN called :
    i < j /\ called[i].run = called[j].run => called[i].proc < called[j].proc

(* No proc is lost, and none that was given up is called.                    *)
WasCalled == {called[k].proc : k \in DOMAIN called}
PlaceInv ==
  /\ given \cap (ToSet(onExitProcs) \cup LeftToCall \cup WasCalled) = {}
  /\ given \cup ToSet(onExitProcs) \cup LeftToCall \cup WasCalled = 1 .. Len(registered)

OnExitInv ==
  /\ TypeOK /\ CallsInv
  /\ ErrorInv /\ ErrorOfItsRun
  /\ OrderInv /\ CalledInOrder /\ CalledByTheNextEnd /\ PlaceInv
=============================================================================
