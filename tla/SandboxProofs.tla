---------------------------- MODULE SandboxProofs ----------------------------
(***************************************************************************)
(* Proofs about Sandbox, for any number of pool threads.                   *)
(***************************************************************************)
EXTENDS Sandbox, TLAPS

LEMMA SandboxInvInit == Init => SandboxInv
<1> SUFFICES ASSUME Init PROVE SandboxInv
  OBVIOUS
<1>1. TypeOK
  BY DEF Init, TypeOK, Stages
<1>2. \A w \in Threads :
        /\ stage[w] = "idle" /\ code[w] = None /\ ~fin[w]
        /\ \A by \in By : call[w][by] = "no"
  BY DEF Init
<1>3. JumpsHome /\ LimitCodesTrue
  BY <1>2, SandboxConstants DEF JumpsHome, LimitCodesTrue, RunCode
<1>4. \A w \in Threads : CallsInPlace(w)
  BY <1>2 DEF CallsInPlace, By
<1> QED
  BY <1>1, <1>3, <1>4 DEF SandboxInv

(* The end of a run, with a code that its limits allow.                    *)
LEMMA EndKeepsInv ==
  ASSUME SandboxInv, NEW w \in Threads, NEW result \in RunCode, End(w, result),
         ~fin[w], call[w]["script"] = "no",
         result = "ErrTimeout" => "time" \in limits[w],
         result = "ErrMemory" => "memory" \in limits[w]
  PROVE  SandboxInv'
<1>1. TypeOK'
  BY SandboxConstants DEF SandboxInv, TypeOK, End, Stages
<1>2. JumpsHome' /\ LimitCodesTrue'
  BY DEF SandboxInv, TypeOK, JumpsHome, LimitCodesTrue, End
<1>3. \A v \in Threads : CallsInPlace(v)'
  BY DEF SandboxInv, TypeOK, CallsInPlace, End
<1> QED
  BY <1>1, <1>2, <1>3 DEF SandboxInv

LEMMA DieKeepsInv ==
  ASSUME SandboxInv, NEW why \in Cause, Die(why)
  PROVE  SandboxInv'
<1>1. TypeOK'
  BY DEF SandboxInv, TypeOK, Die
<1> QED
  BY <1>1 DEF SandboxInv, JumpsHome, LimitCodesTrue, CallsInPlace, Die

(* The steps of runAction.                                                 *)
LEMMA RunKeepsInv ==
  ASSUME SandboxInv, NEW w \in Threads,
         Begin(w) \/ Load(w) \/ Primed(w) \/ Raise(w) \/ Return(w) \/ Close(w)
  PROVE  SandboxInv'
<1>1. CASE Begin(w)
  <2>1. PICK old \in {"unset", "stale"} : env' = [env EXCEPT ![w] = old]
    BY <1>1 DEF Begin
  <2>2. PICK l \in SUBSET {"time", "memory"} : limits' = [limits EXCEPT ![w] = l]
    BY <1>1 DEF Begin
  <2>3. /\ stage[w] = "idle" /\ stage' = [stage EXCEPT ![w] = "load"]
        /\ code' = [code EXCEPT ![w] = None]
        /\ UNCHANGED <<cause, fin, call, lock>>
    BY <1>1 DEF Begin
  <2>4. TypeOK'
    BY <2>1, <2>2, <2>3 DEF SandboxInv, TypeOK, Stages
  <2>5. JumpsHome' /\ LimitCodesTrue'
    BY <2>1, <2>2, <2>3, SandboxConstants
       DEF SandboxInv, TypeOK, JumpsHome, LimitCodesTrue, RunCode
  <2>6. \A v \in Threads : CallsInPlace(v)'
    BY <2>3 DEF SandboxInv, TypeOK, CallsInPlace
  <2> QED
    BY <2>4, <2>5, <2>6 DEF SandboxInv
<1>2. CASE Load(w)
  <2>1. CASE End(w, "ErrBytecode")
    BY <1>2, <2>1, EndKeepsInv DEF Load, RunCode, SandboxInv, CallsInPlace
  <2>2. CASE /\ stage' = [stage EXCEPT ![w] = "prime"]
             /\ UNCHANGED <<cause, limits, env, fin, call, lock, code>>
    BY <1>2, <2>2 DEF Load, SandboxInv, TypeOK, JumpsHome, LimitCodesTrue, CallsInPlace, Stages
  <2> QED
    BY <1>2, <2>1, <2>2 DEF Load
<1>3. CASE Primed(w)
  <2>1. CASE End(w, "ErrNoMain")
    BY <1>3, <2>1, EndKeepsInv DEF Primed, Runs, RunCode
  <2>2. CASE Die("message")
    BY <2>2, DieKeepsInv DEF Cause
  <2>3. CASE /\ stage' = [stage EXCEPT ![w] = "main"]
             /\ env' = [env EXCEPT ![w] = "set"]
             /\ UNCHANGED <<cause, limits, fin, call, lock, code>>
    BY <1>3, <2>3 DEF Primed, Runs, SandboxInv, TypeOK, JumpsHome, LimitCodesTrue, CallsInPlace, Stages
  <2> QED
    BY <1>3, <2>1, <2>2, <2>3 DEF Primed
<1>4. CASE Raise(w)
  <2>1. CASE End(w, "ErrPriming")
    BY <1>4, <2>1, EndKeepsInv DEF Raise, Runs, RunCode
  <2>2. CASE End(w, "ErrMain")
    BY <1>4, <2>2, EndKeepsInv DEF Raise, Runs, RunCode
  <2>3. CASE Die("message")
    BY <2>3, DieKeepsInv DEF Cause
  <2>4. CASE Die("unprotected")
    BY <2>4, DieKeepsInv DEF Cause
  <2> QED
    BY <1>4, <2>1, <2>2, <2>3, <2>4 DEF Raise
<1>5. CASE Return(w)
  <2>1. CASE End(w, "Success")
    BY <1>5, <2>1, EndKeepsInv DEF Return, Runs, RunCode
  <2>2. CASE Die("unprotected")
    BY <2>2, DieKeepsInv DEF Cause
  <2> QED
    BY <1>5, <2>1, <2>2 DEF Return
<1>6. CASE Close(w)
  <2>1. /\ ~fin[w] /\ stage[w] = "close" /\ stage' = [stage EXCEPT ![w] = "idle"]
        /\ UNCHANGED <<cause, limits, env, fin, call, lock, code>>
    BY <1>6 DEF Close
  <2> QED
    BY <2>1 DEF SandboxInv, TypeOK, JumpsHome, LimitCodesTrue, CallsInPlace, Stages
<1> QED
  BY <1>1, <1>2, <1>3, <1>4, <1>5, <1>6

(* The hook: where it jumps to and what it makes the run return.           *)
LEMMA HookKeepsInv ==
  ASSUME SandboxInv, NEW w \in Threads, NEW limit \in {"time", "memory"}, Hook(w, limit)
  PROVE  SandboxInv'
<1> DEFINE result == IF limit = "time" THEN "ErrTimeout" ELSE "ErrMemory"
<1>1. CASE End(w, result)
  BY <1>1, EndKeepsInv DEF Hook, Runs, RunCode
<1>2. CASE Die("jump")
  BY <1>2, DieKeepsInv DEF Cause
<1> QED
  BY <1>1, <1>2 DEF Hook, LongJump

(* A finalizer begins and ends.                                            *)
LEMMA FinalizerKeepsInv ==
  ASSUME SandboxInv, NEW w \in Threads,
         Collect(w) \/ FinalizerReturns(w) \/ FinalizerFails(w)
  PROVE  SandboxInv'
<1>1. CASE Collect(w)
  BY <1>1 DEF Collect, SandboxInv, TypeOK, JumpsHome, LimitCodesTrue, CallsInPlace
<1>2. CASE FinalizerReturns(w)
  BY <1>2 DEF FinalizerReturns, Runs, SandboxInv, TypeOK, JumpsHome, LimitCodesTrue,
              CallsInPlace
<1>3. CASE FinalizerFails(w)
  <2>1. CASE Die("unprotected")
    BY <2>1, DieKeepsInv DEF Cause
  <2>2. CASE /\ fin' = [fin EXCEPT ![w] = FALSE]
             /\ call' = [call EXCEPT ![w]["script"] = "no"]
             /\ UNCHANGED <<cause, stage, limits, env, lock, code>>
    BY <1>3, <2>2 DEF FinalizerFails, Runs, SandboxInv, TypeOK, JumpsHome,
                      LimitCodesTrue, CallsInPlace, By
  <2> QED
    BY <1>3, <2>1, <2>2 DEF FinalizerFails
<1> QED
  BY <1>1, <1>2, <1>3

(* The steps of callPlugin.                                                *)
LEMMA PluginKeepsInv ==
  ASSUME SandboxInv, NEW w \in Threads, NEW by \in By,
         \/ CallPlugin(w, by) \/ Acquire(w, by)
         \/ PluginReturns(w, by) \/ PluginFails(w, by) \/ PluginDies(w, by)
  PROVE  SandboxInv'
<1> USE DEF SandboxInv, TypeOK, JumpsHome, LimitCodesTrue, CallsInPlace, By
<1>1. CASE CallPlugin(w, by)
  BY <1>1 DEF CallPlugin, Runs
<1>2. CASE Acquire(w, by)
  <2>1. \A v \in Threads : \A b \in By : call[v][b] # "holds"
    BY <1>2, SandboxConstants DEF Acquire
  <2> QED
    BY <1>2, <2>1 DEF Acquire
<1>3. CASE PluginReturns(w, by)
  <2>1. \A v \in Threads : \A b \in By : call[v][b] = "holds" => v = w /\ b = by
    BY <1>3 DEF PluginReturns, Inside
  <2> QED
    BY <1>3, <2>1 DEF PluginReturns
<1>4. CASE PluginFails(w, by)
  BY <1>4 DEF PluginFails
<1>5. CASE PluginDies(w, by)
  BY <1>5, DieKeepsInv DEF PluginDies, Cause
<1> QED
  BY <1>1, <1>2, <1>3, <1>4, <1>5

LEMMA NextKeepsInv == SandboxInv /\ [Next]_vars => SandboxInv'
<1> SUFFICES ASSUME SandboxInv, [Next]_vars PROVE SandboxInv'
  OBVIOUS
<1>1. CASE UNCHANGED vars
  BY <1>1 DEF vars, SandboxInv, TypeOK, JumpsHome, LimitCodesTrue, CallsInPlace
<1>2. CASE Next
  BY <1>2, RunKeepsInv, FinalizerKeepsInv, HookKeepsInv, PluginKeepsInv DEF Next
<1> QED
  BY <1>1, <1>2

(* Types, codes, jump buffers and the holder of the lock, for any number   *)
(* of threads that run actions for ever.                                   *)
THEOREM SandboxInvariant == Spec => []SandboxInv
  BY SandboxInvInit, NextKeepsInv, PTL DEF Spec

(* Types of the sandboxes; in particular a run that has come to lua_close  *)
(* has the code that actionRun will hand on.                               *)
THEOREM SandboxTypes == Spec => []TypeOK
<1>1. SandboxInv => TypeOK
  BY DEF SandboxInv
<1> QED
  BY <1>1, SandboxInvariant, PTL

(* Plugins are called by one thread at a time, and by a finalizer never in *)
(* the middle of a call.                                                   *)
THEOREM PluginCallsExclude == Spec => []OneCaller
<1>1. SandboxInv => OneCaller
  BY DEF SandboxInv, CallsInPlace, OneCaller, By
<1> QED
  BY <1>1, SandboxInvariant, PTL

(* A limit that strikes while main runs jumps into the frame that set the  *)
(* buffer.                                                                 *)
THEOREM MainJumpsHome == Spec => []JumpsHome
<1>1. SandboxInv => JumpsHome
  BY DEF SandboxInv
<1> QED
  BY <1>1, SandboxInvariant, PTL

(* Once a plugin call has ended by error, no plugin is called any more.    *)
LEMMA StepKeepsLost == SandboxInv /\ [Next]_vars /\ Lost => Lost' /\ lock' = lock
<1> SUFFICES ASSUME SandboxInv, [Next]_vars, Lost
             PROVE  Lost' /\ lock' = lock
  OBVIOUS
<1>1. CASE UNCHANGED <<call, lock>>
  BY <1>1 DEF Lost
<1>2. ASSUME NEW w \in Threads, NEW by \in By, CallPlugin(w, by)
      PROVE  Lost' /\ lock' = lock
  BY <1>2 DEF CallPlugin, Lost, SandboxInv, TypeOK, By
<1>3. ASSUME NEW w \in Threads, FinalizerFails(w)
      PROVE  Lost' /\ lock' = lock
  BY <1>3 DEF FinalizerFails, Die, Lost, SandboxInv, TypeOK, By
<1>4. ASSUME NEW w \in Threads, NEW by \in By,
             Acquire(w, by) \/ PluginReturns(w, by) \/ PluginFails(w, by)
      PROVE  FALSE
  BY <1>4 DEF Acquire, PluginReturns, PluginFails, Inside, Lost, SandboxInv, CallsInPlace
<1>5. \/ UNCHANGED <<call, lock>>
      \/ \E w \in Threads : FinalizerFails(w)
      \/ \E w \in Threads, by \in By :
           \/ CallPlugin(w, by) \/ Acquire(w, by)
           \/ PluginReturns(w, by) \/ PluginFails(w, by)
  BY DEF Next, vars, Begin, Load, Primed, Raise, Return, Close, Collect,
         FinalizerReturns, Hook, LongJump, PluginDies, End, Die
<1> QED
  BY <1>1, <1>2, <1>3, <1>4, <1>5

THEOREM MutexLostForGood == Spec => LostForGood
<1>1. SandboxInv /\ [Next]_vars => [Lost => Lost' /\ lock' = lock]_vars
  BY StepKeepsLost
<1> QED
  BY <1>1, SandboxInvariant, PTL DEF Spec, LostForGood

=============================================================================
