------------------------------- MODULE Sandbox -------------------------------
(***************************************************************************)
(* sandbox.h / sandbox.cpp: a run of an action in a Lua state of its own,  *)
(* on several pool threads at once.  A run is loaded, primed (the chunk is *)
(* run to define its globals), its main is called, and its Lua state is    *)
(* closed.  While the chunk or main runs, the count hook may find a limit  *)
(* exceeded and leave with longjmp; and the code may call plugins, under a *)
(* mutex that all sandboxes share.  Lua may collect garbage whenever the   *)
(* script or a plugin call allocates something, and runs the finalizers of *)
(* the script then, one at a time and with hooks off; so it does when the  *)
(* state is closed.                                                        *)
(*                                                                         *)
(* What a script does is free: it may return, raise an error, loop or call *)
(* a plugin at any time, in its finalizers too, but it leaves alone the    *)
(* globals __SELF and __ENV, where hook and callPlugin find their          *)
(* pointers, does not stay inside one library function, where no hook is   *)
(* called, for ever, and starts no coroutine in a finalizer (hooks are on  *)
(* in it).  Lua is compiled as C, so its errors leave a C++ function by    *)
(* longjmp, without running destructors.                                   *)
(***************************************************************************)

CONSTANTS Threads,    (* threads of the uv pool                            *)
          None        (* no thread, no RunCode, no cause                   *)

(* RunCode, of which ErrUnknown is returned by no path.                    *)
RunCode == {"Success", "ErrTimeout", "ErrBytecode", "ErrPriming",
            "ErrNoMain", "ErrMain", "ErrMemory"}

(* What can take the process down: a jump through a jmp_buf that was not   *)
(* set, a null message assigned to a std::string, a Lua error outside of   *)
(* any pcall, a plugin call whose payload is no table, and one that names  *)
(* no plugin or no action.                                                 *)
Cause == {"jump", "message", "unprotected", "payload", "plugin"}

(* Who calls plugins in a Lua state: the chunk and main, or a finalizer.   *)
By == {"script", "finalizer"}

ASSUME SandboxConstants ==
  /\ None \notin Threads \cup RunCode \cup Cause
  /\ Threads # {}

VARIABLES
  cause,      (* what took the process down, None while it is up           *)
  stage,      (* how far the run of each thread has come                   *)
  limits,     (* which of mslimit and kblimit the run has                  *)
  env,        (* the jmp_buf: never set, left by an earlier run, or set    *)
  fin,        (* a finalizer runs on the thread                            *)
  call,       (* the plugin calls of each thread: none, waiting or inside  *)
  lock,       (* Sandbox::_lock: the thread that has locked it             *)
  code        (* what the last run of each thread returned                 *)

vars == <<cause, stage, limits, env, fin, call, lock, code>>

Stages == {"idle", "load", "prime", "main", "close"}

Init ==
  /\ cause = None
  /\ stage = [w \in Threads |-> "idle"]
  /\ limits = [w \in Threads |-> {}]
  /\ env = [w \in Threads |-> "unset"]
  /\ fin = [w \in Threads |-> FALSE]
  /\ call = [w \in Threads |-> [by \in By |-> "no"]]
  /\ lock = None
  /\ code = [w \in Threads |-> None]

(* The thread runs Lua code of the script, or a finalizer in between.      *)
Runs(w, by) ==
  /\ cause = None
  /\ IF by = "script" THEN stage[w] \in {"prime", "main"} /\ ~fin[w] ELSE fin[w]
  /\ call[w][by] = "no"

End(w, result) ==
  /\ stage' = [stage EXCEPT ![w] = "close"]
  /\ code' = [code EXCEPT ![w] = result]
  /\ UNCHANGED <<cause, limits, env, fin, call, lock>>

Die(why) ==
  /\ cause' = why
  /\ UNCHANGED <<stage, limits, env, fin, call, lock, code>>

-----------------------------------------------------------------------------
(* runAction                                                               *)

(* Mutant: every run starts with a fresh mutex.                            *)
Begin_ResetsLock(w) ==
  /\ cause = None /\ stage[w] = "idle"
  /\ stage' = [stage EXCEPT ![w] = "load"]
  /\ code' = [code EXCEPT ![w] = None]
  /\ \E l \in SUBSET {"time", "memory"} : limits' = [limits EXCEPT ![w] = l]
  /\ lock' = None
  /\ UNCHANGED <<cause, env, fin, call>>

(* actionRun makes a Sandbox on its stack and copies the limits of the     *)
(* action.  The jmp_buf in it has no initializer: it holds what an earlier *)
(* run on this thread left at this place of the stack, or something else.  *)
Begin(w) ==
  /\ cause = None /\ stage[w] = "idle"
  /\ stage' = [stage EXCEPT ![w] = "load"]
  /\ code' = [code EXCEPT ![w] = None]
  /\ \E l \in SUBSET {"time", "memory"} : limits' = [limits EXCEPT ![w] = l]
  /\ \E old \in {"unset"} \cup (IF env[w] = "unset" THEN {} ELSE {"stale"}) :
       env' = [env EXCEPT ![w] = old]
  /\ UNCHANGED <<cause, fin, call, lock>>

(* luaL_loadbuffer: the bytecode is accepted or not.                       *)
Load(w) ==
  /\ cause = None /\ stage[w] = "load"
  /\ \/ /\ stage' = [stage EXCEPT ![w] = "prime"]
        /\ UNCHANGED <<cause, limits, env, fin, call, lock, code>>
     \/ End(w, "ErrBytecode")

(* The chunk has returned.  If main is a function, setjmp is called and    *)
(* then main.  If it is a string or a number, that is the message; if it   *)
(* is anything else, nil above all, lua_tostring has no message to give.   *)
Primed(w) ==
  /\ Runs(w, "script") /\ stage[w] = "prime"
  /\ \/ /\ stage' = [stage EXCEPT ![w] = "main"]
        /\ env' = [env EXCEPT ![w] = "set"]
        /\ UNCHANGED <<cause, limits, fin, call, lock, code>>
     \/ End(w, "ErrNoMain")
     \/ Die("message")

(* The script raises an error that nothing in it catches.  Its value is    *)
(* the message if it is a string or a number.  What the chunk has made to  *)
(* happen when main is looked up runs outside of any pcall.                *)
Raise(w) ==
  /\ Runs(w, "script")
  /\ \/ stage[w] = "prime" /\ (End(w, "ErrPriming") \/ Die("unprotected"))
     \/ stage[w] = "main"  /\ End(w, "ErrMain")
     \/ Die("message")

(* main returns.  readValue is called outside of any pcall: for a value    *)
(* that JSON does not have it raises an error that nothing catches.        *)
Return(w) ==
  /\ Runs(w, "script") /\ stage[w] = "main"
  /\ End(w, "Success") \/ Die("unprotected")

(* ~Sandbox: lua_close has run all finalizers.                             *)
Close(w) ==
  /\ cause = None /\ stage[w] = "close" /\ ~fin[w]
  /\ stage' = [stage EXCEPT ![w] = "idle"]
  /\ UNCHANGED <<cause, limits, env, fin, call, lock, code>>

-----------------------------------------------------------------------------
(* Finalizers                                                              *)

(* Lua runs a finalizer: when the script or a plugin call allocates, or in *)
(* lua_close, if there was a script that could set one.                    *)
Collect(w) ==
  /\ cause = None /\ ~fin[w]
  /\ \/ stage[w] \in {"prime", "main"} /\ call[w]["script"] # "waits"
     \/ stage[w] = "close" /\ code[w] # "ErrBytecode"
  /\ fin' = [fin EXCEPT ![w] = TRUE]
  /\ UNCHANGED <<cause, stage, limits, env, call, lock, code>>

FinalizerReturns(w) ==
  /\ Runs(w, "finalizer")
  /\ fin' = [fin EXCEPT ![w] = FALSE]
  /\ UNCHANGED <<cause, stage, limits, env, call, lock, code>>

(* It ends by error.  lua_close ignores that; otherwise it is an error of  *)
(* the script, which may catch it, or of the plugin call that allocated,   *)
(* whose lock_guard is jumped over, or it comes while the argument, main   *)
(* or the result is on its way between C++ and Lua, outside of any pcall.  *)
FinalizerFails(w) ==
  /\ Runs(w, "finalizer")
  /\ \/ /\ fin' = [fin EXCEPT ![w] = FALSE]
        /\ call' = [call EXCEPT ![w]["script"] = "no"]
        /\ UNCHANGED <<cause, stage, limits, env, lock, code>>
     \/ stage[w] # "close" /\ Die("unprotected")

-----------------------------------------------------------------------------
(* hook                                                                    *)

(* longjmp to what the jmp_buf holds.  What an earlier run on this thread  *)
(* left there leads to the same place of the same frame, if the stack is   *)
(* as it was then.                                                         *)
LongJump(w, result) ==
  \/ env[w] # "unset" /\ End(w, result)
  \/ env[w] # "set" /\ Die("jump")

(* Mutant: the two codes are mixed up.                                     *)
Hook_Swaps(w, limit) ==
  /\ Runs(w, "script")
  /\ limit \in limits[w]
  /\ LongJump(w, IF limit = "time" THEN "ErrMemory" ELSE "ErrTimeout")

(* Mutant: the time is not looked at while main runs.                      *)
Hook_MissesMain(w, limit) ==
  /\ Runs(w, "script")
  /\ limit \in limits[w]
  /\ limit = "time" => stage[w] = "prime"
  /\ LongJump(w, IF limit = "time" THEN "ErrTimeout" ELSE "ErrMemory")

(* The hook finds a limit exceeded.  It is installed before the chunk is   *)
(* loaded; Lua calls no hooks in finalizers, nor in C functions.           *)
Hook(w, limit) ==
  /\ Runs(w, "script")
  /\ limit \in limits[w]
  /\ LongJump(w, IF limit = "time" THEN "ErrTimeout" ELSE "ErrMemory")

-----------------------------------------------------------------------------
(* callPlugin                                                              *)

CallPlugin(w, by) ==
  /\ Runs(w, by)
  /\ call' = [call EXCEPT ![w][by] = "waits"]
  /\ UNCHANGED <<cause, stage, limits, env, fin, lock, code>>

(* Mutant: the lock is commented out.                                      *)
Acquire_NoLock(w, by) ==
  /\ cause = None /\ call[w][by] = "waits"
  /\ lock' = w
  /\ call' = [call EXCEPT ![w][by] = "holds"]
  /\ UNCHANGED <<cause, stage, limits, env, fin, code>>

(* The lock_guard locks the mutex.  A thread whose own earlier call left   *)
(* it locked waits like any other, and so does a finalizer that calls a    *)
(* plugin in the middle of the script's own call.                          *)
Acquire(w, by) ==
  /\ cause = None /\ call[w][by] = "waits"
  /\ lock = None
  /\ lock' = w
  /\ call' = [call EXCEPT ![w][by] = "holds"]
  /\ UNCHANGED <<cause, stage, limits, env, fin, code>>

(* The thread is busy with this plugin call and has the lock.              *)
Inside(w, by) ==
  cause = None /\ call[w][by] = "holds" /\ (by = "script" => ~fin[w])

PluginReturns(w, by) ==
  /\ Inside(w, by)
  /\ lock' = None
  /\ call' = [call EXCEPT ![w][by] = "no"]
  /\ UNCHANGED <<cause, stage, limits, env, fin, code>>

(* luaL_checktype, readObject or lua_error raises a Lua error: a wrong     *)
(* plugin name, a key or value that JSON does not have, or an exception of *)
(* the plugin.  The destructor of the lock_guard is not run.  The script   *)
(* or the finalizer may catch the error.                                   *)
PluginFails(w, by) ==
  /\ Inside(w, by)
  /\ call' = [call EXCEPT ![w][by] = "no"]
  /\ UNCHANGED <<cause, stage, limits, env, fin, lock, code>>

(* readObject walks a payload that is no table; the name of the action is  *)
(* missing, or getPlugin has no plugin of this name and returns null.      *)
PluginDies(w, by) ==
  /\ Inside(w, by)
  /\ Die("payload") \/ Die("plugin")

-----------------------------------------------------------------------------

Next ==
  \E w \in Threads :
    \/ Begin(w) \/ Load(w) \/ Primed(w) \/ Raise(w) \/ Return(w) \/ Close(w)
    \/ Collect(w) \/ FinalizerReturns(w) \/ FinalizerFails(w)
    \/ \E limit \in {"time", "memory"} : Hook(w, limit)
    \/ \E by \in By :
         \/ CallPlugin(w, by) \/ Acquire(w, by)
         \/ PluginReturns(w, by) \/ PluginFails(w, by) \/ PluginDies(w, by)

(* Bytecode is loaded, a plugin gives an answer, a free mutex is taken by  *)
(* someone who waits for it.  Time passes, and the hook is called again    *)
(* and again while Lua code runs, between plugin calls too, unless         *)
(* finalizers come in again and again: no hook is called in them, and the  *)
(* instructions they take count for the next call of it.  A script need    *)
(* not do anything, a finalizer need not end, and memory need not run out. *)
Fairness ==
  \A w \in Threads :
    /\ WF_vars(Load(w))
    /\ WF_vars(\E by \in By : Acquire(w, by))
    /\ WF_vars(\E by \in By :
               PluginReturns(w, by) \/ PluginFails(w, by) \/ PluginDies(w, by))
    /\ SF_vars(Hook(w, "time")) \/ []<>fin[w]

Spec == Init /\ [][Next]_vars /\ Fairness

(* With scripts that set no finalizers, and a mutex that lets nobody wait  *)
(* for ever while others get it.                                           *)
TameSpec ==
  /\ Init /\ [][Next /\ UNCHANGED fin]_vars /\ Fairness
  /\ \A w \in Threads : SF_vars(Acquire(w, "script"))

-----------------------------------------------------------------------------
(* Properties                                                              *)

(* Types, and a code for every run that has come to its end.               *)
TypeOK ==
  /\ cause \in Cause \cup {None}
  /\ stage \in [Threads -> Stages]
  /\ limits \in [Threads -> SUBSET {"time", "memory"}]
  /\ env \in [Threads -> {"unset", "stale", "set"}]
  /\ fin \in [Threads -> BOOLEAN]
  /\ call \in [Threads -> [By -> {"no", "waits", "holds"}]]
  /\ lock \in Threads \cup {None}
  /\ code \in [Threads -> RunCode \cup {None}]
  /\ \A w \in Threads : stage[w] = "close" => code[w] # None

(* Plugins are not made for several threads: one call at a time, also when *)
(* calls end by error, limits strike, and finalizers call plugins in the   *)
(* middle of a call.                                                       *)
OneCaller ==
  \A v, w \in Threads : \A b, c \in By :
    call[v][b] = "holds" /\ call[w][c] = "holds" => v = w /\ b = c

(* While main runs the jmp_buf is the one that this run has set: a limit   *)
(* that strikes there ends this run and nothing else.                      *)
JumpsHome == \A w \in Threads : stage[w] = "main" => env[w] = "set"

(* A run is ended for a limit only if its action has this limit.           *)
LimitCodesTrue ==
  \A w \in Threads :
    /\ code[w] = "ErrTimeout" => "time" \in limits[w]
    /\ code[w] = "ErrMemory" => "memory" \in limits[w]

(* The mutex is locked and nobody is inside a plugin to unlock it.         *)
Lost == lock # None /\ \A by \in By : call[lock][by] # "holds"

(* A mutex that a failed call has left locked stays so: no later call, on  *)
(* any thread, gets into a plugin again.                                   *)
LostForGood == [][Lost => Lost' /\ lock' = lock]_vars

(* Where the plugin calls and the finalizers of a thread can be.           *)
CallsInPlace(w) ==
  /\ \A by \in By : call[w][by] = "holds" => lock = w
  /\ ~ \A by \in By : call[w][by] = "holds"
  /\ call[w]["script"] # "no" => stage[w] \in {"prime", "main"}
  /\ call[w]["finalizer"] # "no" => fin[w]
  /\ fin[w] => call[w]["script"] # "waits"
  /\ fin[w] => \/ stage[w] \in {"prime", "main"}
               \/ stage[w] = "close" /\ code[w] # "ErrBytecode"

(* Why OneCaller and JumpsHome hold.                                       *)
SandboxInv ==
  /\ TypeOK
  /\ JumpsHome
  /\ LimitCodesTrue
  /\ \A w \in Threads : CallsInPlace(w)

Timed(w) ==
  cause = None /\ stage[w] \in {"prime", "main"} /\ "time" \in limits[w]

(* Only waiting for the mutex or finalizers, one that loops or ever more   *)
(* of them, can keep a run with a time limit from its end: neither a       *)
(* script that loops nor one that calls plugins for ever.                  *)
OnlyMutexOrFinalizersDelay ==
  \A w \in Threads :
    <>[]Timed(w) => <>[](call[w]["script"] = "waits") \/ []<>fin[w]

(* README.md:130 calls the timeout "the maximum amount of time an action   *)
(* is allowed to take".                                                    *)
TimeLimitHolds == \A w \in Threads : Timed(w) ~> ~Timed(w)

=============================================================================
