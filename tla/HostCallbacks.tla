--------------------------- MODULE HostCallbacks ----------------------------
(***************************************************************************)
(* The plugin calling back into its host (logging.rs, lib.rs, codec.rs,    *)
(* decode.rs).  Matching an extension, a decode that cannot read its file  *)
(* and shutdown call the log function of the stored host table.  That      *)
(* function is the host's: it may call the plugin again on the same        *)
(* thread, so each thread has a stack of calls, of which all but the last  *)
(* wait in a log function.                                                 *)
(*                                                                         *)
(* Of loading and of the registry only what a thread can wait for is here, *)
(* the OnceLock of the cells and the mutex; PluginInit and                 *)
(* PixelBufferLifecycle have the rest, a poisoned mutex included.          *)
(* Metadata calls neither log nor wait.                                    *)
(***************************************************************************)
EXTENDS Naturals

CONSTANTS
  Threads,       \* host threads
  Hosts,         \* non-null IGHostApi pointers the host may pass
  LoggingHosts,  \* those whose core pointer and log function are not null
  MaxDepth,      \* bound on the calls nested on one thread
  NULL

ASSUME CallbackAssumption ==
  /\ NULL \notin Threads \cup Hosts
  /\ LoggingHosts \subseteq Hosts
  /\ MaxDepth \in Nat

VARIABLES
  hostApi,  \* HOST_API
  loaded,   \* the OnceLock cells are filled
  builder,  \* the thread filling them
  handed,   \* the host has the plugin's tables
  lock,     \* holder of the registry's mutex
  torn,     \* the host has torn its log function down
  depth,    \* number of calls nested on each thread
  at,       \* where each call of a thread is
  arg,      \* the host_api argument of the thread's load
  told      \* the host whose log function a call is waiting for

loadVars == <<hostApi, loaded, builder, handed>>
vars == <<hostApi, loaded, builder, handed, lock, torn, depth, at, arg, told>>

(***************************************************************************)
(* Program points: of matching, decode, free, shutdown and load.           *)
(***************************************************************************)
MatchPoints == {"m_enter", "m_log", "m_match"}
DecodePoints == {"d_enter", "d_log", "d_lock", "d_register"}
FreePoints == {"f_enter", "f_lock", "f_unregister"}
ShutdownPoints == {"s_enter", "s_log"}
LoadPoints == {"l_set", "l_cells", "l_build"}
Points == MatchPoints \cup DecodePoints \cup FreePoints \cup ShutdownPoints \cup LoadPoints

\* The log function of the host is running.
CallbackPoints == {"m_log", "d_log", "s_log"}
LockPoints == {"d_register", "f_unregister"}

Levels == 1..MaxDepth

TypeOK ==
  /\ hostApi \in Hosts \cup {NULL}
  /\ loaded \in BOOLEAN
  /\ builder \in Threads \cup {NULL}
  /\ handed \in BOOLEAN
  /\ lock \in Threads \cup {NULL}
  /\ torn \in BOOLEAN
  /\ depth \in [Threads -> 0..MaxDepth]
  /\ at \in [Threads -> [Levels -> Points \cup {NULL}]]
  /\ arg \in [Threads -> Hosts \cup {NULL}]
  /\ told \in [Threads -> [Levels -> Hosts \cup {NULL}]]

Init ==
  /\ hostApi = NULL
  /\ loaded = FALSE
  /\ builder = NULL
  /\ handed = FALSE
  /\ lock = NULL
  /\ torn = FALSE
  /\ depth = [t \in Threads |-> 0]
  /\ at = [t \in Threads |-> [d \in Levels |-> NULL]]
  /\ arg = [t \in Threads |-> NULL]
  /\ told = [t \in Threads |-> [d \in Levels |-> NULL]]

-----------------------------------------------------------------------------
In(t, point) == depth[t] > 0 /\ at[t][depth[t]] = point

\* The thread's last call goes from one point to another.
Goto(t, from, to) ==
  /\ In(t, from)
  /\ at' = [at EXCEPT ![t][depth[t]] = to]
  /\ UNCHANGED depth

Return(t, from) ==
  /\ In(t, from)
  /\ at' = [at EXCEPT ![t][depth[t]] = NULL]
  /\ depth' = [depth EXCEPT ![t] = @ - 1]

\* get_host_api and Logger::log: without a log function the message is dropped.
CanLog == hostApi \in LoggingHosts

Log(t, from, to) ==
  /\ CanLog
  /\ Goto(t, from, to)
  /\ told' = [told EXCEPT ![t][depth[t]] = hostApi]

-----------------------------------------------------------------------------
(***************************************************************************)
(* The host.  It calls from a thread that is not in the plugin or that is  *)
(* in its log function.                                                    *)
(***************************************************************************)
CanCall(t) ==
  /\ depth[t] < MaxDepth
  /\ depth[t] > 0 => at[t][depth[t]] \in CallbackPoints

Call(t, point) ==
  /\ CanCall(t)
  /\ depth' = [depth EXCEPT ![t] = @ + 1]
  /\ at' = [at EXCEPT ![t][depth[t] + 1] = point]
  /\ UNCHANGED <<loadVars, lock, torn, told>>

CallLoad(t, h) ==
  /\ ~torn
  /\ Call(t, "l_set")
  /\ arg' = [arg EXCEPT ![t] = h]

CallTable(t, point) ==
  /\ handed /\ ~torn
  /\ Call(t, point)
  /\ UNCHANGED arg

\* Buffers may be freed to the very end.
CallFree(t) ==
  /\ handed
  /\ Call(t, "f_enter")
  /\ UNCHANGED arg

\* The host ends: its log function goes once no call but a free is running.
TearDown ==
  /\ handed /\ ~torn
  /\ \A t \in Threads : \A d \in 1..depth[t] : at[t][d] \in FreePoints
  /\ torn' = TRUE
  /\ UNCHANGED <<loadVars, lock, depth, at, arg, told>>

HostCall(t) ==
  \/ \E h \in Hosts : CallLoad(t, h)
  \/ \E point \in {"m_enter", "d_enter", "s_enter"} : CallTable(t, point)
  \/ CallFree(t)

\* Slip: a decode that has told the host of a read failure reads once more.
LogReturnsRetrying(t) ==
  /\ \/ Goto(t, "m_log", "m_match")
     \/ Goto(t, "d_log", "d_enter")
     \/ Return(t, "s_log")
  /\ told' = [told EXCEPT ![t][depth[t]] = NULL]
  /\ UNCHANGED <<loadVars, lock, torn, arg>>

\* The log function returns to the call that is waiting for it.
LogReturns(t) ==
  /\ \/ Goto(t, "m_log", "m_match")
     \/ Return(t, "d_log")
     \/ Return(t, "s_log")
  /\ told' = [told EXCEPT ![t][depth[t]] = NULL]
  /\ UNCHANGED <<loadVars, lock, torn, arg>>

-----------------------------------------------------------------------------
(***************************************************************************)
(* Slips against which the properties are tried.                           *)
(***************************************************************************)

\* The last host to load the plugin is stored.
SetHostLast(t) ==
  /\ Goto(t, "l_set", "l_cells")
  /\ hostApi' = arg[t]
  /\ UNCHANGED <<loaded, builder, handed, lock, torn, arg, told>>

\* The host pointer is checked but never stored.
SetHostForgets(t) ==
  /\ Goto(t, "l_set", "l_cells")
  /\ UNCHANGED <<loadVars, lock, torn, arg, told>>

\* A registration is logged, with the lock held.
RegisterLogs(t) ==
  /\ Log(t, "d_register", "d_log")
  /\ UNCHANGED <<loadVars, lock, torn, arg>>

\* A free is logged.
FreeLogs(t) ==
  /\ Log(t, "f_enter", "s_log")
  /\ UNCHANGED <<loadVars, lock, torn, arg>>

\* Out of a load the thread goes where no load is.
CellsOddly(t) ==
  /\ Goto(t, "l_cells", "l_done")
  /\ UNCHANGED <<loadVars, lock, torn, arg, told>>

-----------------------------------------------------------------------------
(***************************************************************************)
(* ig_plugin_get_api, for an accepted host.                                *)
(***************************************************************************)
SetHost(t) ==
  /\ Goto(t, "l_set", "l_cells")
  /\ hostApi' = IF hostApi = NULL THEN arg[t] ELSE hostApi
  /\ UNCHANGED <<loaded, builder, handed, lock, torn, arg, told>>

\* OnceLock::get_or_init: one thread builds, the others wait.
Cells(t) ==
  /\ ~loaded /\ builder = NULL
  /\ Goto(t, "l_cells", "l_build")
  /\ builder' = t
  /\ UNCHANGED <<hostApi, loaded, handed, lock, torn, arg, told>>

Build(t) ==
  /\ Goto(t, "l_build", "l_cells")
  /\ loaded' = TRUE
  /\ builder' = NULL
  /\ UNCHANGED <<hostApi, handed, lock, torn, arg, told>>

AnswerTable(t) ==
  /\ loaded
  /\ Return(t, "l_cells")
  /\ handed' = TRUE
  /\ arg' = [arg EXCEPT ![t] = NULL]
  /\ UNCHANGED <<hostApi, loaded, builder, lock, torn, told>>

(***************************************************************************)
(* codec_can_handle_extension and plugin_shutdown.                         *)
(***************************************************************************)
MatchLogs(t) ==
  /\ Log(t, "m_enter", "m_log")
  /\ UNCHANGED <<loadVars, lock, torn, arg>>

MatchSilent(t) ==
  /\ ~CanLog
  /\ Goto(t, "m_enter", "m_match")
  /\ UNCHANGED <<loadVars, lock, torn, arg, told>>

Match(t) ==
  /\ Return(t, "m_match")
  /\ UNCHANGED <<loadVars, lock, torn, arg, told>>

ShutdownLogs(t) ==
  /\ Log(t, "s_enter", "s_log")
  /\ UNCHANGED <<loadVars, lock, torn, arg>>

ShutdownSilent(t) ==
  /\ ~CanLog
  /\ Return(t, "s_enter")
  /\ UNCHANGED <<loadVars, lock, torn, arg, told>>

(***************************************************************************)
(* codec_decode_static_raster.                                             *)
(***************************************************************************)
ReadFails(t) ==
  /\ Log(t, "d_enter", "d_log")
  /\ UNCHANGED <<loadVars, lock, torn, arg>>

\* Invalid arguments, a read failure nobody is told of, a decoding error or
\* no memory.
DecodeFails(t) ==
  /\ Return(t, "d_enter")
  /\ UNCHANGED <<loadVars, lock, torn, arg, told>>

Decode(t) ==
  /\ Goto(t, "d_enter", "d_lock")
  /\ UNCHANGED <<loadVars, lock, torn, arg, told>>

RegisterLock(t) ==
  /\ lock = NULL
  /\ Goto(t, "d_lock", "d_register")
  /\ lock' = t
  /\ UNCHANGED <<loadVars, torn, arg, told>>

Register(t) ==
  /\ Return(t, "d_register")
  /\ lock' = NULL
  /\ UNCHANGED <<loadVars, torn, arg, told>>

(***************************************************************************)
(* codec_free_pixel_buffer.                                                *)
(***************************************************************************)
FreeNothing(t) ==
  /\ Return(t, "f_enter")
  /\ UNCHANGED <<loadVars, lock, torn, arg, told>>

Free(t) ==
  /\ Goto(t, "f_enter", "f_lock")
  /\ UNCHANGED <<loadVars, lock, torn, arg, told>>

UnregisterLock(t) ==
  /\ lock = NULL
  /\ Goto(t, "f_lock", "f_unregister")
  /\ lock' = t
  /\ UNCHANGED <<loadVars, torn, arg, told>>

Unregister(t) ==
  /\ Return(t, "f_unregister")
  /\ lock' = NULL
  /\ UNCHANGED <<loadVars, torn, arg, told>>

-----------------------------------------------------------------------------
PluginStep(t) ==
  \/ SetHost(t) \/ Cells(t) \/ Build(t) \/ AnswerTable(t)
  \/ MatchLogs(t) \/ MatchSilent(t) \/ Match(t)
  \/ ShutdownLogs(t) \/ ShutdownSilent(t)
  \/ ReadFails(t) \/ DecodeFails(t) \/ Decode(t) \/ RegisterLock(t) \/ Register(t)
  \/ FreeNothing(t) \/ Free(t) \/ UnregisterLock(t) \/ Unregister(t)

Next ==
  \/ \E t \in Threads : HostCall(t) \/ LogReturns(t) \/ PluginStep(t)
  \/ TearDown

Spec == Init /\ [][Next]_vars

\* A thread inside the plugin keeps running, and the host's log function returns.
FairSpec ==
  Spec /\ \A t \in Threads : WF_vars(PluginStep(t)) /\ WF_vars(LogReturns(t))

-----------------------------------------------------------------------------
(***************************************************************************)
(* Properties.                                                             *)
(***************************************************************************)
Talking(t) == depth[t] > 0 /\ at[t][depth[t]] \in CallbackPoints

\* Blocked on the registry's mutex or on another thread's initialisation.
Waiting(t) ==
  /\ depth[t] > 0
  /\ \/ at[t][depth[t]] \in {"d_lock", "f_lock"} /\ lock # NULL
     \/ at[t][depth[t]] = "l_cells" /\ ~loaded /\ builder # NULL

\* Whoever holds the registry's mutex or fills the cells is running: it is not
\* in the host's log function (logging.rs:95 is reached from codec.rs:102,
\* decode.rs:64 and lib.rs:143 only), whose calls would then wait for their
\* own thread, and it waits for no other holder.  No wait is circular.
HoldersRun ==
  \A t \in Threads : t \in {lock, builder} => ~Talking(t) /\ ~Waiting(t)

\* Every message, also one that is still being delivered when another host
\* table is loaded, goes to the log function of the first accepted host
\* (lib.rs:231-234), and none if that table has no log function.
MessagesToFirstHost ==
  \A t \in Threads, d \in Levels :
    told[t][d] # NULL => told[t][d] = hostApi /\ hostApi \in LoggingHosts

\* SPECIFICATION.md:441, allocator.rs:3-10: buffers can be freed while the
\* host is being torn down.  Once it has let go of its log function, with at
\* most frees running, nothing calls it any more.
TornHostNotCalled ==
  torn => \A t \in Threads, d \in Levels : told[t][d] = NULL

\* With loads made from inside log functions, at any depth and by other hosts,
\* loading (lib.rs:231-244) still promises what module Loading says: one host is
\* adopted for good, and no table is handed out before it is.
OneHost == INSTANCE Loading WITH host <- hostApi, ready <- handed
LoadsOneHost == OneHost!Spec

\* If the host stops making calls, every call returns, the ones its log
\* function has made included.
NewCall == \E t \in Threads : HostCall(t)
NestedCallsReturn ==
  <>[][~NewCall]_vars => <>[](\A t \in Threads : depth[t] = 0)
=============================================================================
