------------------------ MODULE HostCallbacks_proofs ------------------------
(***************************************************************************)
(* Calling back into the host is safe for any number of threads, hosts and *)
(* nested calls.                                                           *)
(***************************************************************************)
EXTENDS HostCallbacks, TLAPS

\* A thread holds the mutex or an initialisation only in the last of its calls
\* and only at the points of that critical section.
HeldAtTop ==
  \A t \in Threads :
    /\ lock = t => depth[t] > 0 /\ at[t][depth[t]] \in LockPoints
    /\ builder = t => depth[t] > 0 /\ at[t][depth[t]] = "l_build"

\* A message is told by a call that waits for the stored host.
ToldByWaiting ==
  \A t \in Threads, d \in Levels : told[t][d] # NULL =>
    /\ d <= depth[t]
    /\ at[t][d] \in CallbackPoints
    /\ told[t][d] = hostApi
    /\ hostApi \in LoggingHosts

\* Once the host's log function is gone, only frees run.
TornOnlyFrees ==
  torn => \A t \in Threads, d \in Levels : d <= depth[t] => at[t][d] \in FreePoints

IInv ==
  /\ TypeOK
  /\ HeldAtTop
  /\ ToldByWaiting
  /\ TornOnlyFrees

-----------------------------------------------------------------------------
\* The invariant holds before the first call.
LEMMA InitInv == Init => IInv
<1> SUFFICES ASSUME Init PROVE IInv
  OBVIOUS
<1> USE CallbackAssumption DEF Init
<1>1. TypeOK
  <2>1. 0 \in 0..MaxDepth
    OBVIOUS
  <2> QED
    BY <2>1 DEF TypeOK
<1>2. HeldAtTop /\ ToldByWaiting /\ TornOnlyFrees
  BY DEF HeldAtTop, ToldByWaiting, TornOnlyFrees
<1> QED
  BY <1>1, <1>2 DEF IInv

\* A new call leaves the calls below it, and what they wait for, as they are.
LEMMA HostCallInv ==
  ASSUME IInv, NEW t \in Threads, HostCall(t)
  PROVE  IInv'
<1> USE CallbackAssumption DEF IInv
<1>1. PICK point \in {"l_set", "m_enter", "d_enter", "s_enter", "f_enter"} :
        Call(t, point) /\ (torn => point = "f_enter")
  BY DEF HostCall, CallLoad, CallTable, CallFree
<1>2. arg' \in [Threads -> Hosts \cup {NULL}]
  BY DEF HostCall, CallLoad, CallTable, CallFree, TypeOK
<1>3. /\ depth[t] + 1 \in Levels
      /\ depth'[t] = depth[t] + 1
      /\ at'[t][depth[t] + 1] = point
      /\ \A u \in Threads \ {t} : depth'[u] = depth[u] /\ at'[u] = at[u]
      /\ \A d \in Levels : d <= depth[t] => at'[t][d] = at[t][d]
  BY <1>1 DEF Call, CanCall, TypeOK, Levels
<1>4. TypeOK'
  <2>1. point \in Points
    BY DEF Points, MatchPoints, DecodePoints, FreePoints, ShutdownPoints, LoadPoints
  <2>2. at' \in [Threads -> [Levels -> Points \cup {NULL}]]
    BY <1>1, <2>1 DEF Call, TypeOK
  <2>3. depth' \in [Threads -> 0..MaxDepth]
    BY <1>1 DEF Call, CanCall, TypeOK
  <2> QED
    BY <1>1, <1>2, <2>2, <2>3 DEF Call, loadVars, TypeOK
<1>5. HeldAtTop'
  <2>1. lock # t /\ builder # t
    BY <1>1 DEF Call, CanCall, HeldAtTop, LockPoints, CallbackPoints
  <2> QED
    BY <1>1, <1>3, <2>1 DEF Call, loadVars, HeldAtTop
<1>6. ToldByWaiting'
  BY <1>1, <1>3 DEF Call, loadVars, ToldByWaiting, TypeOK, Levels
<1>7. TornOnlyFrees'
  BY <1>1, <1>3 DEF Call, TornOnlyFrees, FreePoints, TypeOK, Levels
<1> QED
  BY <1>4, <1>5, <1>6, <1>7

\* The log function is torn down while only frees run.
LEMMA TearDownInv == IInv /\ TearDown => IInv'
<1> SUFFICES ASSUME IInv, TearDown PROVE IInv'
  OBVIOUS
<1> USE DEF IInv, TearDown, loadVars
<1>1. TypeOK' /\ HeldAtTop' /\ ToldByWaiting'
  BY DEF TypeOK, HeldAtTop, ToldByWaiting
<1>2. ASSUME NEW t \in Threads, NEW d \in Levels, d <= depth[t]
      PROVE  at[t][d] \in FreePoints
  <2>1. d \in 1..depth[t]
    BY <1>2, CallbackAssumption DEF TypeOK, Levels
  <2> QED
    BY <2>1
<1>3. TornOnlyFrees'
  BY <1>2 DEF TornOnlyFrees
<1> QED
  BY <1>1, <1>3

\* What a step of the last call of a thread does to the program points.
LEMMA GotoFacts ==
  ASSUME TypeOK, NEW t \in Threads, NEW from, NEW to \in Points, Goto(t, from, to)
  PROVE  /\ depth[t] \in Levels /\ at[t][depth[t]] = from
         /\ depth' = depth /\ at'[t][depth[t]] = to
         /\ \A d \in Levels \ {depth[t]} : at'[t][d] = at[t][d]
         /\ \A u \in Threads \ {t} : at'[u] = at[u]
         /\ at' \in [Threads -> [Levels -> Points \cup {NULL}]]
  BY CallbackAssumption DEF TypeOK, Goto, In, Levels

\* What the end of the last call of a thread does to them.
LEMMA ReturnFacts ==
  ASSUME TypeOK, NEW t \in Threads, NEW from, Return(t, from)
  PROVE  /\ depth[t] \in Levels /\ at[t][depth[t]] = from
         /\ depth'[t] = depth[t] - 1 /\ depth' \in [Threads -> 0..MaxDepth]
         /\ \A d \in Levels \ {depth[t]} : at'[t][d] = at[t][d]
         /\ \A u \in Threads \ {t} : at'[u] = at[u] /\ depth'[u] = depth[u]
         /\ at' \in [Threads -> [Levels -> Points \cup {NULL}]]
  BY CallbackAssumption DEF TypeOK, Return, In, Levels

\* The host's log function returns: nothing was held while it ran.
LEMMA LogReturnsInv ==
  ASSUME IInv, NEW t \in Threads, LogReturns(t)
  PROVE  IInv'
<1> USE CallbackAssumption DEF IInv
<1>1. /\ depth[t] \in Levels /\ at[t][depth[t]] \in CallbackPoints
      /\ depth'[t] \in {depth[t], depth[t] - 1} /\ depth' \in [Threads -> 0..MaxDepth]
      /\ depth'[t] = depth[t] => at'[t][depth[t]] = "m_match"
      /\ \A d \in Levels \ {depth[t]} : at'[t][d] = at[t][d]
      /\ \A u \in Threads \ {t} : at'[u] = at[u] /\ depth'[u] = depth[u]
      /\ at' \in [Threads -> [Levels -> Points \cup {NULL}]]
  <2>1. CASE Goto(t, "m_log", "m_match")
    BY <2>1, GotoFacts DEF CallbackPoints, Points, MatchPoints, TypeOK
  <2>2. CASE Return(t, "d_log") \/ Return(t, "s_log")
    BY <2>2, ReturnFacts DEF CallbackPoints, TypeOK, Levels
  <2> QED
    BY <2>1, <2>2 DEF LogReturns
<1>2. lock # t /\ builder # t
  BY <1>1 DEF HeldAtTop, LockPoints, CallbackPoints
<1>3. ~torn
  BY <1>1 DEF TornOnlyFrees, FreePoints, CallbackPoints, Levels
<1>4. /\ told'[t][depth[t]] = NULL
      /\ \A d \in Levels \ {depth[t]} : told'[t][d] = told[t][d]
      /\ \A u \in Threads \ {t} : told'[u] = told[u]
      /\ told' \in [Threads -> [Levels -> Hosts \cup {NULL}]]
  BY <1>1 DEF LogReturns, TypeOK
<1>5. UNCHANGED <<hostApi, loaded, builder, handed, lock, torn, arg>>
  BY DEF LogReturns, loadVars
<1>6. TypeOK'
  BY <1>1, <1>4, <1>5 DEF TypeOK
<1>7. HeldAtTop'
  BY <1>1, <1>2, <1>5 DEF HeldAtTop
<1>8. ToldByWaiting'
  <2>1. ASSUME NEW d \in Levels, told'[t][d] # NULL
        PROVE  d # depth[t] /\ told'[t][d] = told[t][d] /\ at'[t][d] = at[t][d] /\ d <= depth'[t]
    BY <1>1, <1>4, <2>1 DEF ToldByWaiting, TypeOK, Levels
  <2> QED
    BY <1>1, <1>4, <1>5, <2>1 DEF ToldByWaiting
<1>9. TornOnlyFrees'
  BY <1>3, <1>5 DEF TornOnlyFrees
<1> QED
  BY <1>6, <1>7, <1>8, <1>9

\* A step that calls the log function holds nothing and finds the host alive.
LEMMA LogInv ==
  ASSUME IInv, NEW t \in Threads, MatchLogs(t) \/ ShutdownLogs(t) \/ ReadFails(t)
  PROVE  IInv'
<1> USE CallbackAssumption DEF IInv
<1>1. PICK from \in {"m_enter", "s_enter", "d_enter"}, to \in CallbackPoints :
        Goto(t, from, to)
  BY DEF MatchLogs, ShutdownLogs, ReadFails, Log, CallbackPoints
<1>2. /\ CanLog
      /\ told' = [told EXCEPT ![t][depth[t]] = hostApi]
      /\ UNCHANGED <<hostApi, loaded, builder, handed, lock, torn, arg>>
  BY DEF MatchLogs, ShutdownLogs, ReadFails, Log, loadVars
<1>3. to \in Points
  BY DEF Points, CallbackPoints, MatchPoints, ShutdownPoints, DecodePoints
<1>4. lock # t /\ builder # t /\ ~torn
  BY <1>1, <1>3, GotoFacts DEF HeldAtTop, LockPoints, TornOnlyFrees, FreePoints, Levels
<1>5. TypeOK'
  BY <1>1, <1>2, <1>3, GotoFacts DEF TypeOK, CanLog
<1>6. HeldAtTop'
  BY <1>1, <1>2, <1>3, <1>4, GotoFacts DEF HeldAtTop
<1>7. ToldByWaiting'
  <2>1. \A d \in Levels : told'[t][d] = IF d = depth[t] THEN hostApi ELSE told[t][d]
    BY <1>1, <1>2, <1>3, GotoFacts DEF TypeOK
  <2>2. \A u \in Threads \ {t} : told'[u] = told[u]
    BY <1>2 DEF TypeOK
  <2> QED
    BY <1>1, <1>2, <1>3, <2>1, <2>2, GotoFacts DEF ToldByWaiting, CanLog, TypeOK, Levels
<1>8. TornOnlyFrees'
  BY <1>2, <1>4 DEF TornOnlyFrees
<1> QED
  BY <1>5, <1>6, <1>7, <1>8

\* A step that goes on in its call, outside callbacks and critical sections.
LEMMA QuietGotoInv ==
  ASSUME IInv, NEW t \in Threads, MatchSilent(t) \/ Decode(t) \/ Free(t)
  PROVE  IInv'
<1> USE CallbackAssumption DEF IInv
<1>1. PICK from \in {"m_enter", "d_enter", "f_enter"}, to \in {"m_match", "d_lock", "f_lock"} :
        Goto(t, from, to) /\ (from = "f_enter" => to = "f_lock")
  BY DEF MatchSilent, Decode, Free
<1>2. UNCHANGED <<hostApi, loaded, builder, handed, lock, torn, arg, told>>
  BY DEF MatchSilent, Decode, Free, loadVars
<1>3. to \in Points
  BY DEF Points, MatchPoints, DecodePoints, FreePoints
<1>4. TypeOK'
  BY <1>1, <1>2, <1>3, GotoFacts DEF TypeOK
<1>5. HeldAtTop'
  BY <1>1, <1>2, <1>3, GotoFacts DEF HeldAtTop, LockPoints
<1>6. ToldByWaiting'
  BY <1>1, <1>2, <1>3, GotoFacts DEF ToldByWaiting, CallbackPoints
<1>7. TornOnlyFrees'
  BY <1>1, <1>2, <1>3, GotoFacts DEF TornOnlyFrees, FreePoints
<1> QED
  BY <1>4, <1>5, <1>6, <1>7

\* A thread enters a critical section, of the mutex or of the cells.
LEMMA AcquireInv ==
  ASSUME IInv, NEW t \in Threads, RegisterLock(t) \/ UnregisterLock(t) \/ Cells(t)
  PROVE  IInv'
<1> USE CallbackAssumption DEF IInv
<1>1. PICK from \in {"d_lock", "f_lock", "l_cells"}, to \in LockPoints \cup {"l_build"} :
        /\ Goto(t, from, to)
        /\ from = "f_lock" => to = "f_unregister"
        /\ lock' = IF to = "l_build" THEN lock ELSE t
        /\ builder' = IF to = "l_build" THEN t ELSE builder
        /\ to = "l_build" => builder = NULL
        /\ to # "l_build" => lock = NULL
  BY DEF RegisterLock, UnregisterLock, Cells, LockPoints, loadVars
<1>2. UNCHANGED <<hostApi, loaded, handed, torn, arg, told>>
  BY DEF RegisterLock, UnregisterLock, Cells, loadVars
<1>3. to \in Points
  BY DEF Points, LockPoints, LoadPoints, DecodePoints, FreePoints
<1>4. TypeOK'
  BY <1>1, <1>2, <1>3, GotoFacts DEF TypeOK
<1>5. HeldAtTop'
  <2>1. lock # t /\ builder # t /\ depth[t] > 0
    BY <1>1, <1>3, GotoFacts DEF HeldAtTop, LockPoints, Levels
  <2>2. CASE to = "l_build"
    BY <1>1, <1>3, <2>1, <2>2, GotoFacts DEF HeldAtTop
  <2>3. CASE to # "l_build"
    BY <1>1, <1>3, <2>1, <2>3, GotoFacts DEF HeldAtTop
  <2> QED
    BY <2>2, <2>3
<1>6. ToldByWaiting'
  BY <1>1, <1>2, <1>3, GotoFacts DEF ToldByWaiting, CallbackPoints
<1>7. TornOnlyFrees'
  BY <1>1, <1>2, <1>3, GotoFacts DEF TornOnlyFrees, FreePoints, LockPoints
<1> QED
  BY <1>4, <1>5, <1>6, <1>7

\* HOST_API is set once, so a message on its way stays with its host.
LEMMA SetHostInv ==
  ASSUME IInv, NEW t \in Threads, SetHost(t)
  PROVE  IInv'
<1> USE CallbackAssumption DEF IInv, SetHost
<1>1. "l_cells" \in Points
  BY DEF Points, LoadPoints
<1>2. TypeOK'
  BY <1>1, GotoFacts DEF TypeOK
<1>3. HeldAtTop'
  BY <1>1, GotoFacts DEF HeldAtTop, LockPoints
<1>4. ToldByWaiting'
  BY <1>1, GotoFacts DEF ToldByWaiting, CallbackPoints
<1>5. TornOnlyFrees'
  BY <1>1, GotoFacts DEF TornOnlyFrees, FreePoints
<1> QED
  BY <1>2, <1>3, <1>4, <1>5

\* The builder leaves its critical section.
LEMMA BuildInv ==
  ASSUME IInv, NEW t \in Threads, Build(t)
  PROVE  IInv'
<1> USE CallbackAssumption DEF IInv, Build
<1>1. "l_cells" \in Points
  BY DEF Points, LoadPoints
<1>2. TypeOK'
  BY <1>1, GotoFacts DEF TypeOK
<1>3. HeldAtTop'
  BY <1>1, GotoFacts DEF HeldAtTop, LockPoints
<1>4. ToldByWaiting'
  BY <1>1, GotoFacts DEF ToldByWaiting, CallbackPoints
<1>5. TornOnlyFrees'
  BY <1>1, GotoFacts DEF TornOnlyFrees, FreePoints
<1> QED
  BY <1>2, <1>3, <1>4, <1>5

\* A call ends without a log function in between; the mutex, if held, is free.
LEMMA ReturnInv ==
  ASSUME IInv, NEW t \in Threads,
         \/ AnswerTable(t) \/ Match(t) \/ ShutdownSilent(t) \/ DecodeFails(t)
         \/ Register(t) \/ FreeNothing(t) \/ Unregister(t)
  PROVE  IInv'
<1> USE CallbackAssumption DEF IInv
<1>1. PICK from \in {"l_cells", "m_match", "s_enter", "d_enter", "f_enter"} \cup LockPoints :
        Return(t, from) /\ lock' = IF from \in LockPoints THEN NULL ELSE lock
  BY DEF AnswerTable, Match, ShutdownSilent, DecodeFails, Register, FreeNothing,
         Unregister, LockPoints
<1>2. /\ UNCHANGED <<hostApi, loaded, builder, torn, told>>
      /\ handed' \in BOOLEAN
      /\ arg' \in [Threads -> Hosts \cup {NULL}]
  BY DEF AnswerTable, Match, ShutdownSilent, DecodeFails, Register, FreeNothing,
         Unregister, loadVars, TypeOK
<1>3. TypeOK'
  BY <1>1, <1>2, ReturnFacts DEF TypeOK
<1>4. HeldAtTop'
  BY <1>1, <1>2, ReturnFacts DEF HeldAtTop, LockPoints
<1>5. at[t][depth[t]] \notin CallbackPoints
  BY <1>1, ReturnFacts DEF CallbackPoints, LockPoints
<1>6. \A d \in Levels : d <= depth[t] /\ d # depth[t] => d <= depth[t] - 1
  BY DEF TypeOK, Levels
<1>7. ToldByWaiting'
  BY <1>1, <1>2, <1>5, <1>6, ReturnFacts DEF ToldByWaiting
<1>8. TornOnlyFrees'
  <2>1. \A d \in Levels : d <= depth[t] - 1 => d <= depth[t] /\ d # depth[t]
    BY DEF TypeOK, Levels
  <2> QED
    BY <1>1, <1>2, <2>1, ReturnFacts DEF TornOnlyFrees
<1> QED
  BY <1>3, <1>4, <1>7, <1>8

\* Every step keeps the invariant.
LEMMA NextInv == IInv /\ [Next]_vars => IInv'
<1> SUFFICES ASSUME IInv, [Next]_vars PROVE IInv'
  OBVIOUS
<1>1. CASE UNCHANGED vars
  BY <1>1 DEF vars, IInv, TypeOK, HeldAtTop, ToldByWaiting, TornOnlyFrees
<1>2. CASE TearDown
  BY <1>2, TearDownInv
<1>3. ASSUME NEW t \in Threads, HostCall(t) \/ LogReturns(t) PROVE IInv'
  BY <1>3, HostCallInv, LogReturnsInv
<1>4. ASSUME NEW t \in Threads, PluginStep(t) PROVE IInv'
  BY <1>4, LogInv, QuietGotoInv, AcquireInv, SetHostInv, BuildInv, ReturnInv
  DEF PluginStep
<1> QED
  BY <1>1, <1>2, <1>3, <1>4 DEF Next

\* The invariant holds in every reachable state.
LEMMA Invariance == Spec => []IInv
  BY InitInv, NextInv, PTL DEF Spec

-----------------------------------------------------------------------------
\* The variables keep their types.
THEOREM TypeCorrect == Spec => []TypeOK
  BY Invariance, PTL DEF IInv

\* The holder of the mutex and the builder of the cells are never in the host's
\* log function and never wait for one another: no wait is circular.
THEOREM NoDeadlock == Spec => []HoldersRun
<1>1. IInv => HoldersRun
  BY CallbackAssumption
  DEF IInv, HeldAtTop, HoldersRun, Talking, Waiting, LockPoints, CallbackPoints
<1> QED
  BY <1>1, Invariance, PTL

\* Every message goes to the first host that was accepted.
THEOREM OneHostIsTold == Spec => []MessagesToFirstHost
<1>1. IInv => MessagesToFirstHost
  BY DEF IInv, ToldByWaiting, MessagesToFirstHost
<1> QED
  BY <1>1, Invariance, PTL

\* Freeing buffers never reaches a host that has let go of its log function.
THEOREM FreesAreSelfContained == Spec => []TornHostNotCalled
<1>1. IInv => TornHostNotCalled
  BY DEF IInv, ToldByWaiting, TornOnlyFrees, TornHostNotCalled, FreePoints, CallbackPoints
<1> QED
  BY <1>1, Invariance, PTL

-----------------------------------------------------------------------------
\* All calls of a thread but the last are in the host's log function, and a
\* load carries its host until HOST_API has one.
LoadUnderWay ==
  \A t \in Threads :
    /\ \A d \in Levels : d < depth[t] => at[t][d] \in CallbackPoints
    /\ In(t, "l_set") => arg[t] # NULL
    /\ In(t, "l_cells") \/ In(t, "l_build") => hostApi # NULL

\* A call starts at its entry, a load with a host.
LEMMA CallUnderWay ==
  ASSUME IInv, LoadUnderWay, NEW t \in Threads, HostCall(t)
  PROVE  LoadUnderWay'
<1> USE CallbackAssumption DEF IInv
<1>1. PICK point \in {"l_set", "m_enter", "d_enter", "s_enter", "f_enter"} :
        Call(t, point) /\ (point = "l_set" => arg'[t] # NULL)
  BY DEF HostCall, CallLoad, CallTable, CallFree, TypeOK
<1>2. /\ depth[t] + 1 \in Levels
      /\ depth'[t] = depth[t] + 1
      /\ at'[t][depth[t] + 1] = point
      /\ \A d \in Levels : d <= depth[t] => at'[t][d] = at[t][d]
      /\ depth[t] > 0 => at[t][depth[t]] \in CallbackPoints
  BY <1>1 DEF Call, CanCall, TypeOK, Levels
<1>3. \A u \in Threads \ {t} : depth'[u] = depth[u] /\ at'[u] = at[u] /\ arg'[u] = arg[u]
  BY <1>1 DEF HostCall, CallLoad, CallTable, CallFree, Call, CanCall, TypeOK, Levels
<1>4. \A d \in Levels : d < depth'[t] => at'[t][d] \in CallbackPoints
  <2>1. \A d \in Levels : d < depth[t] + 1 => d <= depth[t] /\ (d # depth[t] => d < depth[t])
    BY DEF TypeOK, Levels
  <2>2. \A d \in Levels : d = depth[t] => depth[t] > 0
    BY DEF Levels
  <2> QED
    BY <1>2, <2>1, <2>2 DEF LoadUnderWay
<1>5. hostApi' = hostApi
  BY <1>1 DEF Call, loadVars
<1> QED
  BY <1>1, <1>2, <1>3, <1>4, <1>5 DEF LoadUnderWay, In

\* A call that goes on stays above the calls that wait in the log function.
LEMMA GotoUnderWay ==
  ASSUME IInv, LoadUnderWay, NEW t \in Threads, NEW from, NEW to \in Points, Goto(t, from, to),
         to # "l_set", arg' = arg, hostApi # NULL => hostApi' = hostApi,
         to \in {"l_cells", "l_build"} => hostApi' # NULL
  PROVE  LoadUnderWay'
<1> USE CallbackAssumption DEF IInv
<1>1. /\ depth[t] \in Levels /\ depth' = depth /\ at'[t][depth[t]] = to
      /\ \A d \in Levels \ {depth[t]} : at'[t][d] = at[t][d]
      /\ \A u \in Threads \ {t} : at'[u] = at[u]
  BY GotoFacts
<1>2. \A d \in Levels : d < depth[t] => d # depth[t]
  BY DEF TypeOK, Levels
<1> QED
  BY <1>1, <1>2 DEF LoadUnderWay, In

\* A call that returns leaves its thread in the log function or outside.
LEMMA ReturnUnderWay ==
  ASSUME IInv, LoadUnderWay, NEW t \in Threads, NEW from, Return(t, from),
         \A u \in Threads \ {t} : arg'[u] = arg[u], hostApi' = hostApi
  PROVE  LoadUnderWay'
<1> USE CallbackAssumption DEF IInv
<1>1. /\ depth[t] \in Levels /\ depth'[t] = depth[t] - 1
      /\ \A d \in Levels \ {depth[t]} : at'[t][d] = at[t][d]
      /\ \A u \in Threads \ {t} : at'[u] = at[u] /\ depth'[u] = depth[u]
  BY ReturnFacts
<1>2. \A d \in Levels : d <= depth[t] - 1 => d < depth[t] /\ d # depth[t]
  BY DEF TypeOK, Levels
<1>3. \A d \in Levels : d < depth[t] - 1 => d <= depth[t] - 1
  BY DEF TypeOK, Levels
<1>4. \A d \in Levels : d <= depth[t] - 1 => at'[t][d] \in CallbackPoints
  BY <1>1, <1>2 DEF LoadUnderWay
<1>5. depth'[t] > 0 => at'[t][depth'[t]] \in CallbackPoints
  <2>1. depth'[t] > 0 => depth'[t] \in Levels /\ depth'[t] <= depth[t] - 1
    BY <1>1 DEF TypeOK, Levels
  <2> QED
    BY <2>1, <1>4
<1>6. ~In(t, "l_set")' /\ ~In(t, "l_cells")' /\ ~In(t, "l_build")'
  BY <1>5 DEF In, CallbackPoints
<1>7. \A d \in Levels : d < depth'[t] => at'[t][d] \in CallbackPoints
  BY <1>1, <1>3, <1>4
<1> QED
  BY <1>1, <1>6, <1>7 DEF LoadUnderWay, In

\* A load under way stays one.
LEMMA UnderWayInv == IInv /\ LoadUnderWay /\ [Next]_vars => LoadUnderWay'
<1> SUFFICES ASSUME IInv, LoadUnderWay, [Next]_vars PROVE LoadUnderWay'
  OBVIOUS
<1> USE CallbackAssumption
<1>1. CASE UNCHANGED vars
  BY <1>1 DEF vars, LoadUnderWay, In
<1>2. CASE TearDown
  BY <1>2 DEF TearDown, loadVars, LoadUnderWay, In
<1>3. ASSUME NEW t \in Threads, HostCall(t) PROVE LoadUnderWay'
  BY <1>3, CallUnderWay
<1>4. ASSUME NEW t \in Threads, LogReturns(t) PROVE LoadUnderWay'
  <2>1. arg' = arg /\ hostApi' = hostApi /\ "m_match" \in Points
    BY <1>4 DEF LogReturns, loadVars, Points, MatchPoints
  <2> QED
    BY <1>4, <2>1, GotoUnderWay, ReturnUnderWay DEF LogReturns
<1>5. ASSUME NEW t \in Threads, SetHost(t) PROVE LoadUnderWay'
  <2>1. hostApi' # NULL /\ (hostApi # NULL => hostApi' = hostApi)
    BY <1>5 DEF SetHost, Goto, LoadUnderWay
  <2>2. "l_cells" \in Points
    BY DEF Points, LoadPoints
  <2> QED
    BY <1>5, <2>1, <2>2, GotoUnderWay DEF SetHost
<1>6. ASSUME NEW t \in Threads, Cells(t) \/ Build(t) PROVE LoadUnderWay'
  <2>1. hostApi # NULL /\ hostApi' = hostApi /\ arg' = arg
    BY <1>6 DEF Cells, Build, Goto, LoadUnderWay
  <2>2. "l_cells" \in Points /\ "l_build" \in Points
    BY DEF Points, LoadPoints
  <2> QED
    BY <1>6, <2>1, <2>2, GotoUnderWay DEF Cells, Build
<1>7. ASSUME NEW t \in Threads,
             \/ MatchLogs(t) \/ MatchSilent(t) \/ ShutdownLogs(t) \/ ReadFails(t)
             \/ Decode(t) \/ RegisterLock(t) \/ Free(t) \/ UnregisterLock(t)
      PROVE  LoadUnderWay'
  <2>1. PICK from \in Points, to \in Points \ LoadPoints : Goto(t, from, to)
    BY <1>7 DEF MatchLogs, MatchSilent, ShutdownLogs, ReadFails, Decode, RegisterLock, Free,
                UnregisterLock, Log, Points, MatchPoints, ShutdownPoints, DecodePoints,
                FreePoints, LoadPoints
  <2>2. arg' = arg /\ hostApi' = hostApi
    BY <1>7 DEF MatchLogs, MatchSilent, ShutdownLogs, ReadFails, Decode, RegisterLock, Free,
                UnregisterLock, loadVars
  <2> QED
    BY <2>1, <2>2, GotoUnderWay DEF LoadPoints
<1>8. ASSUME NEW t \in Threads,
             \/ AnswerTable(t) \/ Match(t) \/ ShutdownSilent(t) \/ DecodeFails(t)
             \/ Register(t) \/ FreeNothing(t) \/ Unregister(t)
      PROVE  LoadUnderWay'
  <2>1. PICK from : Return(t, from)
    BY <1>8 DEF AnswerTable, Match, ShutdownSilent, DecodeFails, Register, FreeNothing, Unregister
  <2>2. /\ hostApi' = hostApi
        /\ \A u \in Threads \ {t} : arg'[u] = arg[u]
    BY <1>8 DEF AnswerTable, Match, ShutdownSilent, DecodeFails, Register, FreeNothing,
                Unregister, loadVars, IInv, TypeOK
  <2> QED
    BY <2>1, <2>2, ReturnUnderWay
<1> QED
  BY <1>1, <1>2, <1>3, <1>4, <1>5, <1>6, <1>7, <1>8 DEF Next, PluginStep

\* Only SetHost on an empty HOST_API adopts a host, only the first answer makes
\* the plugin ready; what nested calls, frees and the log function do is a
\* stuttering step of module Loading.
LEMMA LoadingStep ==
  IInv /\ LoadUnderWay /\ [Next]_vars => [OneHost!Next]_<<hostApi, handed>>
<1> SUFFICES ASSUME IInv, LoadUnderWay, [Next]_vars
             PROVE  [OneHost!Next]_<<hostApi, handed>>
  OBVIOUS
<1>1. CASE UNCHANGED vars \/ TearDown
  BY <1>1 DEF vars, TearDown, loadVars
<1>2. ASSUME NEW t \in Threads, SetHost(t)
      PROVE  [OneHost!Next]_<<hostApi, handed>>
  <2>1. arg[t] \in Hosts
    BY <1>2 DEF SetHost, Goto, LoadUnderWay, IInv, TypeOK
  <2> QED
    BY <1>2, <2>1 DEF SetHost, OneHost!Next, OneHost!Adopt
<1>3. ASSUME NEW t \in Threads, AnswerTable(t)
      PROVE  [OneHost!Next]_<<hostApi, handed>>
  <2>1. hostApi # NULL
    BY <1>3 DEF AnswerTable, Return, LoadUnderWay
  <2> QED
    BY <1>3, <2>1 DEF AnswerTable, OneHost!Next, OneHost!Answer
<1>4. ASSUME NEW t \in Threads, HostCall(t) \/ LogReturns(t)
      PROVE  UNCHANGED <<hostApi, handed>>
  BY <1>4 DEF HostCall, CallLoad, CallTable, CallFree, Call, LogReturns, loadVars
<1>5. ASSUME NEW t \in Threads, PluginStep(t), ~SetHost(t), ~AnswerTable(t)
      PROVE  UNCHANGED <<hostApi, handed>>
  BY <1>5 DEF PluginStep, Cells, Build, MatchLogs, MatchSilent, Match, ShutdownLogs,
              ShutdownSilent, ReadFails, DecodeFails, Decode, RegisterLock, Register,
              FreeNothing, Free, UnregisterLock, Unregister, loadVars
<1> QED
  BY <1>1, <1>2, <1>3, <1>4, <1>5 DEF Next

\* Whatever the host's log function calls back, and however deep, loading keeps
\* the promise of module Loading.
THEOREM LoadingImplemented == Spec => LoadsOneHost
<1>1. Init => OneHost!Init /\ LoadUnderWay
  BY CallbackAssumption DEF Init, OneHost!Init, LoadUnderWay, In, Levels
<1> QED
  BY <1>1, UnderWayInv, LoadingStep, Invariance, PTL DEF Spec, LoadsOneHost, OneHost!Spec

-----------------------------------------------------------------------------
\* The steps a call at a point still takes itself at most, log functions included.
StepsLeft(point, filled) ==
  CASE point = "l_set" -> 4
    [] point = "l_cells" -> IF filled THEN 1 ELSE 3
    [] point \in {"m_enter", "d_enter", "f_enter"} -> 3
    [] point \in {"l_build", "m_log", "d_lock", "f_lock", "s_enter"} -> 2
    [] OTHER -> 1

\* A call only moves towards its return, whatever the other threads and the
\* calls nested in it do: nothing is tried again (a read failure ends the
\* decode, decode.rs:64), nothing done is undone, so a call that does not
\* return waits for another thread or for the host.
CallsAdvance ==
  [][\A t \in Threads, d \in Levels :
       d <= depth[t] /\ d <= depth'[t] =>
         \/ at'[t][d] = at[t][d]
         \/ StepsLeft(at'[t][d], loaded') < StepsLeft(at[t][d], loaded)]_vars

\* A call at its level stays where it is or has fewer steps left.
Advances(t, d) ==
  \/ at'[t][d] = at[t][d]
  \/ StepsLeft(at'[t][d], loaded') < StepsLeft(at[t][d], loaded)

\* A new call is none of those that were there before.
LEMMA CallAdvances ==
  ASSUME IInv, NEW t \in Threads, HostCall(t), NEW u \in Threads, NEW d \in Levels,
         d <= depth[u], d <= depth'[u]
  PROVE  Advances(u, d)
<1> USE CallbackAssumption DEF IInv, Advances
<1>1. PICK point : Call(t, point)
  BY DEF HostCall, CallLoad, CallTable, CallFree
<1>2. /\ depth[t] \in 0..MaxDepth /\ depth[t] + 1 \in Levels
      /\ at[t] \in [Levels -> Points \cup {NULL}]
      /\ \A v \in Threads \ {t} : at'[v] = at[v]
      /\ at'[t] = [at[t] EXCEPT ![depth[t] + 1] = point]
  BY <1>1 DEF Call, CanCall, TypeOK, Levels
<1>3. u = t => d # depth[t] + 1
  BY <1>2 DEF Levels
<1> QED
  BY <1>2, <1>3

\* A step of a thread that stays in its call brings that call forward.
LEMMA GotoAdvances ==
  ASSUME IInv, NEW t \in Threads, NEW from, NEW to \in Points, Goto(t, from, to),
         StepsLeft(to, loaded') < StepsLeft(from, loaded),
         NEW u \in Threads, NEW d \in Levels
  PROVE  Advances(u, d)
<1>1. /\ at[t][depth[t]] = from /\ at'[t][depth[t]] = to
      /\ \A e \in Levels \ {depth[t]} : at'[t][e] = at[t][e]
      /\ \A v \in Threads \ {t} : at'[v] = at[v]
  BY GotoFacts DEF IInv
<1> QED
  BY <1>1 DEF Advances

\* A call that returns is no longer there.
LEMMA ReturnAdvances ==
  ASSUME IInv, NEW t \in Threads, NEW from, Return(t, from),
         NEW u \in Threads, NEW d \in Levels, d <= depth'[u]
  PROVE  Advances(u, d)
<1>1. /\ depth[t] \in Levels /\ depth'[t] = depth[t] - 1
      /\ \A e \in Levels \ {depth[t]} : at'[t][e] = at[t][e]
      /\ \A v \in Threads \ {t} : at'[v] = at[v]
  BY ReturnFacts DEF IInv
<1>2. u = t => d # depth[t]
  BY <1>1 DEF Levels
<1> QED
  BY <1>1, <1>2 DEF Advances

\* Every step of the system brings calls forward only.
LEMMA StepAdvances ==
  ASSUME IInv, [Next]_vars, NEW u \in Threads, NEW d \in Levels,
         d <= depth[u], d <= depth'[u]
  PROVE  Advances(u, d)
<1>1. CASE UNCHANGED vars \/ TearDown
  BY <1>1 DEF vars, TearDown, Advances
<1>2. ASSUME NEW t \in Threads, HostCall(t) PROVE Advances(u, d)
  BY <1>2, CallAdvances
<1>3. ASSUME NEW t \in Threads, LogReturns(t) PROVE Advances(u, d)
  <2>1. "m_match" \in Points /\ StepsLeft("m_match", loaded') < StepsLeft("m_log", loaded)
    BY DEF Points, MatchPoints, StepsLeft
  <2> QED
    BY <1>3, <2>1, GotoAdvances, ReturnAdvances DEF LogReturns
<1>4. ASSUME NEW t \in Threads, SetHost(t) \/ Cells(t) \/ Build(t) PROVE Advances(u, d)
  <2>1. "l_cells" \in Points /\ "l_build" \in Points
    BY DEF Points, LoadPoints
  <2>2. CASE SetHost(t)
    <3>1. StepsLeft("l_cells", loaded') < StepsLeft("l_set", loaded)
      BY DEF StepsLeft
    <3> QED
      BY <2>1, <2>2, <3>1, GotoAdvances DEF SetHost
  <2>3. CASE Cells(t)
    <3>1. StepsLeft("l_build", loaded') < StepsLeft("l_cells", loaded)
      BY <2>3 DEF StepsLeft, Cells
    <3> QED
      BY <2>1, <2>3, <3>1, GotoAdvances DEF Cells
  <2>4. CASE Build(t)
    <3>1. StepsLeft("l_cells", loaded') < StepsLeft("l_build", loaded)
      BY <2>4 DEF StepsLeft, Build
    <3> QED
      BY <2>1, <2>4, <3>1, GotoAdvances DEF Build
  <2> QED
    BY <1>4, <2>2, <2>3, <2>4
<1>5. ASSUME NEW t \in Threads,
             \/ MatchLogs(t) \/ MatchSilent(t) \/ ShutdownLogs(t) \/ ReadFails(t)
             \/ Decode(t) \/ RegisterLock(t) \/ Free(t) \/ UnregisterLock(t)
      PROVE  Advances(u, d)
  <2>1. PICK from \in {"m_enter", "s_enter", "d_enter", "d_lock", "f_enter", "f_lock"},
             to \in {"m_log", "m_match", "s_log", "d_log", "d_lock", "d_register",
                     "f_lock", "f_unregister"} :
          /\ Goto(t, from, to)
          /\ from \in {"s_enter", "d_lock", "f_lock"} =>
               to \in {"s_log", "d_register", "f_unregister"}
    BY <1>5 DEF MatchLogs, MatchSilent, ShutdownLogs, ReadFails, Decode, RegisterLock, Free,
                UnregisterLock, Log
  <2>2. to \in Points
    BY DEF Points, MatchPoints, DecodePoints, ShutdownPoints, FreePoints
  <2>3. StepsLeft(to, loaded') < StepsLeft(from, loaded)
    BY <2>1 DEF StepsLeft
  <2> QED
    BY <2>1, <2>2, <2>3, GotoAdvances
<1>6. ASSUME NEW t \in Threads,
             \/ AnswerTable(t) \/ Match(t) \/ ShutdownSilent(t) \/ DecodeFails(t)
             \/ Register(t) \/ FreeNothing(t) \/ Unregister(t)
      PROVE  Advances(u, d)
  <2>1. PICK from : Return(t, from)
    BY <1>6 DEF AnswerTable, Match, ShutdownSilent, DecodeFails, Register, FreeNothing, Unregister
  <2> QED
    BY <2>1, ReturnAdvances
<1> QED
  BY <1>1, <1>2, <1>3, <1>4, <1>5, <1>6 DEF Next, PluginStep

\* Every call, the ones nested in a log function included, takes a bounded
\* number of steps, whatever the other threads do in between: at most four.
THEOREM NothingTriedTwice == Spec => CallsAdvance
<1>1. IInv /\ [Next]_vars =>
        [\A t \in Threads, d \in Levels :
           d <= depth[t] /\ d <= depth'[t] =>
             \/ at'[t][d] = at[t][d]
             \/ StepsLeft(at'[t][d], loaded') < StepsLeft(at[t][d], loaded)]_vars
  BY StepAdvances DEF Advances
<1> QED
  BY <1>1, Invariance, PTL DEF Spec, CallsAdvance
=============================================================================
