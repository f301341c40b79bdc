------------------------- MODULE PluginInit_proofs --------------------------
(***************************************************************************)
(* Loading the plugin is safe for any number of threads, host pointers and *)
(* panics.                                                                 *)
(***************************************************************************)
EXTENDS PluginInit, TLAPS

\* The cells a thread has passed when it is at a program point.
Passed(point) ==
  CASE point = "state" -> {"extensions"}
    [] point = "capability" -> {"extensions", "state"}
    [] point = "registry" -> {"extensions", "state", "capability"}
    [] point = "return" -> Cells
    [] OTHER -> {}

\* A thread inside ensure_initialized has stored a host pointer, and every
\* cell it has passed is initialised.
Progress ==
  \A t \in Threads :
    /\ pc[t] = "set_host" => arg[t] \in Hosts
    /\ pc[t] \in Cells \cup {"return"} => hostApi # NULL
    /\ \A c \in Passed(pc[t]) : value[c] # NULL

\* A cell is built only by a thread that is at it, and only while it is empty.
Building ==
  \A c \in Cells : builder[c] # NULL => pc[builder[c]] = c /\ value[c] = NULL

\* What was handed out is what the cells hold.
HandedFromCells ==
  /\ handed["plugin"] \subseteq {value["state"]}
  /\ handed["codec"] \subseteq handed["plugin"]
  /\ handed["capability"] \subseteq {value["capability"]}

IInv ==
  /\ TypeOK
  /\ Progress
  /\ Building
  /\ HandedFromCells
  /\ HandedWhenReady
  /\ CapabilityComplete
  /\ NeverInternal

-----------------------------------------------------------------------------
\* The next program point passes exactly the cell the thread is at.
LEMMA AfterPasses ==
  ASSUME NEW c \in Cells
  PROVE  /\ After[c] \in Cells \cup {"return"}
         /\ After[c] # c /\ After[c] # "set_host" /\ After[c] # "idle"
         /\ Passed(After[c]) = Passed(c) \cup {c}
<1>1. CASE c = "extensions" BY <1>1 DEF After, Passed, Cells
<1>2. CASE c = "state" BY <1>2 DEF After, Passed, Cells
<1>3. CASE c = "capability" BY <1>3 DEF After, Passed, Cells
<1>4. CASE c = "registry" BY <1>4 DEF After, Passed, Cells
<1> QED
  BY <1>1, <1>2, <1>3, <1>4 DEF Cells

\* Only cells are passed.
LEMMA PassedCells ==
  ASSUME NEW point
  PROVE  Passed(point) \subseteq Cells
  BY DEF Passed, Cells

\* Before its first cell and outside, a thread has passed none.
LEMMA PassedNone ==
  Passed("idle") = {} /\ Passed("set_host") = {} /\ Passed("extensions") = {}
  BY DEF Passed

\* A thread at the end, or at the capability, has passed what it needs.
LEMMA PassedSome ==
  /\ Passed("return") = Cells
  /\ Passed("capability") = {"extensions", "state"}
  BY DEF Passed

\* The four cells, without their definition.
LEMMA CellNames == {"extensions", "state", "capability", "registry"} = Cells
  BY DEF Cells

-----------------------------------------------------------------------------
\* The invariant holds before the first call.
LEMMA InitInv == Init => IInv
<1> SUFFICES ASSUME Init PROVE IInv
  OBVIOUS
<1> USE InitAssumption DEF Init
<1>1. TypeOK
  BY DEF TypeOK, Cells, Tables, NullRefs
<1>2. Progress
  BY PassedNone DEF Progress, Cells
<1>3. Building
  BY DEF Building
<1>4. handed["plugin"] = {} /\ handed["codec"] = {} /\ handed["capability"] = {}
  BY DEF Tables
<1>5. value["capability"] = NULL
  BY CellNames
<1>6. HandedFromCells /\ HandedWhenReady /\ CapabilityComplete /\ NeverInternal
  BY <1>4, <1>5 DEF HandedFromCells, HandedWhenReady, CapabilityComplete, NeverInternal
<1> QED
  BY <1>1, <1>2, <1>3, <1>6 DEF IInv

\* Entering the call keeps the invariant.
LEMMA GetApiInv ==
  ASSUME IInv, NEW t \in Threads, NEW version \in Versions,
         NEW host \in Hosts \cup {NULL}, NEW size \in StructSizes,
         GetApi(t, version, host, size)
  PROVE  IInv'
<1> USE DEF IInv, TypeOK, GetApi, Accepted, cells
<1>1. TypeOK'
  OBVIOUS
<1>2. Progress'
  BY PassedNone DEF Progress, Cells
<1>3. Building'
  BY InitAssumption DEF Building, Cells
<1>4. HandedFromCells' /\ HandedWhenReady' /\ CapabilityComplete' /\ NeverInternal'
  BY DEF HandedFromCells, HandedWhenReady, CapabilityComplete, NeverInternal
<1> QED
  BY <1>1, <1>2, <1>3, <1>4

\* Storing the host pointer keeps the invariant.
LEMMA SetHostInv ==
  ASSUME IInv, NEW t \in Threads, SetHost(t)
  PROVE  IInv'
<1> USE InitAssumption DEF IInv, TypeOK, SetHost, cells
<1>1. TypeOK'
  BY DEF Cells
<1>2. hostApi' # NULL
  BY DEF Progress
<1>3. Progress'
  BY <1>2, PassedNone DEF Progress
<1>4. Building'
  BY DEF Building, Cells
<1>5. HandedFromCells' /\ HandedWhenReady' /\ CapabilityComplete' /\ NeverInternal'
  BY <1>2 DEF HandedFromCells, HandedWhenReady, CapabilityComplete, NeverInternal
<1> QED
  BY <1>1, <1>3, <1>4, <1>5

\* Passing an initialised cell keeps the invariant.
LEMMA SkipInv ==
  ASSUME IInv, NEW t \in Threads, Skip(t)
  PROVE  IInv'
<1> USE InitAssumption DEF IInv, TypeOK, Skip, cells
<1>1. pc'[t] = After[pc[t]] /\ \A u \in Threads \ {t} : pc'[u] = pc[u]
  OBVIOUS
<1>2. TypeOK'
  BY AfterPasses
<1>3. Progress'
  BY <1>1, AfterPasses DEF Progress
<1>4. Building'
  BY <1>1 DEF Building
<1>5. HandedFromCells' /\ HandedWhenReady' /\ CapabilityComplete' /\ NeverInternal'
  BY DEF HandedFromCells, HandedWhenReady, CapabilityComplete, NeverInternal
<1> QED
  BY <1>2, <1>3, <1>4, <1>5

\* Starting a build keeps the invariant.
LEMMA StartBuildInv ==
  ASSUME IInv, NEW t \in Threads, StartBuild(t)
  PROVE  IInv'
<1> USE InitAssumption DEF IInv, TypeOK, StartBuild
<1>1. TypeOK'
  OBVIOUS
<1>2. Progress'
  BY DEF Progress
<1>3. Building'
  BY DEF Building
<1>4. HandedFromCells' /\ HandedWhenReady' /\ CapabilityComplete' /\ NeverInternal'
  BY DEF HandedFromCells, HandedWhenReady, CapabilityComplete, NeverInternal
<1> QED
  BY <1>1, <1>2, <1>3, <1>4

\* Storing the built value keeps the invariant.
LEMMA FinishBuildInv ==
  ASSUME IInv, NEW t \in Threads, FinishBuild(t)
  PROVE  IInv'
<1> USE InitAssumption DEF IInv, TypeOK, FinishBuild
<1> DEFINE c == pc[t]
<1>1. c \in Cells /\ builder[c] = t /\ value[c] = NULL
  BY DEF Building
<1>2. /\ value'[c] = t /\ builder'[c] = NULL
      /\ \A d \in Cells \ {c} : value'[d] = value[d] /\ builder'[d] = builder[d]
      /\ pc'[t] = After[c] /\ \A u \in Threads \ {t} : pc'[u] = pc[u]
  BY <1>1
<1>3. TypeOK'
  BY <1>1, AfterPasses, CellNames
<1>4. \A d \in Cells : value[d] # NULL => value'[d] = value[d]
  BY <1>1, <1>2
<1>5. Progress'
  <2>1. ASSUME NEW u \in Threads, NEW d \in Passed(pc'[u]) PROVE value'[d] # NULL
    <3>1. CASE u = t
      BY <1>1, <1>2, <1>4, <2>1, <3>1, AfterPasses, PassedCells DEF Progress
    <3>2. CASE u # t
      BY <1>2, <1>4, <2>1, <3>2, PassedCells DEF Progress
    <3> QED BY <3>1, <3>2
  <2> QED
    BY <1>1, <1>2, <2>1, AfterPasses DEF Progress
<1>6. Building'
  BY <1>1, <1>2, <1>3 DEF Building
<1>7. HandedFromCells' /\ HandedWhenReady'
  \* Nothing is handed out while a cell is still empty.
  <2>1. handed["plugin"] = {} /\ handed["codec"] = {}
    BY <1>1 DEF HandedWhenReady, HandedFromCells
  <2>2. handed["capability"] \subseteq {value'["capability"]}
    BY <1>1, <1>2, CellNames DEF HandedFromCells, Tables
  <2> QED
    BY <2>1, <2>2 DEF HandedFromCells, HandedWhenReady
<1>8. CapabilityComplete'
  <2>1. CASE c = "capability"
    <3>1. value["extensions"] # NULL /\ value["state"] # NULL
      BY <2>1, PassedSome DEF Progress
    <3>2. value'["extensions"] = value["extensions"] /\ value'["state"] = value["state"]
      BY <1>2, <2>1, CellNames
    <3> QED
      BY <2>1, <3>1, <3>2 DEF CapabilityComplete
  <2>2. CASE c # "capability"
    <3>1. value'["capability"] = value["capability"] /\ refs' = refs
      BY <1>2, <2>2, CellNames
    <3>2. ASSUME value["capability"] # NULL
          PROVE  value'["extensions"] = value["extensions"] /\ value'["state"] = value["state"]
      BY <1>4, <3>2, CellNames DEF CapabilityComplete
    <3> QED
      BY <3>1, <3>2 DEF CapabilityComplete
  <2> QED
    BY <2>1, <2>2
<1>9. NeverInternal'
  BY DEF NeverInternal
<1> QED
  BY <1>3, <1>5, <1>6, <1>7, <1>8, <1>9

\* A panicking build leaves its cell empty and keeps the invariant.
LEMMA BuildPanicsInv ==
  ASSUME IInv, NEW t \in Threads, BuildPanics(t)
  PROVE  IInv'
<1> USE InitAssumption DEF IInv, TypeOK, BuildPanics
<1>1. TypeOK'
  BY CellNames
<1>2. Progress'
  BY PassedNone DEF Progress, Cells
<1>3. Building'
  BY CellNames DEF Building
<1>4. HandedFromCells' /\ HandedWhenReady' /\ CapabilityComplete' /\ NeverInternal'
  BY DEF HandedFromCells, HandedWhenReady, CapabilityComplete, NeverInternal
<1> QED
  BY <1>1, <1>2, <1>3, <1>4

\* A thread that returns a table has passed every cell.
LEMMA AnswerTableInv ==
  ASSUME IInv, NEW t \in Threads, AnswerTable(t)
  PROVE  IInv'
<1> USE InitAssumption DEF IInv, TypeOK, AnswerTable, cells
<1>1. hostApi # NULL /\ \A c \in Cells : value[c] # NULL
  BY PassedSome DEF Progress
<1>2. /\ handed'["plugin"] = handed["plugin"] \cup {value["state"]}
      /\ handed'["codec"] = handed["codec"]
      /\ handed'["capability"] = handed["capability"]
  BY <1>1, CellNames DEF Tables
<1>3. TypeOK'
  BY <1>1, CellNames DEF Tables
<1>4. Progress'
  BY PassedNone DEF Progress, Cells
<1>5. Building'
  BY CellNames, <1>1 DEF Building
<1>6. HandedFromCells' /\ HandedWhenReady' /\ CapabilityComplete' /\ NeverInternal'
  BY <1>1, <1>2 DEF HandedFromCells, HandedWhenReady, CapabilityComplete, NeverInternal
<1> QED
  BY <1>3, <1>4, <1>5, <1>6

\* A call through a table hands out only what the cells hold, all of which are
\* there once the first table is.
LEMMA TableCallInv ==
  ASSUME IInv, NEW t \in Threads, TableCall(t)
  PROVE  IInv'
<1> USE InitAssumption DEF IInv, TypeOK, cells, Answer
<1>1. handed["plugin"] # {}
  BY DEF TableCall, GetCodec, GetCapability, UseRegistry, HandedFromCells
<1>2. \A c \in Cells : value[c] # NULL
  BY <1>1 DEF HandedWhenReady
<1>3. UNCHANGED <<hostApi, cells, pc, arg>>
  BY DEF TableCall, GetCodec, GetCapability, UseRegistry
<1>4. status' \in {"Ok", "InvalidArg"}
  BY <1>2, CellNames DEF TableCall, GetCodec, GetCapability, UseRegistry
<1>5. \/ UNCHANGED handed
      \/ handed' = [handed EXCEPT !["codec"] = @ \cup {value["state"]}]
      \/ handed' = [handed EXCEPT !["capability"] = @ \cup {value["capability"]}]
  BY DEF TableCall, GetCodec, GetCapability, UseRegistry
<1>6. TypeOK'
  BY <1>2, <1>3, <1>4, <1>5, CellNames DEF Tables
<1>7. Progress' /\ Building'
  BY <1>3 DEF Progress, Building
<1>8. handed'["plugin"] = handed["plugin"] /\ HandedFromCells'
  BY <1>1, <1>3, <1>5 DEF HandedFromCells, Tables
<1>9. HandedWhenReady' /\ CapabilityComplete' /\ NeverInternal'
  BY <1>3, <1>4, <1>8 DEF HandedWhenReady, CapabilityComplete, NeverInternal
<1> QED
  BY <1>6, <1>7, <1>8, <1>9

\* Every step keeps the invariant.
LEMMA NextInv == IInv /\ [Next]_vars => IInv'
<1> SUFFICES ASSUME IInv, [Next]_vars PROVE IInv'
  OBVIOUS
<1>1. CASE UNCHANGED vars
  BY <1>1 DEF vars, IInv, TypeOK, Progress, Building, HandedFromCells,
       HandedWhenReady, CapabilityComplete, NeverInternal
<1>2. ASSUME NEW t \in Threads, NEW version \in Versions,
             NEW host \in Hosts \cup {NULL}, NEW size \in StructSizes,
             GetApi(t, version, host, size)
      PROVE  IInv'
  BY <1>2, GetApiInv
<1>3. ASSUME NEW t \in Threads, LoadStep(t) PROVE IInv'
  BY <1>3, SetHostInv, SkipInv, StartBuildInv, FinishBuildInv, BuildPanicsInv,
     AnswerTableInv DEF LoadStep
<1>4. ASSUME NEW t \in Threads, TableCall(t) PROVE IInv'
  BY <1>4, TableCallInv
<1> QED
  BY <1>1, <1>2, <1>3, <1>4 DEF Next

\* The invariant holds in every reachable state.
LEMMA Invariance == Spec => []IInv
  BY InitInv, NextInv, PTL DEF Spec

-----------------------------------------------------------------------------
\* The variables keep their types.
THEOREM TypeCorrect == Spec => []TypeOK
  BY Invariance, PTL DEF IInv

\* No function table is handed out before every OnceLock cell and the host
\* pointer are there, whichever threads race through ensure_initialized.
THEOREM TablesReady == Spec => []HandedWhenReady
  BY Invariance, PTL DEF IInv

\* All threads are given the same tables.
THEOREM TablesUnique == Spec => []OneTable
<1>1. IInv => OneTable
  BY DEF IInv, HandedFromCells, OneTable, Tables
<1> QED
  BY <1>1, Invariance, PTL

\* The capability table refers to the state and the extensions in the cells.
THEOREM CapabilitySound == Spec => []CapabilityComplete
  BY Invariance, PTL DEF IInv

\* No call through a table answers Internal for want of a cell.
THEOREM NoInternal == Spec => []NeverInternal
  BY Invariance, PTL DEF IInv

\* A step of loading is a step of module Loading or leaves its variables alone:
\* only SetHost on an empty HOST_API adopts a host, only AnswerTable with the
\* first table makes the plugin ready.
LEMMA AdoptionStep ==
  IInv /\ [Next]_vars => [Adoption!Next]_<<hostApi, handed["plugin"] # {}>>
<1> SUFFICES ASSUME IInv, [Next]_vars
             PROVE  [Adoption!Next]_<<hostApi, handed["plugin"] # {}>>
  OBVIOUS
<1> DEFINE ready == handed["plugin"] # {}
<1>1. CASE UNCHANGED vars
  BY <1>1 DEF vars
<1>2. ASSUME NEW t \in Threads, SetHost(t)
      PROVE  [Adoption!Next]_<<hostApi, ready>>
  <2>1. arg[t] \in Hosts
    BY <1>2 DEF SetHost, IInv, Progress
  <2> QED
    BY <1>2, <2>1 DEF SetHost, Adoption!Next, Adoption!Adopt
<1>3. ASSUME NEW t \in Threads, AnswerTable(t)
      PROVE  [Adoption!Next]_<<hostApi, ready>>
  <2>1. hostApi # NULL /\ value["state"] # NULL
    BY <1>3, PassedSome, CellNames DEF AnswerTable, IInv, Progress
  <2>2. handed'["plugin"] = handed["plugin"] \cup {value["state"]}
    BY <1>3, <2>1 DEF AnswerTable, IInv, TypeOK, Tables
  <2> QED
    BY <1>3, <2>1, <2>2 DEF AnswerTable, Adoption!Next, Adoption!Answer
<1>4. ASSUME NEW t \in Threads,
             \/ Skip(t) \/ StartBuild(t) \/ FinishBuild(t) \/ BuildPanics(t)
      PROVE  UNCHANGED <<hostApi, handed>>
  BY <1>4 DEF Skip, StartBuild, FinishBuild, BuildPanics
<1>5. ASSUME NEW t \in Threads, NEW version \in Versions,
             NEW host \in Hosts \cup {NULL}, NEW size \in StructSizes,
             GetApi(t, version, host, size)
      PROVE  UNCHANGED <<hostApi, handed>>
  BY <1>5 DEF GetApi
<1>6. ASSUME NEW t \in Threads, TableCall(t)
      PROVE  hostApi' = hostApi /\ handed'["plugin"] = handed["plugin"]
  BY <1>6 DEF TableCall, GetCodec, GetCapability, UseRegistry, Answer, IInv, TypeOK, Tables
<1> QED
  BY <1>1, <1>2, <1>3, <1>4, <1>5, <1>6 DEF Next, LoadStep

\* Loading implements module Loading: one host, kept, and known before any
\* table is handed out, for any number of threads, hosts and panics.
THEOREM LoadingImplemented == Spec => AdoptsOneHost
<1>1. Init => Adoption!Init
  BY DEF Init, Adoption!Init, Tables
<1> QED
  BY <1>1, AdoptionStep, Invariance, PTL DEF Spec, AdoptsOneHost, Adoption!Spec

-----------------------------------------------------------------------------
\* The steps a call at a point still takes at most, two for each cell.
StepsLeft(point, built) ==
  CASE point = "idle" -> 0
    [] point = "return" -> 1
    [] point = "registry" -> IF built THEN 2 ELSE 3
    [] point = "capability" -> IF built THEN 4 ELSE 5
    [] point = "state" -> IF built THEN 6 ELSE 7
    [] point = "extensions" -> IF built THEN 8 ELSE 9
    [] OTHER -> 10

\* The thread is running the closure of the cell it is at.
Builds(t) == pc[t] \in Cells /\ builder[pc[t]] = t

\* A load only moves towards its answer: it starts at most one closure for each
\* cell and passes each cell once, and a panic (state.rs:220) ends it.
LoadsAdvance ==
  [][\A t \in Threads : pc[t] # "idle" =>
       \/ pc'[t] = pc[t] /\ Builds(t)' = Builds(t)
       \/ StepsLeft(pc'[t], Builds(t)') < StepsLeft(pc[t], Builds(t))]_vars

\* A cell's closure runs in a thread at that cell, where its next step has no
\* condition to wait for: it needs no cell that another thread is building
\* (build_capability reads two cells its thread has passed, state.rs:228-248).
BuildersRun ==
  \A c \in Cells : builder[c] # NULL =>
    /\ pc[builder[c]] = c
    /\ c = "capability" => value["state"] # NULL /\ value["extensions"] # NULL

\* A step of loading leaves its thread with fewer steps.
LEMMA StepAdvances ==
  ASSUME IInv, NEW t \in Threads, LoadStep(t)
  PROVE  StepsLeft(pc'[t], Builds(t)') < StepsLeft(pc[t], Builds(t))
<1> USE InitAssumption DEF IInv, TypeOK
<1>1. CASE SetHost(t)
  <2>1. pc[t] = "set_host" /\ pc'[t] = "extensions"
    BY <1>1 DEF SetHost
  <2> QED
    BY <2>1 DEF StepsLeft
<1>2. CASE Skip(t)
  <2>1. pc[t] \in Cells /\ pc'[t] = After[pc[t]]
    BY <1>2 DEF Skip
  <2> QED
    BY <2>1 DEF StepsLeft, After, Cells
<1>3. CASE StartBuild(t)
  <2>1. pc' = pc /\ ~Builds(t) /\ Builds(t)' /\ pc[t] \in Cells
    BY <1>3 DEF StartBuild, Builds
  <2> QED
    BY <2>1 DEF StepsLeft, Cells
<1>4. CASE FinishBuild(t)
  <2>1. pc[t] \in Cells /\ pc'[t] = After[pc[t]] /\ Builds(t)
    BY <1>4 DEF FinishBuild, Builds
  <2>2. ~Builds(t)'
    <3>1. pc'[t] \in Cells => pc'[t] # pc[t]
      BY <2>1, AfterPasses
    <3>2. pc'[t] \in Cells => builder'[pc'[t]] = builder[pc'[t]]
      BY <1>4, <3>1 DEF FinishBuild
    <3> QED
      BY <3>1, <3>2 DEF Builds, Building
  <2> QED
    BY <2>1, <2>2 DEF StepsLeft, After, Cells
<1>5. CASE BuildPanics(t)
  <2>1. pc[t] = "registry" /\ pc'[t] = "idle"
    BY <1>5 DEF BuildPanics
  <2> QED
    BY <2>1 DEF StepsLeft
<1>6. CASE AnswerTable(t)
  <2>1. pc[t] = "return" /\ pc'[t] = "idle"
    BY <1>6 DEF AnswerTable
  <2> QED
    BY <2>1 DEF StepsLeft
<1> QED
  BY <1>1, <1>2, <1>3, <1>4, <1>5, <1>6 DEF LoadStep

\* What other threads do neither moves a thread nor takes its closure from it.
LEMMA OthersStay ==
  ASSUME IInv, NEW t \in Threads, LoadStep(t), NEW u \in Threads \ {t}
  PROVE  pc'[u] = pc[u] /\ Builds(u)' = Builds(u)
<1> USE InitAssumption DEF IInv, TypeOK
<1>1. pc'[u] = pc[u]
  BY DEF LoadStep, SetHost, Skip, StartBuild, FinishBuild, BuildPanics, AnswerTable
<1>2. pc[u] \in Cells => (builder'[pc[u]] = u <=> builder[pc[u]] = u)
  <2>1. CASE SetHost(t) \/ Skip(t) \/ AnswerTable(t)
    BY <2>1 DEF SetHost, Skip, AnswerTable, cells
  <2>2. CASE StartBuild(t)
    BY <2>2 DEF StartBuild
  <2>3. CASE FinishBuild(t)
    BY <2>3 DEF FinishBuild
  <2>4. CASE BuildPanics(t)
    BY <2>4 DEF BuildPanics
  <2> QED
    BY <2>1, <2>2, <2>3, <2>4 DEF LoadStep
<1> QED
  BY <1>1, <1>2 DEF Builds

\* A load takes at most ten steps, two for each cell, whatever the other threads
\* do in between and however often a closure panics.
THEOREM NothingBuiltTwice == Spec => LoadsAdvance
<1> DEFINE Advance == \A t \in Threads : pc[t] # "idle" =>
             \/ pc'[t] = pc[t] /\ Builds(t)' = Builds(t)
             \/ StepsLeft(pc'[t], Builds(t)') < StepsLeft(pc[t], Builds(t))
<1>1. IInv /\ [Next]_vars => [Advance]_vars
  <2> SUFFICES ASSUME IInv, Next PROVE Advance
    OBVIOUS
  <2>1. ASSUME NEW t \in Threads, LoadStep(t) PROVE Advance
    BY <2>1, StepAdvances, OthersStay
  <2>2. ASSUME NEW t \in Threads, TableCall(t) PROVE Advance
    <3>1. pc' = pc /\ builder' = builder
      BY <2>2 DEF TableCall, GetCodec, GetCapability, UseRegistry, Answer, cells
    <3> QED
      BY <3>1 DEF Builds
  <2>3. ASSUME NEW t \in Threads, NEW version \in Versions, NEW host \in Hosts \cup {NULL},
               NEW size \in StructSizes, GetApi(t, version, host, size)
        PROVE  Advance
    <3>1. pc[t] = "idle" /\ builder' = builder /\ \A u \in Threads \ {t} : pc'[u] = pc[u]
      BY <2>3 DEF GetApi, cells, IInv, TypeOK
    <3> QED
      BY <3>1 DEF Builds
  <2> QED
    BY <2>1, <2>2, <2>3 DEF Next
<1> QED
  BY <1>1, Invariance, PTL DEF Spec, LoadsAdvance

\* A thread that waits for a cell waits for one that needs no other: loading
\* cannot deadlock.
THEOREM NoDeadlock == Spec => []BuildersRun
<1>1. IInv => BuildersRun
  <2> SUFFICES ASSUME IInv, NEW c \in Cells, builder[c] # NULL
               PROVE  /\ pc[builder[c]] = c
                      /\ c = "capability" => value["state"] # NULL /\ value["extensions"] # NULL
    BY DEF BuildersRun
  <2>1. pc[builder[c]] = c /\ builder[c] \in Threads
    BY DEF IInv, Building, TypeOK
  <2> QED
    BY <2>1, PassedSome DEF IInv, Progress
<1> QED
  BY <1>1, Invariance, PTL
=============================================================================
