----------------------------- MODULE PluginInit -----------------------------
(***************************************************************************)
(* Loading the plugin (lib.rs, state.rs): ig_plugin_get_api validates the  *)
(* host, stores its API pointer and initialises four OnceLock cells, one   *)
(* after the other; the tables it leads to are then used by any thread.    *)
(* Any number of threads may be inside ig_plugin_get_api at once.          *)
(*                                                                         *)
(* A value built for a cell is represented by the thread that built it:    *)
(* two builds by different threads are different objects.                  *)
(***************************************************************************)
EXTENDS Integers

CONSTANTS
  Threads,     \* host threads
  Hosts,       \* non-null IGHostApi pointers the host may pass
  Versions,    \* ABI versions the host may pass
  StructSizes, \* struct_size fields the host may pass
  MaxPanics,   \* bound on the panics of BufferRegistry::new
  NULL

ASSUME InitAssumption ==
  /\ NULL \notin Threads \cup Hosts \cup {"Internal"}
  /\ Versions \subseteq Int
  /\ StructSizes \subseteq Int
  /\ MaxPanics \in Nat

VARIABLES
  hostApi,   \* HOST_API
  value,     \* the OnceLock cells: the built value, NULL while uninitialised
  builder,   \* the thread running a cell's init closure
  refs,      \* what the string and array pointers of the capability refer to
  pc,        \* where each thread is in ig_plugin_get_api
  arg,       \* the host_api argument of the thread's call
  handed,    \* the objects whose address the host has been given, per table
  status,    \* status of the last call through a table
  panics     \* number of panics so far

vars == <<hostApi, value, builder, refs, pc, arg, handed, status, panics>>
cells == <<value, builder, refs, panics>>

\* IG_PLUGIN_ABI_VERSION and size_of::<IGHostApi>().
AbiVersion == 1000000
HostApiSize == 16

Cells == {"extensions", "state", "capability", "registry"}
Tables == {"plugin", "codec", "capability"}
NullRefs == [codec |-> NULL, exts |-> NULL]

\* Slips against which the properties are tried: the registry is forgotten, or
\* the capability is built before the state it refers to.
AfterNoRegistry == [extensions |-> "state", state |-> "capability",
                    capability |-> "return", registry |-> "return"]
AfterSwapped == [extensions |-> "capability", capability |-> "state",
                 state |-> "registry", registry |-> "return"]

\* The order of ensure_initialized.
After == [extensions |-> "state", state |-> "capability",
          capability |-> "registry", registry |-> "return"]

TypeOK ==
  /\ hostApi \in Hosts \cup {NULL}
  /\ value \in [Cells -> Threads \cup {NULL}]
  /\ builder \in [Cells -> Threads \cup {NULL}]
  /\ refs \in [codec : Threads \cup {NULL}, exts : Threads \cup {NULL}]
  /\ pc \in [Threads -> Cells \cup {"idle", "set_host", "return"}]
  /\ arg \in [Threads -> Hosts \cup {NULL}]
  /\ handed \in [Tables -> SUBSET Threads]
  /\ status \in {"Ok", "InvalidArg", "Internal", NULL}
  /\ panics \in 0..MaxPanics

Init ==
  /\ hostApi = NULL
  /\ value = [c \in Cells |-> NULL]
  /\ builder = [c \in Cells |-> NULL]
  /\ refs = NullRefs
  /\ pc = [t \in Threads |-> "idle"]
  /\ arg = [t \in Threads |-> NULL]
  /\ handed = [k \in Tables |-> {}]
  /\ status = NULL
  /\ panics = 0

-----------------------------------------------------------------------------
(***************************************************************************)
(* ig_plugin_get_api.                                                      *)
(***************************************************************************)
Accepted(version, host, size) ==
  /\ version \div 1000000 = AbiVersion \div 1000000
  /\ host # NULL
  /\ size >= HostApiSize

\* A rejected call answers null and touches nothing.
GetApi(t, version, host, size) ==
  /\ pc[t] = "idle"
  /\ Accepted(version, host, size)
  /\ pc' = [pc EXCEPT ![t] = "set_host"]
  /\ arg' = [arg EXCEPT ![t] = host]
  /\ UNCHANGED <<hostApi, cells, handed, status>>

\* Slip: the last pointer stays.
SetHostLast(t) ==
  /\ pc[t] = "set_host"
  /\ hostApi' = arg[t]
  /\ pc' = [pc EXCEPT ![t] = "extensions"]
  /\ UNCHANGED <<cells, arg, handed, status>>

\* OnceLock::set: the first pointer stays.
SetHost(t) ==
  /\ pc[t] = "set_host"
  /\ hostApi' = IF hostApi = NULL THEN arg[t] ELSE hostApi
  /\ pc' = [pc EXCEPT ![t] = "extensions"]
  /\ UNCHANGED <<cells, arg, handed, status>>

\* OnceLock::get_or_init on an initialised cell.
Skip(t) ==
  /\ pc[t] \in Cells
  /\ value[pc[t]] # NULL
  /\ pc' = [pc EXCEPT ![t] = After[@]]
  /\ UNCHANGED <<hostApi, cells, arg, handed, status>>

\* ... on an uninitialised one; while a thread builds, the others wait.
StartBuild(t) ==
  /\ pc[t] \in Cells
  /\ value[pc[t]] = NULL
  /\ builder[pc[t]] = NULL
  /\ builder' = [builder EXCEPT ![pc[t]] = t]
  /\ UNCHANGED <<hostApi, value, refs, pc, arg, handed, status, panics>>

\* Slip: a thread that comes late stores its own value over the first one.
FinishBuildAgain(t) ==
  /\ pc[t] \in Cells
  /\ value' = [value EXCEPT ![pc[t]] = t]
  /\ pc' = [pc EXCEPT ![t] = After[@]]
  /\ UNCHANGED <<hostApi, builder, refs, arg, handed, status, panics>>

\* Slip: a panic leaves the cell marked as being built.
BuildPanicsBusy(t) ==
  /\ pc[t] = "registry"
  /\ builder["registry"] = t
  /\ panics < MaxPanics
  /\ panics' = panics + 1
  /\ pc' = [pc EXCEPT ![t] = "idle"]
  /\ arg' = [arg EXCEPT ![t] = NULL]
  /\ UNCHANGED <<hostApi, value, builder, refs, handed, status>>

\* build_capability copies the addresses of what the other cells hold.
FinishBuild(t) ==
  /\ pc[t] \in Cells
  /\ builder[pc[t]] = t
  /\ value' = [value EXCEPT ![pc[t]] = t]
  /\ builder' = [builder EXCEPT ![pc[t]] = NULL]
  /\ refs' = IF pc[t] = "capability"
               THEN [codec |-> value["state"], exts |-> value["extensions"]]
               ELSE refs
  /\ pc' = [pc EXCEPT ![t] = After[@]]
  /\ UNCHANGED <<hostApi, arg, handed, status, panics>>

\* BufferRegistry::new needs random keys for its HashMap and may panic.  The
\* cell stays uninitialised, catch_unwind turns the panic into a null answer.
BuildPanics(t) ==
  /\ pc[t] = "registry"
  /\ builder["registry"] = t
  /\ panics < MaxPanics
  /\ panics' = panics + 1
  /\ builder' = [builder EXCEPT !["registry"] = NULL]
  /\ pc' = [pc EXCEPT ![t] = "idle"]
  /\ arg' = [arg EXCEPT ![t] = NULL]
  /\ UNCHANGED <<hostApi, value, refs, handed, status>>

\* The answer is PLUGIN_STATE's plugin_api, or null while it is absent.
AnswerTable(t) ==
  /\ pc[t] = "return"
  /\ handed' = [handed EXCEPT !["plugin"] = @ \cup ({value["state"]} \ {NULL})]
  /\ pc' = [pc EXCEPT ![t] = "idle"]
  /\ arg' = [arg EXCEPT ![t] = NULL]
  /\ UNCHANGED <<hostApi, cells, status>>

LoadStep(t) ==
  \/ SetHost(t) \/ Skip(t) \/ StartBuild(t) \/ FinishBuild(t)
  \/ BuildPanics(t) \/ AnswerTable(t)

-----------------------------------------------------------------------------
(***************************************************************************)
(* Calls through the tables, by any thread once the host has them.         *)
(***************************************************************************)
Answer(t, st) ==
  /\ pc[t] = "idle"
  /\ status' = st
  /\ UNCHANGED <<hostApi, cells, pc, arg>>

\* Slip: an index without a codec gets a status of its own.
GetCodecOddly(t, index, outIsNull) ==
  /\ handed["plugin"] # {}
  /\ index # 0
  /\ Answer(t, "NotImplemented")
  /\ UNCHANGED handed

\* plugin_get_codec: index 0 is the only codec; others get a null pointer.
GetCodec(t, index, outIsNull) ==
  /\ handed["plugin"] # {}
  /\ \/ /\ outIsNull
        /\ Answer(t, "InvalidArg")
        /\ UNCHANGED handed
     \/ /\ ~outIsNull /\ index # 0
        /\ Answer(t, "Ok")
        /\ UNCHANGED handed
     \/ /\ ~outIsNull /\ index = 0 /\ value["state"] = NULL
        /\ Answer(t, "Internal")
        /\ UNCHANGED handed
     \/ /\ ~outIsNull /\ index = 0 /\ value["state"] # NULL
        /\ Answer(t, "Ok")
        /\ handed' = [handed EXCEPT !["codec"] = @ \cup {value["state"]}]

\* codec_get_capability.
GetCapability(t, outIsNull) ==
  /\ handed["codec"] # {}
  /\ \/ /\ outIsNull
        /\ Answer(t, "InvalidArg")
        /\ UNCHANGED handed
     \/ /\ ~outIsNull /\ value["capability"] = NULL
        /\ Answer(t, "Internal")
        /\ UNCHANGED handed
     \/ /\ ~outIsNull /\ value["capability"] # NULL
        /\ Answer(t, "Ok")
        /\ handed' = [handed EXCEPT !["capability"] = @ \cup {value["capability"]}]

\* decode and free reach BUFFER_REGISTRY.get().unwrap(): a panic if it is
\* absent, which decode's catch_unwind answers as Internal.
UseRegistry(t) ==
  /\ handed["codec"] # {}
  /\ Answer(t, IF value["registry"] = NULL THEN "Internal" ELSE "Ok")
  /\ UNCHANGED handed

TableCall(t) ==
  \/ \E index \in 0..1, outIsNull \in BOOLEAN : GetCodec(t, index, outIsNull)
  \/ \E outIsNull \in BOOLEAN : GetCapability(t, outIsNull)
  \/ UseRegistry(t)

Next ==
  \E t \in Threads :
    \/ \E version \in Versions, host \in Hosts \cup {NULL}, size \in StructSizes :
         GetApi(t, version, host, size)
    \/ LoadStep(t)
    \/ TableCall(t)

Spec == Init /\ [][Next]_vars

\* A thread inside ig_plugin_get_api keeps running; the host need do nothing.
FairSpec == Spec /\ \A t \in Threads : WF_vars(LoadStep(t))

-----------------------------------------------------------------------------
\* The host never has a function table of a half-initialised plugin: whichever
\* thread built what, and after any failed attempts, every cell and the host
\* pointer are there when the first table is (lib.rs:234-241, state.rs:134-221).
HandedWhenReady ==
  handed["plugin"] # {} => hostApi # NULL /\ \A c \in Cells : value[c] # NULL

\* All threads are given the same tables, and the codec table is the one of
\* the plugin table's own PluginState.
OneTable ==
  /\ \A k \in Tables : \A x, y \in handed[k] : x = y
  /\ handed["codec"] \subseteq handed["plugin"]

\* The capability never has the null references of build_capability's fallback
\* (state.rs:234-248), and refers to the state and extensions in the cells.
CapabilityComplete ==
  value["capability"] # NULL =>
    /\ NULL \notin {value["state"], value["extensions"]}
    /\ refs = [codec |-> value["state"], exts |-> value["extensions"]]

\* No call through a table meets an uninitialised cell: the Internal answers
\* of lib.rs:104, codec.rs:41 and the unwraps of decode.rs:113, 174 are dead.
NeverInternal == status # "Internal"

\* Loading, with all its threads, cells and failures, implements module Loading:
\* the plugin adopts one of the hosts it was offered and keeps it, also through
\* loads that fail after it was stored, and hands out tables only from then on.
Adoption == INSTANCE Loading WITH host <- hostApi, ready <- handed["plugin"] # {}
AdoptsOneHost == Adoption!Spec

\* ig_plugin_get_api always returns, also to the threads that were waiting for
\* a builder that panicked.
GetApiReturns ==
  \A t \in Threads : pc[t] # "idle" ~> pc[t] = "idle"
=============================================================================
