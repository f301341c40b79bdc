--------------------------- MODULE ExclusiveHost ----------------------------
(***************************************************************************)
(* PixelBufferLifecycle under a host that keeps to the ABI: it uses a      *)
(* struct from one call at a time, does not write into it, decodes only    *)
(* into a struct that holds nothing, and may free a struct that holds      *)
(* nothing (decode.rs:153, 169: a no-op).                                  *)
(*                                                                         *)
(* A host that is not so careful may do one or both of                     *)
(*   DoubleFrees: it keeps bitwise copies of structs it has freed and      *)
(*     frees a copy once more;                                             *)
(*   Overwrites: it decodes into a struct whose image it has not freed,    *)
(*     so that the plugin overwrites the only pointer to a buffer          *)
(*     (decode.rs:127).                                                    *)
(***************************************************************************)
EXTENDS PixelBufferLifecycle

CONSTANTS DoubleFrees, Overwrites

ASSUME CarelessnessAssumption == DoubleFrees \in BOOLEAN /\ Overwrites \in BOOLEAN
ASSUME NullCallAssumption ==
  NULL \notin [op : {"decode", "free"}, slot : Slots \cup {NULL}]

VARIABLES
  granted,   \* the image the host was last given in a struct and has not freed
  stale,     \* data pointers of the copies the host kept of freed structs
  forgotten  \* history: data pointers that were overwritten before a free

hostVars == <<granted, stale, forgotten>>
allVars == <<vars, granted, stale, forgotten>>

HostTypeOK ==
  /\ TypeOK
  /\ granted \in [Slots -> Images \cup {NULL}]
  /\ stale \in SUBSET Addrs
  /\ forgotten \in SUBSET Addrs

HostInit ==
  /\ Init
  /\ granted = [s \in Slots |-> NULL]
  /\ stale = {}
  /\ forgotten = {}

Busy(s) == \E t \in Threads : pc[t] # "idle" /\ slot[t] = s

BeginDecode(t, s) ==
  /\ s # NULL => ~Busy(s) /\ (Overwrites \/ granted[s] = NULL)
  /\ CallDecode(t, s)
  /\ UNCHANGED hostVars

BeginFree(t, s) ==
  /\ s # NULL => ~Busy(s)
  /\ CallFree(t, s)
  /\ granted' = [r \in Slots |-> IF r = s THEN NULL ELSE granted[r]]
  /\ stale' = IF DoubleFrees /\ s # NULL
                THEN stale \cup ({buffer[s].data} \ {NULL}) ELSE stale
  /\ UNCHANGED forgotten

\* The host puts a copy of a struct it has freed into an unused one.
RestoreCopy(s) ==
  /\ ~Busy(s) /\ granted[s] = NULL
  /\ \E a \in stale : HostStore(s, [data |-> a, dims |-> NULL])
  /\ UNCHANGED hostVars

\* The structs thread t answers Ok for in its next step.
Publishing(t) == {s \in Slots : pc[t] = "d_publish" /\ slot[t] = s}

\* The host learns of the image when decode answers Ok.
Run(t) ==
  /\ PluginStep(t)
  /\ granted' = [s \in Slots |-> IF s \in Publishing(t) THEN img[t] ELSE granted[s]]
  /\ forgotten' = forgotten \cup
       {buffer[s].data : s \in {r \in Publishing(t) : granted[r] # NULL}}
  /\ UNCHANGED stale

HostNext ==
  \/ \E t \in Threads :
       \/ \E s \in Slots \cup {NULL} : BeginDecode(t, s) \/ BeginFree(t, s)
       \/ Run(t)
  \/ \E s \in Slots : RestoreCopy(s)

HostSpec == HostInit /\ [][HostNext]_allVars

-----------------------------------------------------------------------------
\* Use after free: while the host holds an image, the struct points at a
\* registered buffer that still contains exactly that image and describes it
\* with that image's dimensions (buffer_registry.rs:36-41, EXPLAINER.md:16).
HeldIntact ==
  \A s \in Slots : granted[s] # NULL =>
    /\ buffer[s].data \in registry \cap live
    /\ content[buffer[s].data] = granted[s]
    /\ buffer[s].dims = granted[s]

\* No two structs the host holds share a buffer, whatever malloc reuses.
HeldDistinct ==
  \A r, s \in Slots :
    granted[r] # NULL /\ granted[s] # NULL /\ buffer[r].data = buffer[s].data => r = s

\* What the registry does achieve against a host that frees copies: the
\* damage stays with addresses it kept a copy of.  A buffer malloc placed
\* elsewhere is as safe as with a host that frees once.
DamageContained ==
  \A s \in Slots : granted[s] # NULL /\ buffer[s].data \notin stale =>
    /\ buffer[s].data \in registry \cap live
    /\ content[buffer[s].data] = granted[s]
    /\ buffer[s].dims = granted[s]

\* When no call is running, what is allocated is what the registry knows, and
\* that is exactly what the host holds and what it has forgotten: a failed
\* decode or a completed free leaves nothing behind, and nothing reclaims a
\* buffer whose struct was decoded into again (up to the addresses of copies
\* the host kept, which a second free may hit).
HeapBalances ==
  (\A t \in Threads : pc[t] = "idle") /\ ~poisoned =>
    /\ registry = live
    /\ live \ stale =
         (forgotten \cup {buffer[s].data : s \in {r \in Slots : granted[r] # NULL}}) \ stale

-----------------------------------------------------------------------------
(***************************************************************************)
(* The refinement mapping: a struct holds an image if it points at a       *)
(* registered buffer with that image's pixels and dimensions.              *)
(***************************************************************************)
Holds ==
  [s \in Slots |->
     IF buffer[s].data \in registry /\ content[buffer[s].data] = buffer[s].dims
       THEN buffer[s].dims ELSE NULL]

Calls ==
  [t \in Threads |->
     IF pc[t] = "idle" THEN NULL
     ELSE [op |-> IF pc[t] \in DecodePoints THEN "decode" ELSE "free",
           slot |-> slot[t]]]

Ownership ==
  INSTANCE BufferOwnership
    WITH holds <- Holds, calls <- Calls, answer <- ret, Errors <- Status \ {"Ok"}

\* The plugin implements BufferOwnership: decode takes effect when it answers
\* Ok, free when it clears the struct, and no other step does.
Refinement == Ownership!Spec
=============================================================================
