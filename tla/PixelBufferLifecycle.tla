------------------------ MODULE PixelBufferLifecycle ------------------------
(***************************************************************************)
(* The life of a pixel buffer inside the plugin (decode.rs,                *)
(* buffer_registry.rs, allocator.rs): codec_decode_static_raster allocates *)
(* it, fills it, registers it and writes it into the host's IGPixelBuffer; *)
(* codec_free_pixel_buffer reads the pointer back, clears the struct,      *)
(* unregisters the pointer and frees it.  Both entry points are called by  *)
(* any thread of the host at any time, and each of their steps that other  *)
(* threads can observe is an action.                                       *)
(*                                                                         *)
(* The host of this module is ARBITRARY: it may pass the same struct to    *)
(* several calls at once and write any pointer into any struct.  What the  *)
(* plugin promises a host that keeps to the ABI is in module ExclusiveHost.*)
(***************************************************************************)
EXTENDS Naturals, FiniteSets

CONSTANTS
  Threads,       \* host threads that call the codec table
  Slots,         \* the host's IGPixelBuffer structs
  Addrs,         \* addresses malloc can return for a pixel buffer
  Images,        \* what decode_ithmb can return: pixels and dimensions
  ReadFailures,  \* statuses with which reading or decoding the file can fail
  MayPanic,      \* TRUE iff HashMap::insert may panic while the lock is held
  NULL           \* null pointer, absent image, no lock holder

ASSUME NullAssumption ==
  NULL \notin Threads \cup Slots \cup Addrs \cup Images
ASSUME FailuresAssumption ==
  ReadFailures \subseteq {"InvalidArg", "IoError", "DecodeFailed", "Unsupported", "Internal"}
ASSUME PanicAssumption == MayPanic \in BOOLEAN

VARIABLES
  live,      \* addresses that are allocated
  content,   \* what the bytes at an address hold; NULL when indeterminate
  registry,  \* keys of BUFFER_REGISTRY's map
  lock,      \* holder of the registry's mutex
  poisoned,  \* the mutex is poisoned
  buffer,    \* the host's structs: the data pointer and the image fields
  pc,        \* where each thread is in the plugin's code
  slot,      \* argument `buffer` of the thread's call
  ptr,       \* local `data_ptr`
  img,       \* local `decoded`
  ret        \* status of the thread's last decode

heapVars == <<live, content>>
registryVars == <<registry, lock, poisoned>>
localVars == <<pc, slot, ptr, img, ret>>
vars == <<live, content, registry, lock, poisoned, buffer, pc, slot, ptr, img, ret>>

(***************************************************************************)
(* Program points.  A "d_" point is in decode, an "f_" point in free.      *)
(***************************************************************************)
DecodePoints == {"d_decode", "d_alloc", "d_copy", "d_lock", "d_register",
                 "d_undo", "d_publish"}
FreePoints == {"f_load", "f_clear", "f_lock", "f_unregister", "f_free"}
LockPoints == {"d_register", "f_unregister"}

Status == {"Ok", "InvalidArg", "IoError", "DecodeFailed", "Unsupported",
           "Internal", "OutOfMemory"}

\* An IGPixelBuffer; `dims` stands for width, height and stride.
PixelBuffer == [data : Addrs \cup {NULL}, dims : Images \cup {NULL}]
NullBuffer == [data |-> NULL, dims |-> NULL]

TypeOK ==
  /\ live \in SUBSET Addrs
  /\ content \in [Addrs -> Images \cup {NULL}]
  /\ registry \in SUBSET Addrs
  /\ lock \in Threads \cup {NULL}
  /\ poisoned \in BOOLEAN
  /\ buffer \in [Slots -> PixelBuffer]
  /\ pc \in [Threads -> {"idle"} \cup DecodePoints \cup FreePoints]
  /\ slot \in [Threads -> Slots \cup {NULL}]
  /\ ptr \in [Threads -> Addrs \cup {NULL}]
  /\ img \in [Threads -> Images \cup {NULL}]
  /\ ret \in [Threads -> Status \cup {NULL}]

Init ==
  /\ live = {}
  /\ content = [a \in Addrs |-> NULL]
  /\ registry = {}
  /\ lock = NULL
  /\ poisoned = FALSE
  /\ buffer = [s \in Slots |-> NullBuffer]
  /\ pc = [t \in Threads |-> "idle"]
  /\ slot = [t \in Threads |-> NULL]
  /\ ptr = [t \in Threads |-> NULL]
  /\ img = [t \in Threads |-> NULL]
  /\ ret = [t \in Threads |-> NULL]

-----------------------------------------------------------------------------
\* The thread goes from one program point to another.
Goto(t, from, to) ==
  /\ pc[t] = from
  /\ pc' = [pc EXCEPT ![t] = to]

\* The call returns: its locals go out of scope and the host gets a status.
Return(t, status) ==
  /\ pc' = [pc EXCEPT ![t] = "idle"]
  /\ slot' = [slot EXCEPT ![t] = NULL]
  /\ ptr' = [ptr EXCEPT ![t] = NULL]
  /\ img' = [img EXCEPT ![t] = NULL]
  /\ ret' = [ret EXCEPT ![t] = status]

(***************************************************************************)
(* Slips: forms of actions below with a plausible mistake in them, against *)
(* which the properties are tried.  No specification uses them.            *)
(***************************************************************************)

\* Out of memory is answered with a status decode does not have.
AllocFailsOddly(t) ==
  /\ pc[t] = "d_alloc"
  /\ Return(t, "EncodeFailed")
  /\ UNCHANGED <<heapVars, registryVars, buffer>>

\* The error of register is not looked at.
RegisterLockIgnored(t) ==
  /\ lock = NULL
  /\ Goto(t, "d_lock", IF poisoned THEN "d_publish" ELSE "d_register")
  /\ lock' = IF poisoned THEN NULL ELSE t
  /\ UNCHANGED <<heapVars, registry, poisoned, buffer, slot, ptr, img, ret>>

\* The guard outlives the call.
RegisterLocked(t) ==
  /\ Goto(t, "d_register", "d_publish")
  /\ ptr[t] \notin registry
  /\ registry' = registry \cup {ptr[t]}
  /\ UNCHANGED <<heapVars, lock, poisoned, buffer, slot, ptr, img, ret>>

\* The buffer of a failed registration is forgotten.
UndoForgets(t) ==
  /\ pc[t] = "d_undo"
  /\ Return(t, "Internal")
  /\ UNCHANGED <<heapVars, registryVars, buffer>>

\* The struct keeps its pointer...
ClearStructNot(t) ==
  /\ Goto(t, "f_clear", IF ptr[t] = NULL THEN "idle" ELSE "f_lock")
  /\ UNCHANGED <<heapVars, registryVars, buffer, slot, ptr, img, ret>>

\* ... the buffer is freed before it is unregistered ...
ClearStructFrees(t) ==
  /\ Goto(t, "f_clear", "f_lock")
  /\ ptr[t] # NULL
  /\ buffer' = [buffer EXCEPT ![slot[t]] = NullBuffer]
  /\ live' = live \ {ptr[t]}
  /\ UNCHANGED <<content, registryVars, slot, ptr, img, ret>>

\* ... or overwritten before it is unregistered.
ClearStructScrubs(t) ==
  /\ Goto(t, "f_clear", "f_lock")
  /\ ptr[t] # NULL
  /\ buffer' = [buffer EXCEPT ![slot[t]] = NullBuffer]
  /\ content' = [content EXCEPT ![ptr[t]] = NULL]
  /\ UNCHANGED <<live, registryVars, slot, ptr, img, ret>>

\* A poisoned lock is recovered, as in BufferRegistry::is_empty.
UnregisterLockRecovers(t) ==
  /\ Goto(t, "f_lock", "f_unregister")
  /\ lock = NULL
  /\ lock' = t
  /\ UNCHANGED <<heapVars, registry, poisoned, buffer, slot, ptr, img, ret>>

\* An unknown pointer is freed all the same...
UnregisterAny(t) ==
  /\ Goto(t, "f_unregister", "f_free")
  /\ registry' = registry \ {ptr[t]}
  /\ lock' = NULL
  /\ UNCHANGED <<heapVars, poisoned, buffer, slot, ptr, img, ret>>

\* ... the entry is looked up and not removed ...
UnregisterKeeps(t) ==
  /\ Goto(t, "f_unregister", "f_free")
  /\ ptr[t] \in registry
  /\ lock' = NULL
  /\ UNCHANGED <<heapVars, registry, poisoned, buffer, slot, ptr, img, ret>>

\* ... or the unregistered buffer is not freed.
UnregisterOnly(t) ==
  /\ pc[t] = "f_unregister"
  /\ registry' = registry \ {ptr[t]}
  /\ Return(t, NULL)
  /\ lock' = NULL
  /\ UNCHANGED <<heapVars, poisoned, buffer>>

-----------------------------------------------------------------------------
(***************************************************************************)
(* The allocator.  malloc returns an address that is not allocated and     *)
(* does not clear it; the bytes at a freed address are left as they are.   *)
(***************************************************************************)
pixel_buffer_alloc(a) ==
  /\ a \notin live
  /\ live' = live \cup {a}
  /\ content' = [content EXCEPT ![a] = NULL]

pixel_buffer_free(a) == live' = live \ {a}

(***************************************************************************)
(* The host.                                                               *)
(***************************************************************************)
CallDecode(t, s) ==
  /\ Goto(t, "idle", "d_decode")
  /\ slot' = [slot EXCEPT ![t] = s]
  /\ ret' = [ret EXCEPT ![t] = NULL]
  /\ UNCHANGED <<heapVars, registryVars, buffer, ptr, img>>

CallFree(t, s) ==
  /\ Goto(t, "idle", "f_load")
  /\ slot' = [slot EXCEPT ![t] = s]
  /\ ret' = [ret EXCEPT ![t] = NULL]
  /\ UNCHANGED <<heapVars, registryVars, buffer, ptr, img>>

\* The host owns the structs and may store anything in one.
HostStore(s, b) ==
  /\ buffer' = [buffer EXCEPT ![s] = b]
  /\ UNCHANGED <<heapVars, registryVars, localVars>>

(***************************************************************************)
(* codec_decode_static_raster.  Nothing before the allocation touches      *)
(* shared state, so validation, reading and decoding are one action.       *)
(***************************************************************************)
DecodeFails(t) ==
  /\ pc[t] = "d_decode"
  /\ \E status \in ReadFailures \cup {"InvalidArg"} :
       /\ slot[t] = NULL => status = "InvalidArg"
       /\ Return(t, status)
  /\ UNCHANGED <<heapVars, registryVars, buffer>>

DecodeSucceeds(t) ==
  /\ Goto(t, "d_decode", "d_alloc")
  /\ slot[t] # NULL
  /\ \E i \in Images : img' = [img EXCEPT ![t] = i]
  /\ UNCHANGED <<heapVars, registryVars, buffer, slot, ptr, ret>>

\* A size that overflows, or malloc returning null.
AllocFails(t) ==
  /\ pc[t] = "d_alloc"
  /\ Return(t, "OutOfMemory")
  /\ UNCHANGED <<heapVars, registryVars, buffer>>

Alloc(t) ==
  /\ Goto(t, "d_alloc", "d_copy")
  /\ \E a \in Addrs :
       /\ pixel_buffer_alloc(a)
       /\ ptr' = [ptr EXCEPT ![t] = a]
  /\ UNCHANGED <<registryVars, buffer, slot, img, ret>>

Copy(t) ==
  /\ Goto(t, "d_copy", "d_lock")
  /\ content' = [content EXCEPT ![ptr[t]] = img[t]]
  /\ UNCHANGED <<live, registryVars, buffer, slot, ptr, img, ret>>

\* A poisoned lock is acquired all the same and dropped with the error.
RegisterLock(t) ==
  /\ lock = NULL
  /\ \/ /\ ~poisoned
        /\ Goto(t, "d_lock", "d_register")
        /\ lock' = t
     \/ /\ poisoned
        /\ Goto(t, "d_lock", "d_undo")
        /\ UNCHANGED lock
  /\ UNCHANGED <<heapVars, registry, poisoned, buffer, slot, ptr, img, ret>>

Register(t) ==
  /\ \/ /\ ptr[t] \notin registry
        /\ Goto(t, "d_register", "d_publish")
        /\ registry' = registry \cup {ptr[t]}
     \/ /\ ptr[t] \in registry
        /\ Goto(t, "d_register", "d_undo")
        /\ UNCHANGED registry
  /\ lock' = NULL
  /\ UNCHANGED <<heapVars, poisoned, buffer, slot, ptr, img, ret>>

\* The unwinding guard poisons the mutex; catch_unwind turns it to Internal.
RegisterPanics(t) ==
  /\ MayPanic
  /\ pc[t] = "d_register"
  /\ ptr[t] \notin registry
  /\ poisoned' = TRUE
  /\ lock' = NULL
  /\ Return(t, "Internal")
  /\ UNCHANGED <<heapVars, registry, buffer>>

\* Registration failed: free the buffer again.
Undo(t) ==
  /\ pc[t] = "d_undo"
  /\ pixel_buffer_free(ptr[t])
  /\ Return(t, "Internal")
  /\ UNCHANGED <<content, registryVars, buffer>>

Publish(t) ==
  /\ pc[t] = "d_publish"
  /\ buffer' = [buffer EXCEPT ![slot[t]] = [data |-> ptr[t], dims |-> img[t]]]
  /\ Return(t, "Ok")
  /\ UNCHANGED <<heapVars, registryVars>>

(***************************************************************************)
(* codec_free_pixel_buffer.                                                *)
(***************************************************************************)
FreeNothing(t) ==
  /\ pc[t] = "f_load"
  /\ slot[t] = NULL
  /\ Return(t, NULL)
  /\ UNCHANGED <<heapVars, registryVars, buffer>>

LoadPointer(t) ==
  /\ slot[t] # NULL
  /\ Goto(t, "f_load", "f_clear")
  /\ ptr' = [ptr EXCEPT ![t] = buffer[slot[t]].data]
  /\ UNCHANGED <<heapVars, registryVars, buffer, slot, img, ret>>

ClearStruct(t) ==
  /\ pc[t] = "f_clear"
  /\ buffer' = [buffer EXCEPT ![slot[t]] = NullBuffer]
  /\ \/ /\ ptr[t] = NULL
        /\ Return(t, NULL)
     \/ /\ ptr[t] # NULL
        /\ Goto(t, "f_clear", "f_lock")
        /\ UNCHANGED <<slot, ptr, img, ret>>
  /\ UNCHANGED <<heapVars, registryVars>>

UnregisterLock(t) ==
  /\ pc[t] = "f_lock"
  /\ lock = NULL
  /\ \/ /\ ~poisoned
        /\ Goto(t, "f_lock", "f_unregister")
        /\ lock' = t
        /\ UNCHANGED <<slot, ptr, img, ret>>
     \/ /\ poisoned
        /\ Return(t, NULL)
        /\ UNCHANGED lock
  /\ UNCHANGED <<heapVars, registry, poisoned, buffer>>

\* An unknown pointer is not freed.
Unregister(t) ==
  /\ pc[t] = "f_unregister"
  /\ registry' = registry \ {ptr[t]}
  /\ \/ /\ ptr[t] \in registry
        /\ Goto(t, "f_unregister", "f_free")
        /\ UNCHANGED <<slot, ptr, img, ret>>
     \/ /\ ptr[t] \notin registry
        /\ Return(t, NULL)
  /\ lock' = NULL
  /\ UNCHANGED <<heapVars, poisoned, buffer>>

Free(t) ==
  /\ pc[t] = "f_free"
  /\ pixel_buffer_free(ptr[t])
  /\ Return(t, NULL)
  /\ UNCHANGED <<content, registryVars, buffer>>

-----------------------------------------------------------------------------
DecodeStep(t) ==
  \/ DecodeFails(t) \/ DecodeSucceeds(t)
  \/ AllocFails(t) \/ Alloc(t) \/ Copy(t)
  \/ RegisterLock(t) \/ Register(t) \/ RegisterPanics(t) \/ Undo(t)
  \/ Publish(t)

FreeStep(t) ==
  \/ FreeNothing(t) \/ LoadPointer(t) \/ ClearStruct(t)
  \/ UnregisterLock(t) \/ Unregister(t) \/ Free(t)

PluginStep(t) == DecodeStep(t) \/ FreeStep(t)

HostCall(t) ==
  \E s \in Slots \cup {NULL} : CallDecode(t, s) \/ CallFree(t, s)

Next ==
  \/ \E t \in Threads : HostCall(t) \/ PluginStep(t)
  \/ \E s \in Slots, b \in PixelBuffer : HostStore(s, b)

Spec == Init /\ [][Next]_vars

\* A thread inside the plugin keeps running; the host need not call at all.
FairSpec == Spec /\ \A t \in Threads : WF_vars(PluginStep(t))

-----------------------------------------------------------------------------
(***************************************************************************)
(* Properties.                                                             *)
(***************************************************************************)

\* Points at which the thread alone is responsible for its data_ptr: it will
\* register the buffer or free it.
ClaimPoints == {"d_copy", "d_lock", "d_register", "d_undo", "f_free"}
Claims(t) == pc[t] \in ClaimPoints
Claimed == {ptr[t] : t \in {u \in Threads : Claims(u)}}

\* No write after free and no double free: a thread that is about to write
\* through its data_ptr or to hand it to libc::free (decode.rs:109, 118, 182)
\* holds an allocated address that no other thread is about to write or free
\* and that the registry no longer lists, whatever the host passes.
OwnedAccess ==
  \A t \in Threads : Claims(t) =>
    /\ ptr[t] \in live \ registry
    /\ \A u \in Threads \ {t} : Claims(u) => ptr[u] # ptr[t]

\* Every buffer the registry lists is allocated and fully written: what the
\* registry vouches for (buffer_registry.rs:36-41) is never dangling.
RegisteredIsUsable ==
  \A a \in registry : a \in live /\ content[a] # NULL

\* A decode gives up its buffer only because the mutex is poisoned: the
\* InvalidArg branch of register (buffer_registry.rs:71-73) is unreachable
\* although malloc reuses addresses, because a pointer leaves the map before
\* it goes back to libc::free.
UndoneOnlyWhenPoisoned ==
  \A t \in Threads : pc[t] = "d_undo" => poisoned

\* Nothing leaks but the buffer of a panicking registration: an allocated
\* buffer is registered or some call still answers for it, except for at most
\* one buffer, lost when the mutex was poisoned.
Orphans == live \ (registry \cup Claimed)
AtMostOneOrphan ==
  \A a, b \in Orphans : poisoned /\ a = b

\* No step writes the bytes of a buffer that stays registered: the pixels the
\* host was given do not change under it.
RegisteredPixelsStable ==
  [][\A a \in registry \cap registry' : content'[a] = content[a]]_vars

\* Once the mutex is poisoned no registered buffer is ever freed, and none is
\* added: free becomes a silent no-op (buffer_registry.rs:92-93).
PoisonFreezesRegistry ==
  [][poisoned => registry' = registry /\ registry \subseteq live']_vars

\* If the host stops making calls, every call it made returns: no thread waits
\* for the registry's lock forever, poisoned or not.
NewCall == \E t \in Threads : HostCall(t)
CallsReturn ==
  <>[][~NewCall]_vars => <>[](\A t \in Threads : pc[t] = "idle")
=============================================================================
