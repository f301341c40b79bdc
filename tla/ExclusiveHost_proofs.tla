------------------------ MODULE ExclusiveHost_proofs ------------------------
(***************************************************************************)
(* Proofs about ExclusiveHost, for any threads, structs, addresses and     *)
(* images.  The argument is by ownership: outside the addresses the host   *)
(* kept copies of, every registered buffer has exactly one owner - a       *)
(* struct, a call that is about to publish or to unregister it, or nobody  *)
(* any more (`forgotten`).                                                 *)
(***************************************************************************)
EXTENDS ExclusiveHost, PixelBufferLifecycle_proofs

\* The call holds the only pointer to a registered buffer.
Carries(t) == pc[t] \in {"d_publish", "f_lock", "f_unregister"}

\* A careful host keeps no copies.
StaleOnlyIfCareless == ~DoubleFrees => stale = {}

\* A struct is an argument of one call at a time.
OneCallPerStruct ==
  \A t, u \in Threads :
    t # u /\ pc[t] # "idle" /\ pc[u] # "idle" /\ slot[t] # NULL => slot[t] # slot[u]

\* A call that frees a struct has taken the struct's image from the host, and
\* reads the pointer the struct holds.
FreeingCalls ==
  \A t \in Threads :
    /\ pc[t] \in FreePoints /\ slot[t] # NULL => granted[slot[t]] = NULL
    /\ pc[t] \in FreePoints \ {"f_load"} => slot[t] \in Slots
    /\ pc[t] = "f_clear" => ptr[t] = buffer[slot[t]].data
    /\ pc[t] \in {"f_lock", "f_unregister"} => ptr[t] \in Addrs

\* A pointer in a struct is the host's, a call's that frees it, or stale.
PointersOwned ==
  \A s \in Slots :
    \/ granted[s] # NULL
    \/ buffer[s].data \in stale \cup {NULL}
    \/ \E t \in Threads : pc[t] \in {"f_load", "f_clear"} /\ slot[t] = s

\* What is owned is registered.
OwnedRegistered ==
  /\ \A s \in Slots : buffer[s].data \in registry \cup stale \cup {NULL}
  /\ \A s \in Slots : granted[s] # NULL => buffer[s].data # NULL
  /\ \A t \in Threads : Carries(t) => ptr[t] \in registry \cup stale
  /\ forgotten \subseteq registry \cup stale

\* No registered buffer has two owners.
OneOwner ==
  /\ \A r, s \in Slots :
       r # s /\ buffer[r].data = buffer[s].data => buffer[r].data \in stale \cup {NULL}
  /\ \A t, u \in Threads :
       t # u /\ Carries(t) /\ Carries(u) /\ ptr[t] = ptr[u] => ptr[t] \in stale
  /\ \A s \in Slots, t \in Threads :
       Carries(t) /\ buffer[s].data = ptr[t] => ptr[t] \in stale
  /\ \A s \in Slots : buffer[s].data \in forgotten => buffer[s].data \in stale
  /\ \A t \in Threads : Carries(t) /\ ptr[t] \in forgotten => ptr[t] \in stale

\* Unless a panic cut a call short, every registered buffer has an owner.
RegisteredOwned ==
  ~poisoned => \A a \in registry \ stale :
    \/ a \in forgotten
    \/ \E s \in Slots : buffer[s].data = a
    \/ \E t \in Threads : Carries(t) /\ ptr[t] = a

\* The pixels are those of the image the call decoded, or the host was told of.
PixelsMatch ==
  /\ \A t \in Threads : pc[t] \in {"d_lock", "d_register"} => content[ptr[t]] = img[t]
  /\ \A t \in Threads : pc[t] = "d_publish" /\ ptr[t] \notin stale => content[ptr[t]] = img[t]
  /\ \A s \in Slots : granted[s] # NULL =>
       /\ buffer[s].dims = granted[s]
       /\ buffer[s].data \notin stale => content[buffer[s].data] = granted[s]

HInv ==
  /\ HostTypeOK
  /\ IInv
  /\ StaleOnlyIfCareless
  /\ OneCallPerStruct
  /\ FreeingCalls
  /\ PointersOwned
  /\ OwnedRegistered
  /\ OneOwner
  /\ RegisteredOwned
  /\ PixelsMatch

USE DEF DecodePoints, FreePoints, LockPoints, ClaimPoints, Claims, Status,
  pixel_buffer_alloc, pixel_buffer_free, Carries

\* At the start there is nothing to own.
LEMMA HostInitInv == HostInit => HInv
<1> SUFFICES ASSUME HostInit PROVE HInv
  OBVIOUS
<1> USE DEF HostInit, Init, NullBuffer
<1>1. IInv
  BY InitInv
<1>2. HostTypeOK
  BY <1>1 DEF IInv, HostTypeOK
<1>3. StaleOnlyIfCareless /\ OneCallPerStruct /\ FreeingCalls /\ PixelsMatch
  BY DEF StaleOnlyIfCareless, OneCallPerStruct, FreeingCalls, PixelsMatch
<1>4. PointersOwned /\ OwnedRegistered /\ OneOwner /\ RegisteredOwned
  BY DEF PointersOwned, OwnedRegistered, OneOwner, RegisteredOwned
<1> QED
  BY <1>1, <1>2, <1>3, <1>4 DEF HInv

\* A step of the host and the plugin is a step of the plugin under any host.
LEMMA HostStepIsStep == HostTypeOK /\ HostNext => Next
<1> SUFFICES ASSUME HostTypeOK, HostNext PROVE Next
  OBVIOUS
<1>1. ASSUME NEW s \in Slots, RestoreCopy(s)
      PROVE  Next
  <2>1. PICK a \in stale : HostStore(s, [data |-> a, dims |-> NULL])
    BY <1>1 DEF RestoreCopy
  <2>2. [data |-> a, dims |-> NULL] \in PixelBuffer
    BY <2>1 DEF HostTypeOK, PixelBuffer
  <2> QED
    BY <2>1, <2>2 DEF Next
<1>2. ASSUME NEW t \in Threads,
             Run(t) \/ \E s \in Slots \cup {NULL} : BeginDecode(t, s) \/ BeginFree(t, s)
      PROVE  Next
  BY <1>2 DEF Next, HostCall, Run, BeginDecode, BeginFree
<1> QED
  BY <1>1, <1>2 DEF HostNext

\* The host's own variables keep their types.
LEMMA HostTypeInv == HInv /\ [HostNext]_allVars => HostTypeOK'
<1> SUFFICES ASSUME HInv, [HostNext]_allVars PROVE HostTypeOK'
  OBVIOUS
<1> USE DEF HInv, HostTypeOK, IInv
<1>1. TypeOK'
  BY HostStepIsStep, TypeInv DEF allVars, vars
<1>2. CASE UNCHANGED allVars
  BY <1>1, <1>2 DEF allVars, vars
<1>3. ASSUME NEW s \in Slots, RestoreCopy(s)
      PROVE  HostTypeOK'
  BY <1>1, <1>3 DEF RestoreCopy, hostVars
<1>4. ASSUME NEW t \in Threads, NEW s \in Slots \cup {NULL}, BeginDecode(t, s)
      PROVE  HostTypeOK'
  BY <1>1, <1>4 DEF BeginDecode, hostVars
<1>5. ASSUME NEW t \in Threads, NEW s \in Slots \cup {NULL}, BeginFree(t, s)
      PROVE  HostTypeOK'
  <2>1. s # NULL => buffer[s].data \in Addrs \cup {NULL}
    BY DEF TypeOK, PixelBuffer
  <2> QED
    BY <1>1, <1>5, <2>1 DEF BeginFree
<1>6. ASSUME NEW t \in Threads, Run(t)
      PROVE  HostTypeOK'
  <2>1. \A s \in Publishing(t) : granted[s] # NULL => buffer[s].data \in Addrs
    BY DEF TypeOK, PixelBuffer, OwnedRegistered, Publishing
  <2> QED
    BY <1>1, <1>6, <2>1 DEF Run, TypeOK, Publishing
<1> QED
  BY <1>2, <1>3, <1>4, <1>5, <1>6 DEF HostNext

\* Only a host that keeps copies has any.
LEMMA StaleInv == HInv /\ [HostNext]_allVars => StaleOnlyIfCareless'
<1> SUFFICES ASSUME HInv, [HostNext]_allVars PROVE StaleOnlyIfCareless'
  OBVIOUS
<1> USE NullAssumption DEF HInv, IInv, HostTypeOK, TypeOK, PixelBuffer, hostVars, StaleOnlyIfCareless
<1>1. CASE UNCHANGED allVars
  BY <1>1 DEF allVars, vars
<1>2. ASSUME NEW s \in Slots, RestoreCopy(s)
      PROVE  StaleOnlyIfCareless'
  BY <1>2 DEF RestoreCopy, HostStore, heapVars, registryVars, localVars, Busy
<1>3. ASSUME NEW t \in Threads, NEW s \in Slots \cup {NULL}, BeginDecode(t, s)
      PROVE  StaleOnlyIfCareless'
  BY <1>3 DEF BeginDecode, CallDecode, Goto, heapVars, registryVars, Busy
<1>4. ASSUME NEW t \in Threads, NEW s \in Slots \cup {NULL}, BeginFree(t, s)
      PROVE  StaleOnlyIfCareless'
  BY <1>4 DEF BeginFree, CallFree, Goto, heapVars, registryVars, Busy
<1>5. ASSUME NEW t \in Threads, Run(t)
      PROVE  StaleOnlyIfCareless'
  <2> USE <1>5 DEF Run, Publishing, Goto, Return, heapVars, registryVars
  <2>1. CASE DecodeFails(t) BY <2>1 DEF DecodeFails
  <2>2. CASE DecodeSucceeds(t) BY <2>2 DEF DecodeSucceeds
  <2>3. CASE AllocFails(t) BY <2>3 DEF AllocFails
  <2>4. CASE Alloc(t) BY <2>4 DEF Alloc
  <2>5. CASE Copy(t) BY <2>5 DEF Copy
  <2>6. CASE RegisterLock(t) BY <2>6 DEF RegisterLock
  <2>7. CASE Register(t) BY <2>7 DEF Register
  <2>8. CASE RegisterPanics(t) BY <2>8 DEF RegisterPanics
  <2>9. CASE Undo(t) BY <2>9 DEF Undo
  <2>10. CASE Publish(t) BY <2>10 DEF Publish
  <2>11. CASE FreeNothing(t) BY <2>11 DEF FreeNothing
  <2>12. CASE LoadPointer(t) BY <2>12 DEF LoadPointer
  <2>13. CASE ClearStruct(t) BY <2>13 DEF ClearStruct
  <2>14. CASE UnregisterLock(t) BY <2>14 DEF UnregisterLock
  <2>15. CASE Unregister(t) BY <2>15 DEF Unregister
  <2>16. CASE Free(t) BY <2>16 DEF Free
  <2> QED
    BY <2>1, <2>2, <2>3, <2>4, <2>5, <2>6, <2>7, <2>8, <2>9, <2>10,
       <2>11, <2>12, <2>13, <2>14, <2>15, <2>16 DEF PluginStep, DecodeStep, FreeStep
<1> QED
  BY <1>1, <1>2, <1>3, <1>4, <1>5 DEF HostNext

\* A call begins with a struct no other call uses.
LEMMA OneCallInv == HInv /\ [HostNext]_allVars => OneCallPerStruct'
<1> SUFFICES ASSUME HInv, [HostNext]_allVars PROVE OneCallPerStruct'
  OBVIOUS
<1> USE NullAssumption DEF HInv, IInv, HostTypeOK, TypeOK, PixelBuffer, hostVars, OneCallPerStruct
<1>1. CASE UNCHANGED allVars
  BY <1>1 DEF allVars, vars
<1>2. ASSUME NEW s \in Slots, RestoreCopy(s)
      PROVE  OneCallPerStruct'
  BY <1>2 DEF RestoreCopy, HostStore, heapVars, registryVars, localVars, Busy
<1>3. ASSUME NEW t \in Threads, NEW s \in Slots \cup {NULL}, BeginDecode(t, s)
      PROVE  OneCallPerStruct'
  BY <1>3 DEF BeginDecode, CallDecode, Goto, heapVars, registryVars, Busy
<1>4. ASSUME NEW t \in Threads, NEW s \in Slots \cup {NULL}, BeginFree(t, s)
      PROVE  OneCallPerStruct'
  BY <1>4 DEF BeginFree, CallFree, Goto, heapVars, registryVars, Busy
<1>5. ASSUME NEW t \in Threads, Run(t)
      PROVE  OneCallPerStruct'
  <2> USE <1>5 DEF Run, Publishing, Goto, Return, heapVars, registryVars
  <2>1. CASE DecodeFails(t) BY <2>1 DEF DecodeFails
  <2>2. CASE DecodeSucceeds(t) BY <2>2 DEF DecodeSucceeds
  <2>3. CASE AllocFails(t) BY <2>3 DEF AllocFails
  <2>4. CASE Alloc(t) BY <2>4 DEF Alloc
  <2>5. CASE Copy(t) BY <2>5 DEF Copy
  <2>6. CASE RegisterLock(t) BY <2>6 DEF RegisterLock
  <2>7. CASE Register(t) BY <2>7 DEF Register
  <2>8. CASE RegisterPanics(t) BY <2>8 DEF RegisterPanics
  <2>9. CASE Undo(t) BY <2>9 DEF Undo
  <2>10. CASE Publish(t) BY <2>10 DEF Publish
  <2>11. CASE FreeNothing(t) BY <2>11 DEF FreeNothing
  <2>12. CASE LoadPointer(t) BY <2>12 DEF LoadPointer
  <2>13. CASE ClearStruct(t) BY <2>13 DEF ClearStruct
  <2>14. CASE UnregisterLock(t) BY <2>14 DEF UnregisterLock
  <2>15. CASE Unregister(t) BY <2>15 DEF Unregister
  <2>16. CASE Free(t) BY <2>16 DEF Free
  <2> QED
    BY <2>1, <2>2, <2>3, <2>4, <2>5, <2>6, <2>7, <2>8, <2>9, <2>10,
       <2>11, <2>12, <2>13, <2>14, <2>15, <2>16 DEF PluginStep, DecodeStep, FreeStep
<1> QED
  BY <1>1, <1>2, <1>3, <1>4, <1>5 DEF HostNext

\* Nobody else touches a struct that is being freed.
LEMMA FreeingInv == HInv /\ [HostNext]_allVars => FreeingCalls'
<1> SUFFICES ASSUME HInv, [HostNext]_allVars PROVE FreeingCalls'
  OBVIOUS
<1> USE NullAssumption DEF HInv, IInv, HostTypeOK, TypeOK, PixelBuffer, hostVars, OneCallPerStruct, FreeingCalls
<1>1. CASE UNCHANGED allVars
  BY <1>1 DEF allVars, vars
<1>2. ASSUME NEW s \in Slots, RestoreCopy(s)
      PROVE  FreeingCalls'
  BY <1>2 DEF RestoreCopy, HostStore, heapVars, registryVars, localVars, Busy
<1>3. ASSUME NEW t \in Threads, NEW s \in Slots \cup {NULL}, BeginDecode(t, s)
      PROVE  FreeingCalls'
  BY <1>3 DEF BeginDecode, CallDecode, Goto, heapVars, registryVars, Busy
<1>4. ASSUME NEW t \in Threads, NEW s \in Slots \cup {NULL}, BeginFree(t, s)
      PROVE  FreeingCalls'
  BY <1>4 DEF BeginFree, CallFree, Goto, heapVars, registryVars, Busy
<1>5. ASSUME NEW t \in Threads, Run(t)
      PROVE  FreeingCalls'
  <2> USE <1>5 DEF Run, Publishing, Goto, Return, heapVars, registryVars
  <2>1. CASE DecodeFails(t) BY <2>1 DEF DecodeFails
  <2>2. CASE DecodeSucceeds(t) BY <2>2 DEF DecodeSucceeds
  <2>3. CASE AllocFails(t) BY <2>3 DEF AllocFails
  <2>4. CASE Alloc(t) BY <2>4 DEF Alloc
  <2>5. CASE Copy(t) BY <2>5 DEF Copy
  <2>6. CASE RegisterLock(t) BY <2>6 DEF RegisterLock
  <2>7. CASE Register(t) BY <2>7 DEF Register
  <2>8. CASE RegisterPanics(t) BY <2>8 DEF RegisterPanics
  <2>9. CASE Undo(t) BY <2>9 DEF Undo
  <2>10. CASE Publish(t) BY <2>10 DEF Publish
  <2>11. CASE FreeNothing(t) BY <2>11 DEF FreeNothing
  <2>12. CASE LoadPointer(t) BY <2>12 DEF LoadPointer
  <2>13. CASE ClearStruct(t) BY <2>13 DEF ClearStruct, NullBuffer
  <2>14. CASE UnregisterLock(t) BY <2>14 DEF UnregisterLock
  <2>15. CASE Unregister(t) BY <2>15 DEF Unregister
  <2>16. CASE Free(t) BY <2>16 DEF Free
  <2> QED
    BY <2>1, <2>2, <2>3, <2>4, <2>5, <2>6, <2>7, <2>8, <2>9, <2>10,
       <2>11, <2>12, <2>13, <2>14, <2>15, <2>16 DEF PluginStep, DecodeStep, FreeStep
<1> QED
  BY <1>1, <1>2, <1>3, <1>4, <1>5 DEF HostNext

\* A free clears the pointer it took, a decode's pointer is the host's.
LEMMA PointersInv == HInv /\ [HostNext]_allVars => PointersOwned'
<1> SUFFICES ASSUME HInv, [HostNext]_allVars PROVE PointersOwned'
  OBVIOUS
<1> USE NullAssumption DEF HInv, IInv, HostTypeOK, TypeOK, PixelBuffer, hostVars, OneCallPerStruct, FreeingCalls, PointersOwned, DecodedCall
<1>1. CASE UNCHANGED allVars
  BY <1>1 DEF allVars, vars
<1>2. ASSUME NEW s \in Slots, RestoreCopy(s)
      PROVE  PointersOwned'
  BY <1>2 DEF RestoreCopy, HostStore, heapVars, registryVars, localVars, Busy
<1>3. ASSUME NEW t \in Threads, NEW s \in Slots \cup {NULL}, BeginDecode(t, s)
      PROVE  PointersOwned'
  BY <1>3 DEF BeginDecode, CallDecode, Goto, heapVars, registryVars, Busy
<1>4. ASSUME NEW t \in Threads, NEW s \in Slots \cup {NULL}, BeginFree(t, s)
      PROVE  PointersOwned'
  BY <1>4 DEF BeginFree, CallFree, Goto, heapVars, registryVars, Busy
<1>5. ASSUME NEW t \in Threads, Run(t)
      PROVE  PointersOwned'
  <2> USE <1>5 DEF Run, Publishing, Goto, Return, heapVars, registryVars
  <2>1. CASE DecodeFails(t) BY <2>1 DEF DecodeFails
  <2>2. CASE DecodeSucceeds(t) BY <2>2 DEF DecodeSucceeds
  <2>3. CASE AllocFails(t) BY <2>3 DEF AllocFails
  <2>4. CASE Alloc(t) BY <2>4 DEF Alloc
  <2>5. CASE Copy(t) BY <2>5 DEF Copy
  <2>6. CASE RegisterLock(t) BY <2>6 DEF RegisterLock
  <2>7. CASE Register(t) BY <2>7 DEF Register
  <2>8. CASE RegisterPanics(t) BY <2>8 DEF RegisterPanics
  <2>9. CASE Undo(t) BY <2>9 DEF Undo
  <2>10. CASE Publish(t) BY <2>10 DEF Publish
  <2>11. CASE FreeNothing(t) BY <2>11 DEF FreeNothing
  <2>12. CASE LoadPointer(t) BY <2>12 DEF LoadPointer
  <2>13. CASE ClearStruct(t) BY <2>13 DEF ClearStruct, NullBuffer
  <2>14. CASE UnregisterLock(t) BY <2>14 DEF UnregisterLock
  <2>15. CASE Unregister(t) BY <2>15 DEF Unregister
  <2>16. CASE Free(t) BY <2>16 DEF Free
  <2> QED
    BY <2>1, <2>2, <2>3, <2>4, <2>5, <2>6, <2>7, <2>8, <2>9, <2>10,
       <2>11, <2>12, <2>13, <2>14, <2>15, <2>16 DEF PluginStep, DecodeStep, FreeStep
<1> QED
  BY <1>1, <1>2, <1>3, <1>4, <1>5 DEF HostNext

\* Only its owner unregisters a buffer.
LEMMA OwnedRegisteredInv == HInv /\ [HostNext]_allVars => OwnedRegistered'
<1> SUFFICES ASSUME HInv, [HostNext]_allVars PROVE OwnedRegistered'
  OBVIOUS
<1> USE NullAssumption DEF HInv, IInv, HostTypeOK, TypeOK, PixelBuffer, hostVars, FreeingCalls, DecodedCall, OwnedAccess, OwnedRegistered, OneOwner
<1>1. CASE UNCHANGED allVars
  BY <1>1 DEF allVars, vars
<1>2. ASSUME NEW s \in Slots, RestoreCopy(s)
      PROVE  OwnedRegistered'
  BY <1>2 DEF RestoreCopy, HostStore, heapVars, registryVars, localVars, Busy
<1>3. ASSUME NEW t \in Threads, NEW s \in Slots \cup {NULL}, BeginDecode(t, s)
      PROVE  OwnedRegistered'
  BY <1>3 DEF BeginDecode, CallDecode, Goto, heapVars, registryVars, Busy
<1>4. ASSUME NEW t \in Threads, NEW s \in Slots \cup {NULL}, BeginFree(t, s)
      PROVE  OwnedRegistered'
  BY <1>4 DEF BeginFree, CallFree, Goto, heapVars, registryVars, Busy
<1>5. ASSUME NEW t \in Threads, Run(t)
      PROVE  OwnedRegistered'
  <2> USE <1>5 DEF Run, Publishing, Goto, Return, heapVars, registryVars
  <2>1. CASE DecodeFails(t) BY <2>1 DEF DecodeFails
  <2>2. CASE DecodeSucceeds(t) BY <2>2 DEF DecodeSucceeds
  <2>3. CASE AllocFails(t) BY <2>3 DEF AllocFails
  <2>4. CASE Alloc(t) BY <2>4 DEF Alloc
  <2>5. CASE Copy(t) BY <2>5 DEF Copy
  <2>6. CASE RegisterLock(t) BY <2>6 DEF RegisterLock
  <2>7. CASE Register(t) BY <2>7 DEF Register
  <2>8. CASE RegisterPanics(t) BY <2>8 DEF RegisterPanics
  <2>9. CASE Undo(t) BY <2>9 DEF Undo
  <2>10. CASE Publish(t) BY <2>10 DEF Publish
  <2>11. CASE FreeNothing(t) BY <2>11 DEF FreeNothing
  <2>12. CASE LoadPointer(t) BY <2>12 DEF LoadPointer
  <2>13. CASE ClearStruct(t) BY <2>13 DEF ClearStruct, NullBuffer
  <2>14. CASE UnregisterLock(t) BY <2>14 DEF UnregisterLock
  <2>15. CASE Unregister(t) BY <2>15 DEF Unregister
  <2>16. CASE Free(t) BY <2>16 DEF Free
  <2> QED
    BY <2>1, <2>2, <2>3, <2>4, <2>5, <2>6, <2>7, <2>8, <2>9, <2>10,
       <2>11, <2>12, <2>13, <2>14, <2>15, <2>16 DEF PluginStep, DecodeStep, FreeStep
<1> QED
  BY <1>1, <1>2, <1>3, <1>4, <1>5 DEF HostNext

\* A step that hands nothing over creates no second owner.
LEMMA FewerOwners ==
  ASSUME OneOwner, buffer' = buffer, forgotten' = forgotten, stale' = stale,
         \A t \in Threads : Carries(t)' => Carries(t) /\ ptr'[t] = ptr[t]
  PROVE  OneOwner'
BY DEF OneOwner

\* Ownership is handed over, never shared.
LEMMA OneOwnerInv == HInv /\ [HostNext]_allVars => OneOwner'
<1> SUFFICES ASSUME HInv, [HostNext]_allVars PROVE OneOwner'
  OBVIOUS
<1> USE NullAssumption DEF HInv, IInv, HostTypeOK, TypeOK, PixelBuffer, hostVars, OneCallPerStruct, FreeingCalls, DecodedCall, OwnedAccess, OwnedRegistered, OneOwner
<1>1. CASE UNCHANGED allVars
  BY <1>1 DEF allVars, vars
<1>2. ASSUME NEW s \in Slots, RestoreCopy(s)
      PROVE  OneOwner'
  BY <1>2 DEF RestoreCopy, HostStore, heapVars, registryVars, localVars, Busy
<1>3. ASSUME NEW t \in Threads, NEW s \in Slots \cup {NULL}, BeginDecode(t, s)
      PROVE  OneOwner'
  BY <1>3 DEF BeginDecode, CallDecode, Goto, heapVars, registryVars, Busy
<1>4. ASSUME NEW t \in Threads, NEW s \in Slots \cup {NULL}, BeginFree(t, s)
      PROVE  OneOwner'
  BY <1>4 DEF BeginFree, CallFree, Goto, heapVars, registryVars, Busy
<1>5. ASSUME NEW t \in Threads, Run(t)
      PROVE  OneOwner'
  <2> USE <1>5 DEF Run, Publishing, Goto, Return, heapVars, registryVars
  <2>1. CASE DecodeFails(t) BY <2>1 DEF DecodeFails
  <2>2. CASE DecodeSucceeds(t) BY <2>2 DEF DecodeSucceeds
  <2>3. CASE AllocFails(t) BY <2>3 DEF AllocFails
  <2>4. CASE Alloc(t) BY <2>4 DEF Alloc
  <2>5. CASE Copy(t) BY <2>5 DEF Copy
  <2>6. CASE RegisterLock(t)
    <3>1. buffer' = buffer /\ forgotten' = forgotten
      BY <2>6 DEF RegisterLock
    <3>2. \A u \in Threads : Carries(u)' => Carries(u) /\ ptr'[u] = ptr[u]
      BY <2>6 DEF RegisterLock
    <3> QED BY <3>1, <3>2, FewerOwners
  <2>7. CASE Register(t) BY <2>7 DEF Register
  <2>8. CASE RegisterPanics(t) BY <2>8 DEF RegisterPanics
  <2>9. CASE Undo(t) BY <2>9 DEF Undo
  <2>10. CASE Publish(t) BY <2>10 DEF Publish
  <2>11. CASE FreeNothing(t) BY <2>11 DEF FreeNothing
  <2>12. CASE LoadPointer(t) BY <2>12 DEF LoadPointer
  <2>13. CASE ClearStruct(t) BY <2>13 DEF ClearStruct, NullBuffer
  <2>14. CASE UnregisterLock(t) BY <2>14 DEF UnregisterLock
  <2>15. CASE Unregister(t)
    <3>1. buffer' = buffer /\ forgotten' = forgotten
      BY <2>15 DEF Unregister
    <3>2. \A u \in Threads : Carries(u)' => Carries(u) /\ ptr'[u] = ptr[u]
      BY <2>15 DEF Unregister
    <3> QED BY <3>1, <3>2, FewerOwners
  <2>16. CASE Free(t) BY <2>16 DEF Free
  <2> QED
    BY <2>1, <2>2, <2>3, <2>4, <2>5, <2>6, <2>7, <2>8, <2>9, <2>10,
       <2>11, <2>12, <2>13, <2>14, <2>15, <2>16 DEF PluginStep, DecodeStep, FreeStep
<1> QED
  BY <1>1, <1>2, <1>3, <1>4, <1>5 DEF HostNext

\* A buffer without owner is unregistered, or the mutex is poisoned.
LEMMA RegisteredOwnedInv == HInv /\ [HostNext]_allVars => RegisteredOwned'
<1> SUFFICES ASSUME HInv, [HostNext]_allVars PROVE RegisteredOwned'
  OBVIOUS
<1> USE NullAssumption DEF HInv, IInv, HostTypeOK, TypeOK, PixelBuffer, hostVars, OneCallPerStruct, FreeingCalls, DecodedCall, LockDiscipline, PointersOwned, RegisteredOwned
<1>1. CASE UNCHANGED allVars
  BY <1>1 DEF allVars, vars
<1>2. ASSUME NEW s \in Slots, RestoreCopy(s)
      PROVE  RegisteredOwned'
  BY <1>2 DEF RestoreCopy, HostStore, heapVars, registryVars, localVars, Busy
<1>3. ASSUME NEW t \in Threads, NEW s \in Slots \cup {NULL}, BeginDecode(t, s)
      PROVE  RegisteredOwned'
  BY <1>3 DEF BeginDecode, CallDecode, Goto, heapVars, registryVars, Busy
<1>4. ASSUME NEW t \in Threads, NEW s \in Slots \cup {NULL}, BeginFree(t, s)
      PROVE  RegisteredOwned'
  BY <1>4 DEF BeginFree, CallFree, Goto, heapVars, registryVars, Busy
<1>5. ASSUME NEW t \in Threads, Run(t)
      PROVE  RegisteredOwned'
  <2> USE <1>5 DEF Run, Publishing, Goto, Return, heapVars, registryVars
  <2>1. CASE DecodeFails(t) BY <2>1 DEF DecodeFails
  <2>2. CASE DecodeSucceeds(t) BY <2>2 DEF DecodeSucceeds
  <2>3. CASE AllocFails(t) BY <2>3 DEF AllocFails
  <2>4. CASE Alloc(t) BY <2>4 DEF Alloc
  <2>5. CASE Copy(t) BY <2>5 DEF Copy
  <2>6. CASE RegisterLock(t) BY <2>6 DEF RegisterLock
  <2>7. CASE Register(t) BY <2>7 DEF Register
  <2>8. CASE RegisterPanics(t) BY <2>8 DEF RegisterPanics
  <2>9. CASE Undo(t) BY <2>9 DEF Undo
  <2>10. CASE Publish(t)
    <3>1. slot[t] \in Slots /\ poisoned' = poisoned /\ registry' = registry
      BY <2>10 DEF Publish
    <3>2. \A r \in Slots \ {slot[t]} : buffer'[r] = buffer[r]
      BY <2>10, <3>1 DEF Publish
    <3>3. buffer'[slot[t]].data = ptr[t]
      BY <2>10, <3>1 DEF Publish
    <3>4. \A u \in Threads \ {t} : Carries(u) => Carries(u)' /\ ptr'[u] = ptr[u]
      BY <2>10 DEF Publish
    <3>5. buffer[slot[t]].data \in forgotten' \cup stale \cup {NULL}
      <4>1. CASE granted[slot[t]] # NULL
        BY <2>10, <3>1, <4>1 DEF Publish
      <4>2. CASE granted[slot[t]] = NULL
        <5>1. \A u \in Threads : ~(pc[u] \in {"f_load", "f_clear"} /\ slot[u] = slot[t])
          BY <2>10, <3>1 DEF Publish
        <5> QED BY <3>1, <4>2, <5>1
      <4> QED BY <4>1, <4>2
    <3>6. forgotten \subseteq forgotten' /\ stale' = stale
      OBVIOUS
    <3> QED BY <2>10, <3>1, <3>2, <3>3, <3>4, <3>5, <3>6 DEF Publish
  <2>11. CASE FreeNothing(t) BY <2>11 DEF FreeNothing
  <2>12. CASE LoadPointer(t) BY <2>12 DEF LoadPointer
  <2>13. CASE ClearStruct(t) BY <2>13 DEF ClearStruct, NullBuffer
  <2>14. CASE UnregisterLock(t) BY <2>14 DEF UnregisterLock
  <2>15. CASE Unregister(t) BY <2>15 DEF Unregister
  <2>16. CASE Free(t) BY <2>16 DEF Free
  <2> QED
    BY <2>1, <2>2, <2>3, <2>4, <2>5, <2>6, <2>7, <2>8, <2>9, <2>10,
       <2>11, <2>12, <2>13, <2>14, <2>15, <2>16 DEF PluginStep, DecodeStep, FreeStep
<1> QED
  BY <1>1, <1>2, <1>3, <1>4, <1>5 DEF HostNext

\* The only write goes to a buffer that is not registered.
LEMMA PixelsMatchInv == HInv /\ [HostNext]_allVars => PixelsMatch'
<1> SUFFICES ASSUME HInv, [HostNext]_allVars PROVE PixelsMatch'
  OBVIOUS
<1> USE NullAssumption DEF HInv, IInv, HostTypeOK, TypeOK, PixelBuffer, hostVars, FreeingCalls, DecodedCall, OwnedAccess, RegisteredIsUsable, OneCallPerStruct, OwnedRegistered, PixelsMatch
<1>1. CASE UNCHANGED allVars
  BY <1>1 DEF allVars, vars
<1>2. ASSUME NEW s \in Slots, RestoreCopy(s)
      PROVE  PixelsMatch'
  BY <1>2 DEF RestoreCopy, HostStore, heapVars, registryVars, localVars, Busy
<1>3. ASSUME NEW t \in Threads, NEW s \in Slots \cup {NULL}, BeginDecode(t, s)
      PROVE  PixelsMatch'
  BY <1>3 DEF BeginDecode, CallDecode, Goto, heapVars, registryVars, Busy
<1>4. ASSUME NEW t \in Threads, NEW s \in Slots \cup {NULL}, BeginFree(t, s)
      PROVE  PixelsMatch'
  BY <1>4 DEF BeginFree, CallFree, Goto, heapVars, registryVars, Busy
<1>5. ASSUME NEW t \in Threads, Run(t)
      PROVE  PixelsMatch'
  <2> USE <1>5 DEF Run, Publishing, Goto, Return, heapVars, registryVars
  <2>1. CASE DecodeFails(t) BY <2>1 DEF DecodeFails
  <2>2. CASE DecodeSucceeds(t) BY <2>2 DEF DecodeSucceeds
  <2>3. CASE AllocFails(t) BY <2>3 DEF AllocFails
  <2>4. CASE Alloc(t) BY <2>4 DEF Alloc
  <2>5. CASE Copy(t) BY <2>5 DEF Copy
  <2>6. CASE RegisterLock(t) BY <2>6 DEF RegisterLock
  <2>7. CASE Register(t) BY <2>7 DEF Register
  <2>8. CASE RegisterPanics(t) BY <2>8 DEF RegisterPanics
  <2>9. CASE Undo(t) BY <2>9 DEF Undo
  <2>10. CASE Publish(t) BY <2>10 DEF Publish
  <2>11. CASE FreeNothing(t) BY <2>11 DEF FreeNothing
  <2>12. CASE LoadPointer(t) BY <2>12 DEF LoadPointer
  <2>13. CASE ClearStruct(t) BY <2>13 DEF ClearStruct, NullBuffer
  <2>14. CASE UnregisterLock(t) BY <2>14 DEF UnregisterLock
  <2>15. CASE Unregister(t) BY <2>15 DEF Unregister
  <2>16. CASE Free(t) BY <2>16 DEF Free
  <2> QED
    BY <2>1, <2>2, <2>3, <2>4, <2>5, <2>6, <2>7, <2>8, <2>9, <2>10,
       <2>11, <2>12, <2>13, <2>14, <2>15, <2>16 DEF PluginStep, DecodeStep, FreeStep
<1> QED
  BY <1>1, <1>2, <1>3, <1>4, <1>5 DEF HostNext


\* Every step keeps the invariant.
LEMMA HostNextInv == HInv /\ [HostNext]_allVars => HInv'
<1> SUFFICES ASSUME HInv, [HostNext]_allVars PROVE HInv'
  OBVIOUS
<1>1. IInv'
  BY HostStepIsStep, NextInv DEF HInv, allVars, vars
<1> QED
  BY <1>1, HostTypeInv, StaleInv, OneCallInv, FreeingInv, PointersInv, OwnedRegisteredInv,
     OneOwnerInv, RegisteredOwnedInv, PixelsMatchInv DEF HInv

\* The invariant holds in every reachable state.
LEMMA HostInvariance == HostSpec => []HInv
<1>1. HostInit => HInv
  BY HostInitInv
<1>2. HInv /\ [HostNext]_allVars => HInv'
  BY HostNextInv
<1> QED
  BY <1>1, <1>2, PTL DEF HostSpec

\* Every variable keeps its type under a host that uses a struct in one call at
\* a time.
THEOREM HostTypeCorrect == HostSpec => []HostTypeOK
  BY HostInvariance, PTL DEF HInv

\* A host that frees copies of freed structs, or decodes into structs it has
\* not freed, harms only buffers at addresses it kept a copy of
\* (buffer_registry.rs:36-41, decode.rs:173-177).
THEOREM CarelessnessContained == HostSpec => []DamageContained
<1>1. HInv => DamageContained
  <2> SUFFICES ASSUME HInv, NEW s \in Slots, granted[s] # NULL, buffer[s].data \notin stale
               PROVE  /\ buffer[s].data \in registry \cap live
                      /\ content[buffer[s].data] = granted[s]
                      /\ buffer[s].dims = granted[s]
    BY DEF DamageContained
  <2>1. buffer[s].data \in registry
    BY DEF HInv, OwnedRegistered
  <2> QED
    BY <2>1 DEF HInv, IInv, RegisteredIsUsable, PixelsMatch
<1> QED
  BY <1>1, HostInvariance, PTL

\* While a host that keeps no copies holds an image, the image's buffer is
\* registered, allocated and unchanged (EXPLAINER.md:16).
THEOREM NoUseAfterFree == ASSUME ~DoubleFrees PROVE HostSpec => []HeldIntact
<1>1. HInv => HeldIntact
  <2> SUFFICES ASSUME HInv, NEW s \in Slots, granted[s] # NULL
               PROVE  /\ buffer[s].data \in registry \cap live
                      /\ content[buffer[s].data] = granted[s]
                      /\ buffer[s].dims = granted[s]
    BY DEF HeldIntact
  <2>1. stale = {} /\ buffer[s].data \in registry
    BY DEF HInv, StaleOnlyIfCareless, OwnedRegistered
  <2> QED
    BY <2>1 DEF HInv, IInv, RegisteredIsUsable, PixelsMatch
<1> QED
  BY <1>1, HostInvariance, PTL

\* No two images such a host holds share a buffer, whatever malloc reuses.
THEOREM NoSharing == ASSUME ~DoubleFrees PROVE HostSpec => []HeldDistinct
<1>1. HInv => HeldDistinct
  BY DEF HInv, StaleOnlyIfCareless, OwnedRegistered, OneOwner, HeldDistinct
<1> QED
  BY <1>1, HostInvariance, PTL

\* Between calls, the allocated buffers are those the host holds and those it
\* has forgotten: no call leaks, and nothing reclaims a forgotten buffer.
THEOREM NoLeak == HostSpec => []HeapBalances
<1>1. HInv => HeapBalances
  <2> SUFFICES ASSUME HInv, \A t \in Threads : pc[t] = "idle", ~poisoned
               PROVE  /\ registry = live
                      /\ live \ stale =
                           (forgotten \cup {buffer[s].data : s \in {r \in Slots : granted[r] # NULL}})
                             \ stale
    BY DEF HeapBalances
  <2>1. registry = live
    <3>1. Claimed = {}
      BY DEF Claimed
    <3>2. Orphans = {}
      BY DEF HInv, IInv, AtMostOneOrphan
    <3> QED
      BY <3>1, <3>2 DEF HInv, IInv, RegisteredIsUsable, Orphans
  <2>2. NULL \notin registry
    BY NullAssumption DEF HInv, HostTypeOK, TypeOK
  <2>3. ASSUME NEW a \in registry, a \notin stale
        PROVE  a \in forgotten \/ \E s \in Slots : granted[s] # NULL /\ buffer[s].data = a
    BY <2>2, <2>3 DEF HInv, RegisteredOwned, PointersOwned
  <2>4. ASSUME NEW a, a \notin stale,
               a \in forgotten \/ \E s \in Slots : granted[s] # NULL /\ buffer[s].data = a
        PROVE  a \in registry
    BY <2>4 DEF HInv, OwnedRegistered
  <2> QED
    BY <2>1, <2>3, <2>4
<1> QED
  BY <1>1, HostInvariance, PTL

-----------------------------------------------------------------------------
(***************************************************************************)
(* The refinement: with a careful host every step of the plugin is a step  *)
(* of BufferOwnership or leaves its variables alone.                       *)
(***************************************************************************)

\* A struct whose image was taken holds nothing once its pointer is cleared.
LEMMA HoldsNothing ==
  ASSUME HInv, stale = {}, NEW s \in Slots, granted[s] = NULL,
         \A t \in Threads : ~(pc[t] \in {"f_load", "f_clear"} /\ slot[t] = s)
  PROVE  Holds[s] = NULL
<1>1. buffer[s].data = NULL
  BY DEF HInv, PointersOwned
<1>2. NULL \notin registry
  BY NullAssumption DEF HInv, HostTypeOK, TypeOK
<1> QED
  BY <1>1, <1>2 DEF Holds

\* What the structs hold depends on the registered buffers they point at.
LEMMA HoldsSame ==
  ASSUME buffer' = buffer,
         \A s \in Slots : buffer[s].data \in registry <=> buffer[s].data \in registry',
         \A s \in Slots : buffer[s].data \in registry => content'[buffer[s].data] = content[buffer[s].data]
  PROVE  Holds' = Holds
BY DEF Holds

\* A call that goes on inside decode, or inside free, is the same call.
LEMMA CallsSame ==
  ASSUME HostTypeOK, NEW t \in Threads, slot' = slot,
         \/ pc[t] \in DecodePoints /\ pc'[t] \in DecodePoints
         \/ pc[t] \in FreePoints /\ pc'[t] \in FreePoints,
         \A u \in Threads \ {t} : pc'[u] = pc[u]
  PROVE  Calls' = Calls
BY DEF Calls

\* A call that returns is over, and the other calls go on.
LEMMA CallsEnd ==
  ASSUME HostTypeOK, NEW t \in Threads, NEW status, Return(t, status)
  PROVE  /\ Calls[t] # NULL => Calls' = [Calls EXCEPT ![t] = NULL]
         /\ ret' = [ret EXCEPT ![t] = status]
<1>1. pc' = [pc EXCEPT ![t] = "idle"] /\ slot' = [slot EXCEPT ![t] = NULL]
  BY DEF Return
<1>2. ASSUME NEW u \in Threads
      PROVE  Calls'[u] = [Calls EXCEPT ![t] = NULL][u]
  BY <1>1 DEF Calls, HostTypeOK, TypeOK
<1> QED
  BY <1>2 DEF Calls, Return

\* The abstract call of a thread inside the plugin.
LEMMA CallOf ==
  ASSUME HostTypeOK, NEW t \in Threads, pc[t] # "idle"
  PROVE  /\ Calls[t] # NULL
         /\ Calls[t].op = "decode" <=> pc[t] \in DecodePoints
         /\ Calls[t].op = "free" <=> pc[t] \in FreePoints
         /\ Calls[t].slot = slot[t]
         /\ Calls[t].slot \in Slots \cup {NULL}
<1>1. Calls[t] = [op |-> IF pc[t] \in DecodePoints THEN "decode" ELSE "free", slot |-> slot[t]]
  BY DEF Calls
<1>2. slot[t] \in Slots \cup {NULL} /\ (pc[t] \in DecodePoints \/ pc[t] \in FreePoints)
  BY DEF HostTypeOK, TypeOK
<1>3. Calls[t] \in [op : {"decode", "free"}, slot : Slots \cup {NULL}]
  BY <1>1, <1>2
<1> QED
  BY <1>1, <1>2, <1>3, NullCallAssumption

\* Every step of a careful host and the plugin maps to a step or a stutter.
LEMMA RefinementStep ==
  ASSUME HInv, stale = {}, ~Overwrites, [HostNext]_allVars
  PROVE  [Ownership!Next]_(Ownership!vars)
<1> USE NullAssumption DEF HInv, IInv, HostTypeOK, TypeOK
<1> DEFINE Stutter == Holds' = Holds /\ Calls' = Calls /\ ret' = ret
<1>1. Stutter => UNCHANGED Ownership!vars
  BY DEF Ownership!vars
<1>2. CASE UNCHANGED allVars
  BY <1>1, <1>2 DEF allVars, vars, Holds, Calls
<1>3. ASSUME NEW s \in Slots, RestoreCopy(s)
      PROVE  FALSE
  BY <1>3 DEF RestoreCopy
<1>4. ASSUME NEW t \in Threads, NEW s \in Slots \cup {NULL}, BeginDecode(t, s) \/ BeginFree(t, s)
      PROVE  Ownership!Next
  <2> DEFINE call == [op |-> IF BeginDecode(t, s) THEN "decode" ELSE "free", slot |-> s]
  <2>1. call \in Ownership!Call
    BY DEF Ownership!Call
  <2>2. Calls[t] = NULL
    BY <1>4 DEF BeginDecode, BeginFree, CallDecode, CallFree, Goto, Calls
  <2>3. s # NULL => ~Ownership!InUse(s)
    BY <1>4, CallOf DEF BeginDecode, BeginFree, Busy, Ownership!InUse, Calls
  <2>4. call.op = "decode" /\ s # NULL => Holds[s] = NULL
    BY <1>4, HoldsNothing DEF BeginDecode, Busy
  <2>5. Calls' = [Calls EXCEPT ![t] = call]
    <3>1. slot' = [slot EXCEPT ![t] = s]
      BY <1>4 DEF BeginDecode, BeginFree, CallDecode, CallFree
    <3>2. pc' = [pc EXCEPT ![t] = IF BeginDecode(t, s) THEN "d_decode" ELSE "f_load"]
      BY <1>4 DEF BeginDecode, BeginFree, CallDecode, CallFree, Goto
    <3> QED
      BY <3>1, <3>2 DEF Calls
  <2>6. ret' = [ret EXCEPT ![t] = NULL] /\ Holds' = Holds
    BY <1>4 DEF BeginDecode, BeginFree, CallDecode, CallFree, heapVars, registryVars, Holds
  <2> QED
    BY <2>1, <2>2, <2>3, <2>4, <2>5, <2>6 DEF Ownership!Next, Ownership!Begin
<1>5. ASSUME NEW t \in Threads, Run(t)
      PROVE  Ownership!Next \/ Stutter
  <2>1. \A s \in Slots : buffer[s].data \in registry \cup {NULL} /\ NULL \notin registry
    BY DEF OwnedRegistered
  <2>2. ASSUME NEW status \in Status \ {"Ok"}, pc[t] \in DecodePoints, Return(t, status), Holds' = Holds
        PROVE  Ownership!Next
    <3>1. Calls[t] # NULL /\ Calls[t].op = "decode"
      BY <2>2, CallOf
    <3>2. Calls' = [Calls EXCEPT ![t] = NULL] /\ ret' = [ret EXCEPT ![t] = status]
      BY <2>2, <3>1, CallsEnd
    <3> QED
      BY <2>2, <3>1, <3>2 DEF Ownership!Next, Ownership!Refused, Ownership!End
  <2>3. ASSUME pc[t] \in FreePoints, Return(t, NULL), Holds' = Holds,
               slot[t] # NULL => Holds[slot[t]] = NULL
        PROVE  Ownership!Next
    <3>1. Calls[t] # NULL /\ Calls[t].op = "free" /\ Calls[t].slot = slot[t]
      BY <2>3, CallOf
    <3>2. Calls' = [Calls EXCEPT ![t] = NULL] /\ ret' = [ret EXCEPT ![t] = NULL]
      BY <2>3, <3>1, CallsEnd
    <3> QED
      BY <2>3, <3>1, <3>2 DEF Ownership!Next, Ownership!FreeReturns, Ownership!End
  <2>4. ASSUME pc[t] \in FreePoints \ {"f_load", "f_clear"}
        PROVE  slot[t] \in Slots /\ Holds[slot[t]] = NULL
    <3>1. slot[t] \in Slots /\ granted[slot[t]] = NULL
      BY <2>4 DEF FreeingCalls
    <3>2. \A u \in Threads : ~(pc[u] \in {"f_load", "f_clear"} /\ slot[u] = slot[t])
      BY <2>4, <3>1 DEF OneCallPerStruct
    <3> QED
      BY <3>1, <3>2, HoldsNothing
  <2> USE <1>5 DEF Goto, Return, heapVars, registryVars
  <2>5. CASE DecodeFails(t)
    <3>1. PICK status \in ReadFailures \cup {"InvalidArg"} : Return(t, status)
      BY <2>5 DEF DecodeFails
    <3>2. status \in Status \ {"Ok"} /\ Holds' = Holds
      BY <2>5, FailuresAssumption, HoldsSame DEF DecodeFails
    <3> QED BY <2>2, <2>5, <3>1, <3>2 DEF DecodeFails
  <2>6. CASE DecodeSucceeds(t) BY <2>6, HoldsSame, CallsSame DEF DecodeSucceeds
  <2>7. CASE AllocFails(t)
    <3>1. Return(t, "OutOfMemory") /\ Holds' = Holds
      BY <2>7, HoldsSame DEF AllocFails
    <3> QED BY <2>2, <2>7, <3>1 DEF AllocFails
  <2>8. CASE Alloc(t)
    <3>1. Holds' = Holds
      BY <2>8, HoldsSame DEF Alloc, RegisteredIsUsable
    <3> QED BY <2>8, <3>1, CallsSame DEF Alloc
  <2>9. CASE Copy(t)
    <3>1. Holds' = Holds
      BY <2>9, HoldsSame DEF Copy, OwnedAccess
    <3> QED BY <2>9, <3>1, CallsSame DEF Copy
  <2>10. CASE RegisterLock(t) BY <2>10, HoldsSame, CallsSame DEF RegisterLock
  <2>11. CASE Register(t)
    <3>1. ptr[t] \notin registry /\ ptr[t] \in Addrs
      BY <2>11 DEF Register, OwnedAccess
    <3>2. Holds' = Holds
      BY <2>1, <2>11, <3>1, HoldsSame DEF Register
    <3> QED BY <2>11, <3>2, CallsSame DEF Register
  <2>12. CASE RegisterPanics(t)
    <3>1. Return(t, "Internal") /\ Holds' = Holds
      BY <2>12, HoldsSame DEF RegisterPanics
    <3> QED BY <2>2, <2>12, <3>1 DEF RegisterPanics
  <2>13. CASE Undo(t)
    <3>1. Return(t, "Internal") /\ Holds' = Holds
      BY <2>13, HoldsSame DEF Undo
    <3> QED BY <2>2, <2>13, <3>1 DEF Undo
  <2>14. CASE Publish(t)
    <3>1. slot[t] \in Slots /\ img[t] \in Images
      BY <2>14 DEF Publish, DecodedCall
    <3>2. ptr[t] \in registry /\ content[ptr[t]] = img[t]
      BY <2>14 DEF Publish, OwnedRegistered, PixelsMatch, Carries
    <3>3. Holds' = [Holds EXCEPT ![slot[t]] = img[t]]
      BY <2>14, <3>1, <3>2 DEF Publish, Holds
    <3>4. Calls[t] # NULL /\ Calls[t].op = "decode" /\ Calls[t].slot = slot[t]
      BY <2>14, CallOf DEF Publish
    <3>5. Calls' = [Calls EXCEPT ![t] = NULL] /\ ret' = [ret EXCEPT ![t] = "Ok"]
      BY <2>14, <3>4, CallsEnd DEF Publish
    <3> QED BY <3>1, <3>3, <3>4, <3>5 DEF Ownership!Next, Ownership!Decoded, Ownership!End
  <2>15. CASE FreeNothing(t)
    <3>1. Return(t, NULL) /\ Holds' = Holds
      BY <2>15, HoldsSame DEF FreeNothing
    <3> QED BY <2>3, <2>15, <3>1 DEF FreeNothing
  <2>16. CASE LoadPointer(t) BY <2>16, HoldsSame, CallsSame DEF LoadPointer
  <2>17. CASE ClearStruct(t)
    <3>1. slot[t] \in Slots /\ ptr[t] = buffer[slot[t]].data
      BY <2>17 DEF ClearStruct, FreeingCalls
    <3>2. Holds' = [Holds EXCEPT ![slot[t]] = NULL]
      BY <2>1, <2>17, <3>1 DEF ClearStruct, Holds, NullBuffer
    <3>3. CASE ptr[t] = NULL
      <4>1. Holds[slot[t]] = NULL
        BY <2>1, <3>1, <3>3 DEF Holds
      <4>2. Holds' = Holds
        BY <3>2, <4>1 DEF Holds
      <4> QED BY <2>3, <2>17, <3>3, <4>1, <4>2 DEF ClearStruct
    <3>4. CASE ptr[t] # NULL
      <4>1. Calls[t] # NULL /\ Calls[t].op = "free" /\ Calls[t].slot = slot[t]
        BY <2>17, CallOf DEF ClearStruct
      <4>2. Calls' = Calls /\ ret' = ret
        BY <2>17, <3>4, CallsSame DEF ClearStruct
      <4> QED BY <3>1, <3>2, <4>1, <4>2 DEF Ownership!Next, Ownership!Released
    <3> QED BY <3>3, <3>4
  <2>18. CASE UnregisterLock(t)
    <3>1. Holds' = Holds
      BY <2>18, HoldsSame DEF UnregisterLock
    <3>2. CASE poisoned BY <2>3, <2>4, <2>18, <3>1, <3>2 DEF UnregisterLock
    <3>3. CASE ~poisoned BY <2>18, <3>1, <3>3, CallsSame DEF UnregisterLock
    <3> QED BY <3>2, <3>3
  <2>19. CASE Unregister(t)
    <3>1. \A s \in Slots : buffer[s].data # ptr[t]
      BY <2>19 DEF Unregister, OneOwner, Carries
    <3>2. Holds' = Holds
      BY <2>19, <3>1, HoldsSame DEF Unregister
    <3>3. CASE ptr[t] \in registry BY <2>19, <3>2, <3>3, CallsSame DEF Unregister
    <3>4. CASE ptr[t] \notin registry BY <2>3, <2>4, <2>19, <3>2, <3>4 DEF Unregister
    <3> QED BY <3>3, <3>4
  <2>20. CASE Free(t)
    <3>1. Return(t, NULL) /\ Holds' = Holds
      BY <2>20, HoldsSame DEF Free
    <3> QED BY <2>3, <2>4, <2>20, <3>1 DEF Free
  <2> QED
    BY <2>5, <2>6, <2>7, <2>8, <2>9, <2>10, <2>11, <2>12, <2>13, <2>14, <2>15, <2>16,
       <2>17, <2>18, <2>19, <2>20 DEF Run, PluginStep, DecodeStep, FreeStep
<1> QED
  BY <1>1, <1>2, <1>3, <1>4, <1>5 DEF HostNext

\* For a careful host the plugin implements BufferOwnership: decode gives the
\* struct an image when it answers Ok, free takes it away when it clears the
\* struct, and nothing else - no other call, no reuse of an address - does.
THEOREM OwnershipImplemented ==
  ASSUME ~DoubleFrees, ~Overwrites
  PROVE  HostSpec => Refinement
<1>1. HostInit => Ownership!Init
  BY DEF HostInit, Init, Ownership!Init, Holds, Calls, NullBuffer
<1>2. HInv /\ [HostNext]_allVars => [Ownership!Next]_(Ownership!vars)
  BY RefinementStep DEF HInv, StaleOnlyIfCareless
<1> QED
  BY <1>1, <1>2, HostInvariance, PTL DEF HostSpec, Ownership!Spec, Refinement
=============================================================================
