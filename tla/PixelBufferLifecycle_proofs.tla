-------------------- MODULE PixelBufferLifecycle_proofs ---------------------
(***************************************************************************)
(* Proofs about PixelBufferLifecycle, for any threads, structs, addresses  *)
(* and images and against an arbitrary host.                               *)
(***************************************************************************)
EXTENDS PixelBufferLifecycle, TLAPS

-----------------------------------------------------------------------------
(***************************************************************************)
(* The inductive invariant.                                                *)
(***************************************************************************)

\* Exactly the thread inside a critical section holds the lock, and no thread
\* is inside once the mutex is poisoned.
LockDiscipline ==
  \A t \in Threads :
    /\ pc[t] \in LockPoints <=> lock = t
    /\ pc[t] \in LockPoints => ~poisoned

\* Once the file is decoded the call has an image and a struct to put it in.
DecodedCall ==
  \A t \in Threads : pc[t] \in DecodePoints \ {"d_decode"} =>
    img[t] \in Images /\ slot[t] \in Slots

\* From the copy to the registration the claimed buffer holds the pixels.
CopiedPixels ==
  \A t \in Threads : pc[t] \in {"d_lock", "d_register"} => content[ptr[t]] # NULL

IInv ==
  /\ TypeOK
  /\ OwnedAccess
  /\ LockDiscipline
  /\ DecodedCall
  /\ CopiedPixels
  /\ RegisteredIsUsable
  /\ UndoneOnlyWhenPoisoned
  /\ AtMostOneOrphan

USE DEF DecodePoints, FreePoints, LockPoints, ClaimPoints, Claims, Status,
  pixel_buffer_alloc, pixel_buffer_free

\* The empty plugin satisfies the invariant.
LEMMA InitInv == Init => IInv
<1> SUFFICES ASSUME Init PROVE IInv
  OBVIOUS
<1> USE DEF Init
<1>1. TypeOK
  BY DEF TypeOK, PixelBuffer, NullBuffer
<1>2. LockDiscipline
  BY NullAssumption DEF LockDiscipline
<1>3. OwnedAccess /\ DecodedCall /\ CopiedPixels /\ UndoneOnlyWhenPoisoned
  BY DEF OwnedAccess, DecodedCall, CopiedPixels, UndoneOnlyWhenPoisoned
<1>4. RegisteredIsUsable /\ AtMostOneOrphan
  BY DEF RegisteredIsUsable, AtMostOneOrphan, Orphans
<1> QED
  BY <1>1, <1>2, <1>3, <1>4 DEF IInv

\* Every step keeps the types: one step per action.
LEMMA TypeInv == IInv /\ [Next]_vars => TypeOK'
<1> SUFFICES ASSUME IInv, [Next]_vars PROVE TypeOK'
  OBVIOUS
<1> USE NullAssumption, FailuresAssumption
<1>1. CASE UNCHANGED vars
  BY <1>1 DEF IInv, TypeOK, vars
<1>2. ASSUME NEW s \in Slots, NEW b \in PixelBuffer, HostStore(s, b)
      PROVE  TypeOK'
  BY <1>2 DEF IInv, TypeOK, HostStore, heapVars, registryVars, localVars
<1>3. ASSUME NEW t \in Threads, HostCall(t)
      PROVE  TypeOK'
  BY <1>3 DEF IInv, TypeOK, HostCall, CallDecode, CallFree, Goto, heapVars, registryVars
<1>4. ASSUME NEW t \in Threads, DecodeStep(t)
      PROVE  TypeOK'
  <2> USE <1>4 DEF IInv, TypeOK, Goto, Return, heapVars, registryVars
  <2>1. CASE DecodeFails(t) BY <2>1 DEF DecodeFails
  <2>2. CASE DecodeSucceeds(t) BY <2>2 DEF DecodeSucceeds
  <2>3. CASE AllocFails(t) BY <2>3 DEF AllocFails
  <2>4. CASE Alloc(t) BY <2>4 DEF Alloc
  <2>5. CASE Copy(t) BY <2>5 DEF Copy
  <2>6. CASE RegisterLock(t) BY <2>6 DEF RegisterLock
  <2>7. CASE Register(t) BY <2>7 DEF Register, OwnedAccess
  <2>8. CASE RegisterPanics(t) BY <2>8 DEF RegisterPanics
  <2>9. CASE Undo(t) BY <2>9 DEF Undo
  <2>10. CASE Publish(t) BY <2>10 DEF Publish, PixelBuffer
  <2> QED BY <2>1, <2>2, <2>3, <2>4, <2>5, <2>6, <2>7, <2>8, <2>9, <2>10 DEF DecodeStep
<1>5. ASSUME NEW t \in Threads, FreeStep(t)
      PROVE  TypeOK'
  <2> USE <1>5 DEF IInv, TypeOK, Goto, Return, heapVars, registryVars
  <2>1. CASE FreeNothing(t) BY <2>1 DEF FreeNothing
  <2>2. CASE LoadPointer(t) BY <2>2 DEF LoadPointer, PixelBuffer
  <2>3. CASE ClearStruct(t) BY <2>3 DEF ClearStruct, PixelBuffer, NullBuffer
  <2>4. CASE UnregisterLock(t) BY <2>4 DEF UnregisterLock
  <2>5. CASE Unregister(t) BY <2>5 DEF Unregister
  <2>6. CASE Free(t) BY <2>6 DEF Free
  <2> QED BY <2>1, <2>2, <2>3, <2>4, <2>5, <2>6 DEF FreeStep
<1> QED
  BY <1>1, <1>2, <1>3, <1>4, <1>5 DEF Next, PluginStep

\* A claim begins when malloc returns or unregister succeeds, and both exclude
\* every other claim; it ends before the address can be claimed again.
LEMMA OwnedInv == IInv /\ [Next]_vars => OwnedAccess'
<1> SUFFICES ASSUME IInv, [Next]_vars PROVE OwnedAccess'
  OBVIOUS
<1> USE NullAssumption DEF IInv, TypeOK, OwnedAccess
<1>1. CASE UNCHANGED vars
  BY <1>1 DEF vars
<1>2. ASSUME NEW s \in Slots, NEW b \in PixelBuffer, HostStore(s, b)
      PROVE  OwnedAccess'
  BY <1>2 DEF HostStore, heapVars, registryVars, localVars
<1>3. ASSUME NEW t \in Threads, HostCall(t)
      PROVE  OwnedAccess'
  BY <1>3 DEF HostCall, CallDecode, CallFree, Goto, heapVars, registryVars
<1>4. ASSUME NEW t \in Threads, DecodeStep(t)
      PROVE  OwnedAccess'
  <2> USE DEF Goto, Return, heapVars, registryVars
  <2>1. CASE DecodeFails(t) BY <2>1 DEF DecodeFails
  <2>2. CASE DecodeSucceeds(t) BY <2>2 DEF DecodeSucceeds
  <2>3. CASE AllocFails(t) BY <2>3 DEF AllocFails
  <2>4. CASE Alloc(t) BY <2>4 DEF Alloc, RegisteredIsUsable
  <2>5. CASE Copy(t) BY <2>5 DEF Copy
  <2>6. CASE RegisterLock(t) BY <2>6 DEF RegisterLock
  <2>7. CASE Register(t) BY <2>7 DEF Register
  <2>8. CASE RegisterPanics(t) BY <2>8 DEF RegisterPanics
  <2>9. CASE Undo(t) BY <2>9 DEF Undo
  <2>10. CASE Publish(t) BY <2>10 DEF Publish
  <2> QED BY <1>4, <2>1, <2>2, <2>3, <2>4, <2>5, <2>6, <2>7, <2>8, <2>9, <2>10 DEF DecodeStep
<1>5. ASSUME NEW t \in Threads, FreeStep(t)
      PROVE  OwnedAccess'
  <2> USE DEF Goto, Return, heapVars, registryVars
  <2>1. CASE FreeNothing(t) BY <2>1 DEF FreeNothing
  <2>2. CASE LoadPointer(t) BY <2>2 DEF LoadPointer
  <2>3. CASE ClearStruct(t) BY <2>3 DEF ClearStruct
  <2>4. CASE UnregisterLock(t) BY <2>4 DEF UnregisterLock
  <2>5. CASE Unregister(t) BY <2>5 DEF Unregister, RegisteredIsUsable
  <2>6. CASE Free(t) BY <2>6 DEF Free
  <2> QED BY <1>5, <2>1, <2>2, <2>3, <2>4, <2>5, <2>6 DEF FreeStep
<1> QED
  BY <1>1, <1>2, <1>3, <1>4, <1>5 DEF Next, PluginStep

\* The lock and the poison flag follow the critical sections.
LEMMA LockInv == IInv /\ [Next]_vars => LockDiscipline'
<1> SUFFICES ASSUME IInv, [Next]_vars PROVE LockDiscipline'
  OBVIOUS
<1> USE NullAssumption DEF IInv, TypeOK, LockDiscipline
<1>1. CASE UNCHANGED vars
  BY <1>1 DEF vars
<1>2. ASSUME NEW s \in Slots, NEW b \in PixelBuffer, HostStore(s, b)
      PROVE  LockDiscipline'
  BY <1>2 DEF HostStore, heapVars, registryVars, localVars
<1>3. ASSUME NEW t \in Threads, HostCall(t)
      PROVE  LockDiscipline'
  BY <1>3 DEF HostCall, CallDecode, CallFree, Goto, heapVars, registryVars
<1>4. ASSUME NEW t \in Threads, DecodeStep(t)
      PROVE  LockDiscipline'
  <2> USE DEF Goto, Return, heapVars, registryVars
  <2>1. CASE DecodeFails(t) BY <2>1 DEF DecodeFails
  <2>2. CASE DecodeSucceeds(t) BY <2>2 DEF DecodeSucceeds
  <2>3. CASE AllocFails(t) BY <2>3 DEF AllocFails
  <2>4. CASE Alloc(t) BY <2>4 DEF Alloc
  <2>5. CASE Copy(t) BY <2>5 DEF Copy
  <2>6. CASE RegisterLock(t) BY <2>6 DEF RegisterLock
  <2>7. CASE Register(t) BY <2>7 DEF Register
  <2>8. CASE RegisterPanics(t) BY <2>8 DEF RegisterPanics
  <2>9. CASE Undo(t) BY <2>9 DEF Undo
  <2>10. CASE Publish(t) BY <2>10 DEF Publish
  <2> QED BY <1>4, <2>1, <2>2, <2>3, <2>4, <2>5, <2>6, <2>7, <2>8, <2>9, <2>10 DEF DecodeStep
<1>5. ASSUME NEW t \in Threads, FreeStep(t)
      PROVE  LockDiscipline'
  <2> USE DEF Goto, Return, heapVars, registryVars
  <2>1. CASE FreeNothing(t) BY <2>1 DEF FreeNothing
  <2>2. CASE LoadPointer(t) BY <2>2 DEF LoadPointer
  <2>3. CASE ClearStruct(t) BY <2>3 DEF ClearStruct
  <2>4. CASE UnregisterLock(t) BY <2>4 DEF UnregisterLock
  <2>5. CASE Unregister(t) BY <2>5 DEF Unregister
  <2>6. CASE Free(t) BY <2>6 DEF Free
  <2> QED BY <1>5, <2>1, <2>2, <2>3, <2>4, <2>5, <2>6 DEF FreeStep
<1> QED
  BY <1>1, <1>2, <1>3, <1>4, <1>5 DEF Next, PluginStep

\* The locals of a decode are set before they are used.
LEMMA DecodedInv == IInv /\ [Next]_vars => DecodedCall'
<1> SUFFICES ASSUME IInv, [Next]_vars PROVE DecodedCall'
  OBVIOUS
<1> USE NullAssumption DEF IInv, TypeOK, DecodedCall
<1>1. CASE UNCHANGED vars
  BY <1>1 DEF vars
<1>2. ASSUME NEW s \in Slots, NEW b \in PixelBuffer, HostStore(s, b)
      PROVE  DecodedCall'
  BY <1>2 DEF HostStore, heapVars, registryVars, localVars
<1>3. ASSUME NEW t \in Threads, HostCall(t)
      PROVE  DecodedCall'
  BY <1>3 DEF HostCall, CallDecode, CallFree, Goto, heapVars, registryVars
<1>4. ASSUME NEW t \in Threads, DecodeStep(t)
      PROVE  DecodedCall'
  <2> USE DEF Goto, Return, heapVars, registryVars
  <2>1. CASE DecodeFails(t) BY <2>1 DEF DecodeFails
  <2>2. CASE DecodeSucceeds(t) BY <2>2 DEF DecodeSucceeds
  <2>3. CASE AllocFails(t) BY <2>3 DEF AllocFails
  <2>4. CASE Alloc(t) BY <2>4 DEF Alloc
  <2>5. CASE Copy(t) BY <2>5 DEF Copy
  <2>6. CASE RegisterLock(t) BY <2>6 DEF RegisterLock
  <2>7. CASE Register(t) BY <2>7 DEF Register
  <2>8. CASE RegisterPanics(t) BY <2>8 DEF RegisterPanics
  <2>9. CASE Undo(t) BY <2>9 DEF Undo
  <2>10. CASE Publish(t) BY <2>10 DEF Publish
  <2> QED BY <1>4, <2>1, <2>2, <2>3, <2>4, <2>5, <2>6, <2>7, <2>8, <2>9, <2>10 DEF DecodeStep
<1>5. ASSUME NEW t \in Threads, FreeStep(t)
      PROVE  DecodedCall'
  <2> USE DEF Goto, Return, heapVars, registryVars
  <2>1. CASE FreeNothing(t) BY <2>1 DEF FreeNothing
  <2>2. CASE LoadPointer(t) BY <2>2 DEF LoadPointer
  <2>3. CASE ClearStruct(t) BY <2>3 DEF ClearStruct
  <2>4. CASE UnregisterLock(t) BY <2>4 DEF UnregisterLock
  <2>5. CASE Unregister(t) BY <2>5 DEF Unregister
  <2>6. CASE Free(t) BY <2>6 DEF Free
  <2> QED BY <1>5, <2>1, <2>2, <2>3, <2>4, <2>5, <2>6 DEF FreeStep
<1> QED
  BY <1>1, <1>2, <1>3, <1>4, <1>5 DEF Next, PluginStep

\* A copy is not undone: its address is claimed by one thread only.
LEMMA PixelsInv == IInv /\ [Next]_vars => CopiedPixels'
<1> SUFFICES ASSUME IInv, [Next]_vars PROVE CopiedPixels'
  OBVIOUS
<1> USE NullAssumption DEF IInv, TypeOK, CopiedPixels, OwnedAccess, DecodedCall
<1>1. CASE UNCHANGED vars
  BY <1>1 DEF vars
<1>2. ASSUME NEW s \in Slots, NEW b \in PixelBuffer, HostStore(s, b)
      PROVE  CopiedPixels'
  BY <1>2 DEF HostStore, heapVars, registryVars, localVars
<1>3. ASSUME NEW t \in Threads, HostCall(t)
      PROVE  CopiedPixels'
  BY <1>3 DEF HostCall, CallDecode, CallFree, Goto, heapVars, registryVars
<1>4. ASSUME NEW t \in Threads, DecodeStep(t)
      PROVE  CopiedPixels'
  <2> USE DEF Goto, Return, heapVars, registryVars
  <2>1. CASE DecodeFails(t) BY <2>1 DEF DecodeFails
  <2>2. CASE DecodeSucceeds(t) BY <2>2 DEF DecodeSucceeds
  <2>3. CASE AllocFails(t) BY <2>3 DEF AllocFails
  <2>4. CASE Alloc(t) BY <2>4 DEF Alloc
  <2>5. CASE Copy(t) BY <2>5 DEF Copy
  <2>6. CASE RegisterLock(t) BY <2>6 DEF RegisterLock
  <2>7. CASE Register(t) BY <2>7 DEF Register
  <2>8. CASE RegisterPanics(t) BY <2>8 DEF RegisterPanics
  <2>9. CASE Undo(t) BY <2>9 DEF Undo
  <2>10. CASE Publish(t) BY <2>10 DEF Publish
  <2> QED BY <1>4, <2>1, <2>2, <2>3, <2>4, <2>5, <2>6, <2>7, <2>8, <2>9, <2>10 DEF DecodeStep
<1>5. ASSUME NEW t \in Threads, FreeStep(t)
      PROVE  CopiedPixels'
  <2> USE DEF Goto, Return, heapVars, registryVars
  <2>1. CASE FreeNothing(t) BY <2>1 DEF FreeNothing
  <2>2. CASE LoadPointer(t) BY <2>2 DEF LoadPointer
  <2>3. CASE ClearStruct(t) BY <2>3 DEF ClearStruct
  <2>4. CASE UnregisterLock(t) BY <2>4 DEF UnregisterLock
  <2>5. CASE Unregister(t) BY <2>5 DEF Unregister
  <2>6. CASE Free(t) BY <2>6 DEF Free
  <2> QED BY <1>5, <2>1, <2>2, <2>3, <2>4, <2>5, <2>6 DEF FreeStep
<1> QED
  BY <1>1, <1>2, <1>3, <1>4, <1>5 DEF Next, PluginStep

\* Only claimed, hence unregistered, addresses are written or freed.
LEMMA UsableInv == IInv /\ [Next]_vars => RegisteredIsUsable'
<1> SUFFICES ASSUME IInv, [Next]_vars PROVE RegisteredIsUsable'
  OBVIOUS
<1> USE NullAssumption DEF IInv, TypeOK, RegisteredIsUsable, OwnedAccess, CopiedPixels, DecodedCall
<1>1. CASE UNCHANGED vars
  BY <1>1 DEF vars
<1>2. ASSUME NEW s \in Slots, NEW b \in PixelBuffer, HostStore(s, b)
      PROVE  RegisteredIsUsable'
  BY <1>2 DEF HostStore, heapVars, registryVars, localVars
<1>3. ASSUME NEW t \in Threads, HostCall(t)
      PROVE  RegisteredIsUsable'
  BY <1>3 DEF HostCall, CallDecode, CallFree, Goto, heapVars, registryVars
<1>4. ASSUME NEW t \in Threads, DecodeStep(t)
      PROVE  RegisteredIsUsable'
  <2> USE DEF Goto, Return, heapVars, registryVars
  <2>1. CASE DecodeFails(t) BY <2>1 DEF DecodeFails
  <2>2. CASE DecodeSucceeds(t) BY <2>2 DEF DecodeSucceeds
  <2>3. CASE AllocFails(t) BY <2>3 DEF AllocFails
  <2>4. CASE Alloc(t) BY <2>4 DEF Alloc
  <2>5. CASE Copy(t) BY <2>5 DEF Copy
  <2>6. CASE RegisterLock(t) BY <2>6 DEF RegisterLock
  <2>7. CASE Register(t) BY <2>7 DEF Register
  <2>8. CASE RegisterPanics(t) BY <2>8 DEF RegisterPanics
  <2>9. CASE Undo(t) BY <2>9 DEF Undo
  <2>10. CASE Publish(t) BY <2>10 DEF Publish
  <2> QED BY <1>4, <2>1, <2>2, <2>3, <2>4, <2>5, <2>6, <2>7, <2>8, <2>9, <2>10 DEF DecodeStep
<1>5. ASSUME NEW t \in Threads, FreeStep(t)
      PROVE  RegisteredIsUsable'
  <2> USE DEF Goto, Return, heapVars, registryVars
  <2>1. CASE FreeNothing(t) BY <2>1 DEF FreeNothing
  <2>2. CASE LoadPointer(t) BY <2>2 DEF LoadPointer
  <2>3. CASE ClearStruct(t) BY <2>3 DEF ClearStruct
  <2>4. CASE UnregisterLock(t) BY <2>4 DEF UnregisterLock
  <2>5. CASE Unregister(t) BY <2>5 DEF Unregister
  <2>6. CASE Free(t) BY <2>6 DEF Free
  <2> QED BY <1>5, <2>1, <2>2, <2>3, <2>4, <2>5, <2>6 DEF FreeStep
<1> QED
  BY <1>1, <1>2, <1>3, <1>4, <1>5 DEF Next, PluginStep

\* Registration cannot find its own pointer in the map.
LEMMA UndoneInv == IInv /\ [Next]_vars => UndoneOnlyWhenPoisoned'
<1> SUFFICES ASSUME IInv, [Next]_vars PROVE UndoneOnlyWhenPoisoned'
  OBVIOUS
<1> USE NullAssumption DEF IInv, TypeOK, UndoneOnlyWhenPoisoned, OwnedAccess, LockDiscipline
<1>1. CASE UNCHANGED vars
  BY <1>1 DEF vars
<1>2. ASSUME NEW s \in Slots, NEW b \in PixelBuffer, HostStore(s, b)
      PROVE  UndoneOnlyWhenPoisoned'
  BY <1>2 DEF HostStore, heapVars, registryVars, localVars
<1>3. ASSUME NEW t \in Threads, HostCall(t)
      PROVE  UndoneOnlyWhenPoisoned'
  BY <1>3 DEF HostCall, CallDecode, CallFree, Goto, heapVars, registryVars
<1>4. ASSUME NEW t \in Threads, DecodeStep(t)
      PROVE  UndoneOnlyWhenPoisoned'
  <2> USE DEF Goto, Return, heapVars, registryVars
  <2>1. CASE DecodeFails(t) BY <2>1 DEF DecodeFails
  <2>2. CASE DecodeSucceeds(t) BY <2>2 DEF DecodeSucceeds
  <2>3. CASE AllocFails(t) BY <2>3 DEF AllocFails
  <2>4. CASE Alloc(t) BY <2>4 DEF Alloc
  <2>5. CASE Copy(t) BY <2>5 DEF Copy
  <2>6. CASE RegisterLock(t) BY <2>6 DEF RegisterLock
  <2>7. CASE Register(t) BY <2>7 DEF Register
  <2>8. CASE RegisterPanics(t) BY <2>8 DEF RegisterPanics
  <2>9. CASE Undo(t) BY <2>9 DEF Undo
  <2>10. CASE Publish(t) BY <2>10 DEF Publish
  <2> QED BY <1>4, <2>1, <2>2, <2>3, <2>4, <2>5, <2>6, <2>7, <2>8, <2>9, <2>10 DEF DecodeStep
<1>5. ASSUME NEW t \in Threads, FreeStep(t)
      PROVE  UndoneOnlyWhenPoisoned'
  <2> USE DEF Goto, Return, heapVars, registryVars
  <2>1. CASE FreeNothing(t) BY <2>1 DEF FreeNothing
  <2>2. CASE LoadPointer(t) BY <2>2 DEF LoadPointer
  <2>3. CASE ClearStruct(t) BY <2>3 DEF ClearStruct
  <2>4. CASE UnregisterLock(t) BY <2>4 DEF UnregisterLock
  <2>5. CASE Unregister(t) BY <2>5 DEF Unregister
  <2>6. CASE Free(t) BY <2>6 DEF Free
  <2> QED BY <1>5, <2>1, <2>2, <2>3, <2>4, <2>5, <2>6 DEF FreeStep
<1> QED
  BY <1>1, <1>2, <1>3, <1>4, <1>5 DEF Next, PluginStep

-----------------------------------------------------------------------------
\* A step that keeps the poison flag set and orphans no buffer.
LEMMA NoNewOrphan ==
  ASSUME AtMostOneOrphan, Orphans' \subseteq Orphans, poisoned => poisoned'
  PROVE  AtMostOneOrphan'
  BY DEF AtMostOneOrphan

\* A buffer is orphaned only by the panic that poisons the mutex, once.
LEMMA OrphanInv == IInv /\ [Next]_vars => AtMostOneOrphan'
<1> SUFFICES ASSUME IInv, [Next]_vars PROVE AtMostOneOrphan'
  OBVIOUS
<1> USE NullAssumption DEF IInv, TypeOK
<1>1. CASE UNCHANGED vars
  BY <1>1 DEF vars, AtMostOneOrphan, Orphans, Claimed
<1>2. ASSUME NEW s \in Slots, NEW b \in PixelBuffer, HostStore(s, b)
      PROVE  AtMostOneOrphan'
  BY <1>2 DEF HostStore, heapVars, registryVars, localVars, AtMostOneOrphan, Orphans, Claimed
<1>3. ASSUME NEW t \in Threads, HostCall(t)
      PROVE  AtMostOneOrphan'
  <2>1. Orphans' \subseteq Orphans /\ poisoned' = poisoned
    BY <1>3 DEF HostCall, CallDecode, CallFree, Goto, heapVars, registryVars, Orphans, Claimed
  <2> QED BY <2>1, NoNewOrphan
<1>4. ASSUME NEW t \in Threads, DecodeStep(t)
      PROVE  AtMostOneOrphan'
  <2> USE DEF Goto, Return, heapVars, registryVars
  <2> DEFINE NoNew == Orphans' \subseteq Orphans /\ poisoned' = poisoned
  <2>1. CASE DecodeFails(t)
    <3>1. NoNew BY <2>1 DEF DecodeFails, Orphans, Claimed
    <3> QED BY <3>1, NoNewOrphan
  <2>2. CASE DecodeSucceeds(t)
    <3>1. NoNew BY <2>2 DEF DecodeSucceeds, Orphans, Claimed
    <3> QED BY <3>1, NoNewOrphan
  <2>3. CASE AllocFails(t)
    <3>1. NoNew BY <2>3 DEF AllocFails, Orphans, Claimed
    <3> QED BY <3>1, NoNewOrphan
  <2>4. CASE Alloc(t)
    <3>1. NoNew BY <2>4 DEF Alloc, Orphans, Claimed
    <3> QED BY <3>1, NoNewOrphan
  <2>5. CASE Copy(t)
    <3>1. NoNew BY <2>5 DEF Copy, Orphans, Claimed
    <3> QED BY <3>1, NoNewOrphan
  <2>6. CASE RegisterLock(t)
    <3>1. NoNew BY <2>6 DEF RegisterLock, Orphans, Claimed
    <3> QED BY <3>1, NoNewOrphan
  <2>7. CASE Register(t)
    <3>1. NoNew BY <2>7 DEF Register, Orphans, Claimed
    <3> QED BY <3>1, NoNewOrphan
  <2>8. CASE RegisterPanics(t)
    \* The lock was not poisoned before, so there was no orphan.
    <3>1. ~poisoned /\ poisoned'
      BY <2>8 DEF RegisterPanics, LockDiscipline
    <3>2. Orphans = {}
      BY <3>1 DEF AtMostOneOrphan
    <3>3. Orphans' \subseteq {ptr[t]}
      BY <2>8, <3>2 DEF RegisterPanics, Orphans, Claimed
    <3> QED BY <3>1, <3>3 DEF AtMostOneOrphan
  <2>9. CASE Undo(t)
    <3>1. NoNew BY <2>9 DEF Undo, Orphans, Claimed
    <3> QED BY <3>1, NoNewOrphan
  <2>10. CASE Publish(t)
    <3>1. NoNew BY <2>10 DEF Publish, Orphans, Claimed
    <3> QED BY <3>1, NoNewOrphan
  <2> QED BY <1>4, <2>1, <2>2, <2>3, <2>4, <2>5, <2>6, <2>7, <2>8, <2>9, <2>10 DEF DecodeStep
<1>5. ASSUME NEW t \in Threads, FreeStep(t)
      PROVE  AtMostOneOrphan'
  <2> USE DEF Goto, Return, heapVars, registryVars
  <2>1. Orphans' \subseteq Orphans /\ poisoned' = poisoned
    <3>1. CASE FreeNothing(t) BY <3>1 DEF FreeNothing, Orphans, Claimed
    <3>2. CASE LoadPointer(t) BY <3>2 DEF LoadPointer, Orphans, Claimed
    <3>3. CASE ClearStruct(t) BY <3>3 DEF ClearStruct, Orphans, Claimed
    <3>4. CASE UnregisterLock(t) BY <3>4 DEF UnregisterLock, Orphans, Claimed
    <3>5. CASE Unregister(t) BY <3>5 DEF Unregister, Orphans, Claimed
    <3>6. CASE Free(t) BY <3>6 DEF Free, Orphans, Claimed
    <3> QED BY <1>5, <3>1, <3>2, <3>3, <3>4, <3>5, <3>6 DEF FreeStep
  <2> QED BY <2>1, NoNewOrphan
<1> QED
  BY <1>1, <1>2, <1>3, <1>4, <1>5 DEF Next, PluginStep

-----------------------------------------------------------------------------
\* Every step keeps the inductive invariant.
LEMMA NextInv == IInv /\ [Next]_vars => IInv'
<1> SUFFICES ASSUME IInv, [Next]_vars PROVE IInv'
  OBVIOUS
<1> QED
  BY TypeInv, OwnedInv, LockInv, DecodedInv, PixelsInv, UsableInv, UndoneInv, OrphanInv
  DEF IInv

\* The inductive invariant holds in every reachable state.
LEMMA Invariance == Spec => []IInv
<1>1. Init => IInv
  BY InitInv
<1>2. IInv /\ [Next]_vars => IInv'
  BY NextInv
<1> QED
  BY <1>1, <1>2, PTL DEF Spec

\* Every variable keeps its type under any host: in particular a thread that
\* writes or frees through data_ptr has an address there.
THEOREM TypeCorrect == Spec => []TypeOK
  BY Invariance, PTL DEF IInv

\* For any number of threads, addresses and structs, and whatever pointers the
\* host passes: no double free, no write after free (decode.rs:97-121, 157-183).
THEOREM OwnershipSafe == Spec => []OwnedAccess
  BY Invariance, PTL DEF IInv

\* The registry never lists a freed or unwritten buffer.
THEOREM RegistrySound == Spec => []RegisteredIsUsable
  BY Invariance, PTL DEF IInv

\* register's InvalidArg branch is dead code for decode (decode.rs:114).
THEOREM NoSpuriousUndo == Spec => []UndoneOnlyWhenPoisoned
  BY Invariance, PTL DEF IInv

\* One buffer at most is ever lost, and only to a panic under the lock.
THEOREM LeakBound == Spec => []AtMostOneOrphan
  BY Invariance, PTL DEF IInv

\* No plugin step changes the pixels of a buffer the registry lists before and
\* after it: the only write, decode.rs:109, goes to an unregistered address.
THEOREM PixelsStable == Spec => RegisteredPixelsStable
<1> DEFINE Stable == \A a \in registry \cap registry' : content'[a] = content[a]
<1>1. IInv /\ [Next]_vars => [Stable]_vars
  <2> SUFFICES ASSUME IInv, Next PROVE Stable
    BY DEF vars
  <2> USE NullAssumption DEF IInv, TypeOK, OwnedAccess, RegisteredIsUsable, Goto, Return, heapVars, registryVars
  <2>1. ASSUME NEW s \in Slots, NEW b \in PixelBuffer, HostStore(s, b)
        PROVE  Stable
    BY <2>1 DEF HostStore, localVars
  <2>2. ASSUME NEW t \in Threads, HostCall(t)
        PROVE  Stable
    BY <2>2 DEF HostCall, CallDecode, CallFree
  <2>3. ASSUME NEW t \in Threads, DecodeStep(t)
        PROVE  Stable
    <3>1. CASE DecodeFails(t) BY <3>1 DEF DecodeFails
    <3>2. CASE DecodeSucceeds(t) BY <3>2 DEF DecodeSucceeds
    <3>3. CASE AllocFails(t) BY <3>3 DEF AllocFails
    <3>4. CASE Alloc(t) BY <3>4 DEF Alloc
    <3>5. CASE Copy(t) BY <3>5 DEF Copy
    <3>6. CASE RegisterLock(t) BY <3>6 DEF RegisterLock
    <3>7. CASE Register(t) BY <3>7 DEF Register
    <3>8. CASE RegisterPanics(t) BY <3>8 DEF RegisterPanics
    <3>9. CASE Undo(t) BY <3>9 DEF Undo
    <3>10. CASE Publish(t) BY <3>10 DEF Publish
    <3> QED BY <2>3, <3>1, <3>2, <3>3, <3>4, <3>5, <3>6, <3>7, <3>8, <3>9, <3>10 DEF DecodeStep
  <2>4. ASSUME NEW t \in Threads, FreeStep(t)
        PROVE  Stable
    <3>1. CASE FreeNothing(t) BY <3>1 DEF FreeNothing
    <3>2. CASE LoadPointer(t) BY <3>2 DEF LoadPointer
    <3>3. CASE ClearStruct(t) BY <3>3 DEF ClearStruct
    <3>4. CASE UnregisterLock(t) BY <3>4 DEF UnregisterLock
    <3>5. CASE Unregister(t) BY <3>5 DEF Unregister
    <3>6. CASE Free(t) BY <3>6 DEF Free
    <3> QED BY <2>4, <3>1, <3>2, <3>3, <3>4, <3>5, <3>6 DEF FreeStep
  <2> QED
    BY <2>1, <2>2, <2>3, <2>4 DEF Next, PluginStep
<1> QED
  BY <1>1, Invariance, PTL DEF Spec, RegisteredPixelsStable

\* A poisoned registry never changes, and its buffers are never freed.
THEOREM PoisonFreezes == Spec => PoisonFreezesRegistry
<1> DEFINE Frozen == poisoned => registry' = registry /\ registry \subseteq live'
<1>1. IInv /\ [Next]_vars => [Frozen]_vars
  <2> SUFFICES ASSUME IInv, Next PROVE Frozen
    BY DEF vars
  <2> USE NullAssumption DEF IInv, TypeOK, OwnedAccess, LockDiscipline, RegisteredIsUsable, Goto, Return, heapVars, registryVars
  <2>1. ASSUME NEW s \in Slots, NEW b \in PixelBuffer, HostStore(s, b)
        PROVE  Frozen
    BY <2>1 DEF HostStore, localVars
  <2>2. ASSUME NEW t \in Threads, HostCall(t)
        PROVE  Frozen
    BY <2>2 DEF HostCall, CallDecode, CallFree
  <2>3. ASSUME NEW t \in Threads, DecodeStep(t)
        PROVE  Frozen
    <3>1. CASE DecodeFails(t) BY <3>1 DEF DecodeFails
    <3>2. CASE DecodeSucceeds(t) BY <3>2 DEF DecodeSucceeds
    <3>3. CASE AllocFails(t) BY <3>3 DEF AllocFails
    <3>4. CASE Alloc(t) BY <3>4 DEF Alloc
    <3>5. CASE Copy(t) BY <3>5 DEF Copy
    <3>6. CASE RegisterLock(t) BY <3>6 DEF RegisterLock
    <3>7. CASE Register(t) BY <3>7 DEF Register
    <3>8. CASE RegisterPanics(t) BY <3>8 DEF RegisterPanics
    <3>9. CASE Undo(t) BY <3>9 DEF Undo
    <3>10. CASE Publish(t) BY <3>10 DEF Publish
    <3> QED BY <2>3, <3>1, <3>2, <3>3, <3>4, <3>5, <3>6, <3>7, <3>8, <3>9, <3>10 DEF DecodeStep
  <2>4. ASSUME NEW t \in Threads, FreeStep(t)
        PROVE  Frozen
    <3>1. CASE FreeNothing(t) BY <3>1 DEF FreeNothing
    <3>2. CASE LoadPointer(t) BY <3>2 DEF LoadPointer
    <3>3. CASE ClearStruct(t) BY <3>3 DEF ClearStruct
    <3>4. CASE UnregisterLock(t) BY <3>4 DEF UnregisterLock
    <3>5. CASE Unregister(t) BY <3>5 DEF Unregister
    <3>6. CASE Free(t) BY <3>6 DEF Free
    <3> QED BY <2>4, <3>1, <3>2, <3>3, <3>4, <3>5, <3>6 DEF FreeStep
  <2> QED
    BY <2>1, <2>2, <2>3, <2>4 DEF Next, PluginStep
<1> QED
  BY <1>1, Invariance, PTL DEF Spec, PoisonFreezesRegistry

-----------------------------------------------------------------------------
\* The steps a call at a point still takes at most.
StepsLeft(point) ==
  CASE point = "idle" -> 0
    [] point = "d_decode" -> 6
    [] point \in {"d_alloc", "f_load"} -> 5
    [] point \in {"d_copy", "f_clear"} -> 4
    [] point \in {"d_lock", "f_lock"} -> 3
    [] point \in {"d_register", "f_unregister"} -> 2
    [] OTHER -> 1

\* A call only moves towards its return: a decode whose registration fails
\* undoes it once (decode.rs:113-120), a free that is refused does not come
\* back (buffer_registry.rs:92-93).  What a call can wait for is the mutex alone.
CallsAdvance ==
  [][\A t \in Threads : pc[t] # "idle" =>
       pc'[t] = pc[t] \/ StepsLeft(pc'[t]) < StepsLeft(pc[t])]_vars

\* The lock is held inside the critical sections only, where the next step of
\* the holder (buffer_registry.rs:69-74, 91-95) has no condition to wait for.
HolderInside ==
  \A t \in Threads : lock = t => pc[t] \in LockPoints

\* A call that goes on or returns has fewer steps left.
LEMMA StepAdvances ==
  ASSUME TypeOK, NEW t \in Threads, PluginStep(t)
  PROVE  /\ StepsLeft(pc'[t]) < StepsLeft(pc[t])
         /\ \A u \in Threads \ {t} : pc'[u] = pc[u]
<1> USE DEF TypeOK, Goto, Return, StepsLeft
<1>1. CASE DecodeFails(t) BY <1>1 DEF DecodeFails
<1>2. CASE DecodeSucceeds(t) BY <1>2 DEF DecodeSucceeds
<1>3. CASE AllocFails(t) BY <1>3 DEF AllocFails
<1>4. CASE Alloc(t) BY <1>4 DEF Alloc
<1>5. CASE Copy(t) BY <1>5 DEF Copy
<1>6. CASE RegisterLock(t) BY <1>6 DEF RegisterLock
<1>7. CASE Register(t) BY <1>7 DEF Register
<1>8. CASE RegisterPanics(t) BY <1>8 DEF RegisterPanics
<1>9. CASE Undo(t) BY <1>9 DEF Undo
<1>10. CASE Publish(t) BY <1>10 DEF Publish
<1>11. CASE FreeNothing(t) BY <1>11 DEF FreeNothing
<1>12. CASE LoadPointer(t) BY <1>12 DEF LoadPointer
<1>13. CASE ClearStruct(t) BY <1>13 DEF ClearStruct
<1>14. CASE UnregisterLock(t) BY <1>14 DEF UnregisterLock
<1>15. CASE Unregister(t) BY <1>15 DEF Unregister
<1>16. CASE Free(t) BY <1>16 DEF Free
<1> QED
  BY <1>1, <1>2, <1>3, <1>4, <1>5, <1>6, <1>7, <1>8, <1>9, <1>10, <1>11, <1>12, <1>13,
     <1>14, <1>15, <1>16 DEF PluginStep, DecodeStep, FreeStep

\* Every decode and every free takes at most six steps, whatever the other
\* threads and the host do in between.
THEOREM NothingTriedTwice == Spec => CallsAdvance
<1> DEFINE Advance == \A t \in Threads : pc[t] # "idle" =>
                        pc'[t] = pc[t] \/ StepsLeft(pc'[t]) < StepsLeft(pc[t])
<1>1. IInv /\ [Next]_vars => [Advance]_vars
  <2> SUFFICES ASSUME IInv, Next PROVE Advance
    OBVIOUS
  <2>1. ASSUME NEW s \in Slots, NEW b \in PixelBuffer, HostStore(s, b) PROVE Advance
    BY <2>1 DEF HostStore, localVars
  <2>2. ASSUME NEW t \in Threads, HostCall(t) PROVE Advance
    BY <2>2 DEF HostCall, CallDecode, CallFree, Goto, IInv, TypeOK
  <2>3. ASSUME NEW t \in Threads, PluginStep(t) PROVE Advance
    BY <2>3, StepAdvances DEF IInv
  <2> QED
    BY <2>1, <2>2, <2>3 DEF Next
<1> QED
  BY <1>1, Invariance, PTL DEF Spec, CallsAdvance

\* Whoever waits for the mutex waits for a thread that can go on: no deadlock,
\* poisoned or not.
THEOREM NoDeadlock == Spec => []HolderInside
<1>1. IInv => HolderInside
  BY DEF IInv, LockDiscipline, HolderInside
<1> QED
  BY <1>1, Invariance, PTL
=============================================================================
