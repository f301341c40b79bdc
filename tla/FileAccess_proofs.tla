------------------------- MODULE FileAccess_proofs --------------------------
(***************************************************************************)
(* Proofs about FileAccess, for any files, any size limit and any number   *)
(* of changes to the file during a call.                                   *)
(***************************************************************************)
EXTENDS FileAccess, TLAPS

\* A running call has no result yet, and one that has not begun no traces.
Progress ==
  /\ pc # "idle" => answer = NULL /\ info = NULL /\ file \in seen
  /\ pc \in {"validate", "stat", "open", "read"} \/ (pc = "idle" /\ answer = NULL) =>
       bytes = NULL
  /\ pc \notin {"idle", "validate"} => Valid
  /\ pc = "decode" => args.op = "decode"
  /\ pc = "lookup" => args.op = "metadata"

\* The handle is of a file the path named during the call.
HandleSeen ==
  /\ handle # NULL => handle \in seen /\ handle.kind \notin {"missing", "denied"}
  /\ pc \in {"read", "decode", "lookup"} => handle # NULL
  /\ pc \in {"validate", "stat", "open"} \/ (pc = "idle" /\ answer = NULL) => handle = NULL
  /\ linked => handle # NULL

\* The size returned by check_file_size was the file's at that moment.
StatSeen ==
  pc \in {"open", "read", "decode", "lookup"} \/ bytes # NULL =>
    \E f \in seen : f.kind # "missing" /\ ~TooLarge(f) /\ f.size = statSize

\* The contents were the file's when they were read, and long enough.
BytesSeen ==
  /\ bytes # NULL => bytes \in seen /\ bytes.kind = "regular" /\ ~TooShort(bytes)
  /\ pc \in {"decode", "lookup"} => bytes # NULL

\* What the host is told of the file comes from the stat and the prefix.
InfoRead ==
  info # NULL =>
    /\ answer = "Ok" /\ bytes # NULL
    /\ info = [size |-> statSize, format |-> bytes.format]

IInv ==
  /\ TypeOK
  /\ Progress
  /\ HandleSeen
  /\ StatSeen
  /\ BytesSeen
  /\ InfoRead
  /\ RefusalExplained
  /\ StableFileExact

\* Every error the decoder can return has a status of the ABI other than Ok.
LEMMA StatusInRange ==
  ASSUME NEW e \in DecodeErrors
  PROVE  StatusOf[e] \in Status \ {"Ok"}
<1>1. e \in {"Io", "Jpeg", "Profile", "InvalidFormat", "BufferTooShort", "Unsupported", "Other"}
  BY DEF DecodeErrors, StatusOf
<1>2. CASE e = "Io" BY <1>2 DEF StatusOf, Status
<1>3. CASE e = "Jpeg" BY <1>3 DEF StatusOf, Status
<1>4. CASE e = "Profile" BY <1>4 DEF StatusOf, Status
<1>5. CASE e = "InvalidFormat" BY <1>5 DEF StatusOf, Status
<1>6. CASE e = "BufferTooShort" BY <1>6 DEF StatusOf, Status
<1>7. CASE e = "Unsupported" BY <1>7 DEF StatusOf, Status
<1>8. CASE e = "Other" BY <1>8 DEF StatusOf, Status
<1> QED
  BY <1>1, <1>2, <1>3, <1>4, <1>5, <1>6, <1>7, <1>8

\* The arguments between calls are arguments.
LEMMA NoArgsInArgs == NoArgs \in Args
<1>1. 0 \in 0..1
  OBVIOUS
<1> QED
  BY <1>1 DEF NoArgs, Args

\* No call runs at the start.
LEMMA InitInv == Init => IInv
<1> SUFFICES ASSUME Init PROVE IInv
  OBVIOUS
<1> USE DEF Init
<1>1. TypeOK
  <2>1. changes \in 0..MaxChanges
    BY ChangesAssumption
  <2>2. statSize \in Nat /\ args \in Args
    BY NoArgsInArgs
  <2> QED
    BY <2>1, <2>2 DEF TypeOK
<1>2. Progress /\ HandleSeen /\ StatSeen /\ BytesSeen /\ InfoRead
  BY DEF Progress, HandleSeen, StatSeen, BytesSeen, InfoRead
<1>3. RefusalExplained /\ StableFileExact
  BY NullAssumption DEF RefusalExplained, StableFileExact, Status
<1> QED
  BY <1>1, <1>2, <1>3 DEF IInv

\* What is known of a file.
LEMMA FileFields ==
  ASSUME NEW f \in Files
  PROVE  /\ f.kind \in {"missing", "denied", "faulty", "regular"}
         /\ f.size \in Nat
         /\ f.format \in Formats
  BY FilesAssumption DEF Kinds

\* An opened file is regular or cannot be read.
LEMMA HandleFields ==
  ASSUME TypeOK, HandleSeen, handle # NULL
  PROVE  /\ handle \in Files /\ handle \in seen
         /\ handle.kind \in {"faulty", "regular"}
         /\ handle.size \in Nat
<1>1. handle \in Files /\ handle \in seen /\ handle.kind \notin {"missing", "denied"}
  BY DEF TypeOK, HandleSeen
<1> QED
  BY <1>1, FileFields

\* Every step keeps the types.
LEMMA TypeInv == IInv /\ [Next]_vars => TypeOK'
<1> SUFFICES ASSUME IInv, [Next]_vars PROVE TypeOK'
  OBVIOUS
<1> USE NullAssumption, FilesAssumption, ChangesAssumption DEF IInv, TypeOK, Return, fsVars, Status
<1>1. CASE UNCHANGED vars
  BY <1>1 DEF vars
<1>2. ASSUME NEW a \in Args, Call(a)
      PROVE  TypeOK'
  BY <1>2 DEF Call
<1>3. ASSUME NEW f \in Files, Modify(f) \/ Replace(f) \/ ModifyOpened(f)
      PROVE  TypeOK'
  <2>0. changes' \in 0..MaxChanges BY <1>3 DEF Modify, Replace, ModifyOpened, Changing
  <2>1. CASE Modify(f) BY <2>0, <1>3, <2>1 DEF Modify, Changing
  <2>2. CASE Replace(f) BY <2>0, <1>3, <2>2 DEF Replace, Changing
  <2>3. CASE ModifyOpened(f) BY <2>0, <1>3, <2>3 DEF ModifyOpened, Changing
  <2> QED BY <1>3, <2>1, <2>2, <2>3
<1>4. CASE Done
  <2>1. 0 \in 0..MaxChanges BY ChangesAssumption
  <2> QED BY <1>4, <2>1, NoArgsInArgs DEF Done
<1>5. CASE Validate BY <1>5 DEF Validate
<1>6. CASE Stat BY <1>6 DEF Stat
<1>7. CASE Open BY <1>7 DEF Open
<1>8. CASE ReadAll BY <1>8 DEF ReadAll
<1>9. CASE ReadPrefix BY <1>9 DEF ReadPrefix
<1>10. CASE Decode
  BY <1>10, StatusInRange DEF Decode
<1>11. CASE Lookup BY <1>11 DEF Lookup, Formats
<1> QED
  BY <1>1, <1>2, <1>3, <1>4, <1>5, <1>6, <1>7, <1>8, <1>9, <1>10, <1>11 DEF Next

\* A call goes through its phases in order.
LEMMA ProgressInv == IInv /\ [Next]_vars => Progress'
<1> SUFFICES ASSUME IInv, [Next]_vars PROVE Progress'
  OBVIOUS
<1> USE NullAssumption, FilesAssumption, ChangesAssumption DEF IInv, TypeOK, Return, fsVars, Progress, Valid, InfoRead, Status
<1>1. CASE UNCHANGED vars
  BY <1>1 DEF vars
<1>2. ASSUME NEW a \in Args, Call(a)
      PROVE  Progress'
  BY <1>2 DEF Call
<1>3. ASSUME NEW f \in Files, Modify(f) \/ Replace(f) \/ ModifyOpened(f)
      PROVE  Progress'
  <2>1. CASE Modify(f) BY <1>3, <2>1 DEF Modify, Changing
  <2>2. CASE Replace(f) BY <1>3, <2>2 DEF Replace, Changing
  <2>3. CASE ModifyOpened(f) BY <1>3, <2>3 DEF ModifyOpened, Changing
  <2> QED BY <1>3, <2>1, <2>2, <2>3
<1>4. CASE Done BY <1>4 DEF Done
<1>5. CASE Validate BY <1>5 DEF Validate
<1>6. CASE Stat BY <1>6 DEF Stat
<1>7. CASE Open BY <1>7 DEF Open
<1>8. CASE ReadAll BY <1>8 DEF ReadAll
<1>9. CASE ReadPrefix BY <1>9 DEF ReadPrefix
<1>10. CASE Decode
  BY <1>10, StatusInRange DEF Decode
<1>11. CASE Lookup BY <1>11 DEF Lookup
<1> QED
  BY <1>1, <1>2, <1>3, <1>4, <1>5, <1>6, <1>7, <1>8, <1>9, <1>10, <1>11 DEF Next

\* A writer moves the handle and the path together until a replacement parts them.
LEMMA HandleInv == IInv /\ [Next]_vars => HandleSeen'
<1> SUFFICES ASSUME IInv, [Next]_vars PROVE HandleSeen'
  OBVIOUS
<1> USE NullAssumption, FilesAssumption, ChangesAssumption DEF IInv, TypeOK, Return, fsVars, Progress, HandleSeen, Kinds, Status
<1>1. CASE UNCHANGED vars
  BY <1>1 DEF vars
<1>2. ASSUME NEW a \in Args, Call(a)
      PROVE  HandleSeen'
  BY <1>2 DEF Call
<1>3. ASSUME NEW f \in Files, Modify(f) \/ Replace(f) \/ ModifyOpened(f)
      PROVE  HandleSeen'
  <2>1. CASE Modify(f) BY <1>3, <2>1 DEF Modify, Changing
  <2>2. CASE Replace(f) BY <1>3, <2>2 DEF Replace, Changing
  <2>3. CASE ModifyOpened(f) BY <1>3, <2>3 DEF ModifyOpened, Changing
  <2> QED BY <1>3, <2>1, <2>2, <2>3
<1>4. CASE Done BY <1>4 DEF Done
<1>5. CASE Validate BY <1>5 DEF Validate
<1>6. CASE Stat BY <1>6 DEF Stat
<1>7. CASE Open BY <1>7 DEF Open
<1>8. CASE ReadAll BY <1>8 DEF ReadAll
<1>9. CASE ReadPrefix BY <1>9 DEF ReadPrefix
<1>10. CASE Decode
  BY <1>10, StatusInRange DEF Decode
<1>11. CASE Lookup BY <1>11 DEF Lookup
<1> QED
  BY <1>1, <1>2, <1>3, <1>4, <1>5, <1>6, <1>7, <1>8, <1>9, <1>10, <1>11 DEF Next

\* What the stat saw stays among the states seen.
LEMMA StatInv == IInv /\ [Next]_vars => StatSeen'
<1> SUFFICES ASSUME IInv, [Next]_vars PROVE StatSeen'
  OBVIOUS
<1> USE NullAssumption, FilesAssumption, ChangesAssumption DEF IInv, TypeOK, Return, fsVars, Progress, StatSeen, TooLarge, Oversized
<1>1. CASE UNCHANGED vars
  BY <1>1 DEF vars
<1>2. ASSUME NEW a \in Args, Call(a)
      PROVE  StatSeen'
  BY <1>2 DEF Call
<1>3. ASSUME NEW f \in Files, Modify(f) \/ Replace(f) \/ ModifyOpened(f)
      PROVE  StatSeen'
  <2>1. CASE Modify(f) BY <1>3, <2>1 DEF Modify, Changing
  <2>2. CASE Replace(f) BY <1>3, <2>2 DEF Replace, Changing
  <2>3. CASE ModifyOpened(f) BY <1>3, <2>3 DEF ModifyOpened, Changing
  <2> QED BY <1>3, <2>1, <2>2, <2>3
<1>4. CASE Done BY <1>4 DEF Done
<1>5. CASE Validate BY <1>5 DEF Validate
<1>6. CASE Stat BY <1>6 DEF Stat
<1>7. CASE Open BY <1>7 DEF Open
<1>8. CASE ReadAll BY <1>8 DEF ReadAll
<1>9. CASE ReadPrefix BY <1>9 DEF ReadPrefix
<1>10. CASE Decode BY <1>10 DEF Decode
<1>11. CASE Lookup BY <1>11 DEF Lookup
<1> QED
  BY <1>1, <1>2, <1>3, <1>4, <1>5, <1>6, <1>7, <1>8, <1>9, <1>10, <1>11 DEF Next

\* Contents are read through the handle.
LEMMA BytesInv == IInv /\ [Next]_vars => BytesSeen'
<1> SUFFICES ASSUME IInv, [Next]_vars PROVE BytesSeen'
  OBVIOUS
<1> USE NullAssumption, FilesAssumption, ChangesAssumption DEF IInv, TypeOK, Return, fsVars, Progress, HandleSeen, BytesSeen, TooShort, Prefixed, PrefixSize, Kinds
<1>1. CASE UNCHANGED vars
  BY <1>1 DEF vars
<1>2. ASSUME NEW a \in Args, Call(a)
      PROVE  BytesSeen'
  BY <1>2 DEF Call
<1>3. ASSUME NEW f \in Files, Modify(f) \/ Replace(f) \/ ModifyOpened(f)
      PROVE  BytesSeen'
  <2>1. CASE Modify(f) BY <1>3, <2>1 DEF Modify, Changing
  <2>2. CASE Replace(f) BY <1>3, <2>2 DEF Replace, Changing
  <2>3. CASE ModifyOpened(f) BY <1>3, <2>3 DEF ModifyOpened, Changing
  <2> QED BY <1>3, <2>1, <2>2, <2>3
<1>4. CASE Done BY <1>4 DEF Done
<1>5. CASE Validate BY <1>5 DEF Validate
<1>6. CASE Stat BY <1>6 DEF Stat
<1>7. CASE Open BY <1>7 DEF Open
<1>8. CASE ReadAll
  BY <1>8, HandleFields DEF ReadAll
<1>9. CASE ReadPrefix
  BY <1>9, HandleFields DEF ReadPrefix
<1>10. CASE Decode BY <1>10 DEF Decode
<1>11. CASE Lookup BY <1>11 DEF Lookup
<1> QED
  BY <1>1, <1>2, <1>3, <1>4, <1>5, <1>6, <1>7, <1>8, <1>9, <1>10, <1>11 DEF Next

\* The struct is written by the last step of a call.
LEMMA InfoInv == IInv /\ [Next]_vars => InfoRead'
<1> SUFFICES ASSUME IInv, [Next]_vars PROVE InfoRead'
  OBVIOUS
<1> USE NullAssumption, FilesAssumption, ChangesAssumption DEF IInv, TypeOK, Return, fsVars, Progress, BytesSeen, InfoRead
<1>1. CASE UNCHANGED vars
  BY <1>1 DEF vars
<1>2. ASSUME NEW a \in Args, Call(a)
      PROVE  InfoRead'
  BY <1>2 DEF Call
<1>3. ASSUME NEW f \in Files, Modify(f) \/ Replace(f) \/ ModifyOpened(f)
      PROVE  InfoRead'
  <2>1. CASE Modify(f) BY <1>3, <2>1 DEF Modify, Changing
  <2>2. CASE Replace(f) BY <1>3, <2>2 DEF Replace, Changing
  <2>3. CASE ModifyOpened(f) BY <1>3, <2>3 DEF ModifyOpened, Changing
  <2> QED BY <1>3, <2>1, <2>2, <2>3
<1>4. CASE Done BY <1>4 DEF Done
<1>5. CASE Validate BY <1>5 DEF Validate
<1>6. CASE Stat BY <1>6 DEF Stat
<1>7. CASE Open BY <1>7 DEF Open
<1>8. CASE ReadAll BY <1>8 DEF ReadAll
<1>9. CASE ReadPrefix BY <1>9 DEF ReadPrefix
<1>10. CASE Decode BY <1>10 DEF Decode
<1>11. CASE Lookup BY <1>11 DEF Lookup
<1> QED
  BY <1>1, <1>2, <1>3, <1>4, <1>5, <1>6, <1>7, <1>8, <1>9, <1>10, <1>11 DEF Next

\* A call refuses for what the stat, the open or the read saw.
LEMMA RefusalInv == IInv /\ [Next]_vars => RefusalExplained'
<1> SUFFICES ASSUME IInv, [Next]_vars PROVE RefusalExplained'
  OBVIOUS
<1> USE NullAssumption, FilesAssumption, ChangesAssumption DEF IInv, TypeOK, Return, fsVars, Progress, HandleSeen, BytesSeen, RefusalExplained, Valid, TooLarge, TooShort, Oversized, Prefixed, PrefixSize, Kinds, Status
<1>1. CASE UNCHANGED vars
  BY <1>1 DEF vars
<1>2. ASSUME NEW a \in Args, Call(a)
      PROVE  RefusalExplained'
  BY <1>2 DEF Call
<1>3. ASSUME NEW f \in Files, Modify(f) \/ Replace(f) \/ ModifyOpened(f)
      PROVE  RefusalExplained'
  <2>1. CASE Modify(f) BY <1>3, <2>1 DEF Modify, Changing
  <2>2. CASE Replace(f) BY <1>3, <2>2 DEF Replace, Changing
  <2>3. CASE ModifyOpened(f) BY <1>3, <2>3 DEF ModifyOpened, Changing
  <2> QED BY <1>3, <2>1, <2>2, <2>3
<1>4. CASE Done BY <1>4 DEF Done
<1>5. CASE Validate BY <1>5 DEF Validate
<1>6. CASE Stat BY <1>6 DEF Stat
<1>7. CASE Open BY <1>7 DEF Open
<1>8. CASE ReadAll
  BY <1>8, HandleFields DEF ReadAll
<1>9. CASE ReadPrefix
  BY <1>9, HandleFields DEF ReadPrefix
<1>10. CASE Decode BY <1>10 DEF Decode
<1>11. CASE Lookup BY <1>11 DEF Lookup
<1> QED
  BY <1>1, <1>2, <1>3, <1>4, <1>5, <1>6, <1>7, <1>8, <1>9, <1>10, <1>11 DEF Next

\* With one state seen, stat, open and read have seen the same.
LEMMA StableInv == IInv /\ [Next]_vars => StableFileExact'
<1> SUFFICES ASSUME IInv, [Next]_vars PROVE StableFileExact'
  OBVIOUS
<1> USE NullAssumption, FilesAssumption, ChangesAssumption DEF IInv, TypeOK, Return, fsVars, Progress, HandleSeen, StatSeen, BytesSeen, StableFileExact, Valid, TooLarge, TooShort, Oversized, Prefixed, PrefixSize, Kinds, Status
<1>1. CASE UNCHANGED vars
  BY <1>1 DEF vars
<1>2. ASSUME NEW a \in Args, Call(a)
      PROVE  StableFileExact'
  BY <1>2 DEF Call
<1>3. ASSUME NEW f \in Files, Modify(f) \/ Replace(f) \/ ModifyOpened(f)
      PROVE  StableFileExact'
  <2>1. CASE Modify(f) BY <1>3, <2>1 DEF Modify, Changing
  <2>2. CASE Replace(f) BY <1>3, <2>2 DEF Replace, Changing
  <2>3. CASE ModifyOpened(f) BY <1>3, <2>3 DEF ModifyOpened, Changing
  <2> QED BY <1>3, <2>1, <2>2, <2>3
<1>4. CASE Done BY <1>4 DEF Done
<1>5. CASE Validate BY <1>5 DEF Validate
<1>6. CASE Stat BY <1>6 DEF Stat
<1>7. CASE Open BY <1>7 DEF Open
<1>8. CASE ReadAll
  BY <1>8, HandleFields DEF ReadAll
<1>9. CASE ReadPrefix
  BY <1>9, HandleFields DEF ReadPrefix
<1>10. CASE Decode BY <1>10 DEF Decode
<1>11. CASE Lookup BY <1>11 DEF Lookup
<1> QED
  BY <1>1, <1>2, <1>3, <1>4, <1>5, <1>6, <1>7, <1>8, <1>9, <1>10, <1>11 DEF Next

-----------------------------------------------------------------------------
\* Every step keeps the invariant.
LEMMA NextInv == IInv /\ [Next]_vars => IInv'
BY TypeInv, ProgressInv, HandleInv, StatInv, BytesInv, InfoInv, RefusalInv, StableInv
DEF IInv

\* The invariant holds in every reachable state.
LEMMA Invariance == Spec => []IInv
<1>1. Init => IInv
  BY InitInv
<1>2. IInv /\ [Next]_vars => IInv'
  BY NextInv
<1> QED
  BY <1>1, <1>2, PTL DEF Spec

\* Every status is one of the ABI's, every file state one of the given.
THEOREM TypeCorrect == Spec => []TypeOK
  BY Invariance, PTL DEF IInv

\* However often the file changes during a call, a refusal names something that
\* was wrong with it at some moment of the call (file_io.rs:14-51).
THEOREM RefusalsExplained == Spec => []RefusalExplained
  BY Invariance, PTL DEF IInv

\* With a file that does not change, the status is a function of the file.
THEOREM StableExact == Spec => []StableFileExact
  BY Invariance, PTL DEF IInv

\* The size and the format reported are the file's at two moments of the call.
THEOREM MetadataSeen == Spec => []MetadataFromCall
<1>1. IInv => MetadataFromCall
  <2> SUFFICES ASSUME IInv, info # NULL
               PROVE  /\ answer = "Ok"
                      /\ info.size <= SizeLimit
                      /\ \E f \in seen : f.kind # "missing" /\ f.size = info.size
                      /\ \E f \in seen : f.kind = "regular" /\ f.format = info.format /\ ~TooShort(f)
    BY DEF MetadataFromCall
  <2>1. answer = "Ok" /\ bytes # NULL /\ info.size = statSize /\ info.format = bytes.format
    BY DEF IInv, InfoRead
  <2>2. PICK f \in seen : f.kind # "missing" /\ ~TooLarge(f) /\ f.size = statSize
    BY <2>1 DEF IInv, StatSeen
  <2>3. f.size \in Nat /\ f.size <= SizeLimit
    BY <2>2, FilesAssumption, LimitAssumption DEF IInv, TypeOK, TooLarge
  <2>4. bytes \in seen /\ bytes.kind = "regular" /\ ~TooShort(bytes)
    BY <2>1 DEF IInv, BytesSeen
  <2> QED
    BY <2>1, <2>2, <2>3, <2>4
<1> QED
  BY <1>1, Invariance, PTL

\* More than the limit is read only if the file grew after the size check
\* (file_io.rs:28-29).
THEOREM OversizedOnlyByRace == Spec => []OversizedReadIsRace
<1>1. IInv => OversizedReadIsRace
  BY DEF IInv, StatSeen, OversizedReadIsRace
<1> QED
  BY <1>1, Invariance, PTL
=============================================================================
