----------------------------- MODULE FileAccess -----------------------------
(***************************************************************************)
(* One call of codec_decode_static_raster or codec_load_metadata up to its *)
(* status (decode.rs, codec.rs, file_io.rs, types.rs), while other         *)
(* processes change the file.  Calls on different threads share nothing    *)
(* here, so one is modelled.                                               *)
(*                                                                         *)
(* A file is its kind, its size and the format its first bytes name.  A    *)
(* "denied" file can be examined but not opened, a "faulty" one can be     *)
(* opened but not read (a directory, a locked range, a failing disk).      *)
(***************************************************************************)
EXTENDS Naturals, FiniteSets

CONSTANTS
  Files,       \* the states a file can be in
  SizeLimit,   \* MAX_FILE_SIZE_BYTES
  MaxChanges,  \* bound on the changes to the file during a call
  NULL

\* The bytes of the format prefix.
PrefixSize == 4

Formats == {"device", "builtin", "unknown"}
Kinds == {"missing", "denied", "faulty", "regular"}

ASSUME FilesAssumption ==
  /\ Files \subseteq [kind : Kinds, size : Nat, format : Formats]
  /\ NULL \notin Files
ASSUME LimitAssumption == SizeLimit \in Nat /\ SizeLimit >= PrefixSize
ASSUME ChangesAssumption == MaxChanges \in Nat

VARIABLES
  file,      \* the file the path names
  handle,    \* the opened file, NULL before the open
  linked,    \* the path still names the opened file
  args,      \* the arguments of the call
  pc,        \* where the call is
  statSize,  \* the size check_file_size returned
  bytes,     \* the contents read, NULL if the call read nothing
  info,      \* what load_metadata wrote into IGImageInfo
  answer,    \* the status, NULL while the call runs
  seen,      \* history: the states, during the call, of the files the path named
  changes    \* changes to these files during the call

fsVars == <<file, handle, linked, seen, changes>>
vars == <<file, handle, linked, args, pc, statSize, bytes, info, answer, seen, changes>>

Args == [op : {"decode", "metadata"}, outIsNull : BOOLEAN, pathIsNull : BOOLEAN,
         frame : 0..1]

Status == {"Ok", "InvalidArg", "IoError", "DecodeFailed", "Unsupported",
           "Canceled", "NotImplemented", "Internal"}

ASSUME NullAssumption ==
  NULL \notin Status \cup [size : Nat, format : Formats]

TypeOK ==
  /\ file \in Files
  /\ handle \in Files \cup {NULL}
  /\ linked \in BOOLEAN
  /\ args \in Args
  /\ pc \in {"idle", "validate", "stat", "open", "read", "decode", "lookup"}
  /\ statSize \in Nat
  /\ bytes \in Files \cup {NULL}
  /\ info \in [size : Nat, format : Formats] \cup {NULL}
  /\ answer \in Status \cup {NULL}
  /\ seen \subseteq Files
  /\ changes \in 0..MaxChanges

NoArgs == [op |-> "decode", outIsNull |-> FALSE, pathIsNull |-> FALSE, frame |-> 0]

Init ==
  /\ file \in Files
  /\ handle = NULL
  /\ linked = FALSE
  /\ args = NoArgs
  /\ pc = "idle"
  /\ statSize = 0
  /\ bytes = NULL
  /\ info = NULL
  /\ answer = NULL
  /\ seen = {}
  /\ changes = 0

-----------------------------------------------------------------------------
(***************************************************************************)
(* The environment.                                                        *)
(***************************************************************************)
Call(a) ==
  /\ pc = "idle" /\ answer = NULL
  /\ args' = a
  /\ pc' = "validate"
  /\ seen' = {file}
  /\ UNCHANGED <<file, handle, linked, statSize, bytes, info, answer, changes>>

\* The host forgets the call.
Done ==
  /\ pc = "idle" /\ answer # NULL
  /\ answer' = NULL /\ args' = NoArgs
  /\ handle' = NULL /\ linked' = FALSE
  /\ statSize' = 0 /\ bytes' = NULL /\ info' = NULL
  /\ seen' = {} /\ changes' = 0
  /\ UNCHANGED <<file, pc>>

Changing(f) ==
  /\ pc # "idle"
  /\ changes < MaxChanges
  /\ changes' = changes + 1
  /\ seen' = seen \cup {f}
  /\ UNCHANGED <<args, pc, statSize, bytes, info, answer>>

\* Another process writes into the file or truncates it...
Modify(f) ==
  /\ Changing(f)
  /\ file.kind = "regular" /\ f.kind = "regular" /\ f # file
  /\ file' = f
  /\ handle' = IF linked THEN f ELSE handle
  /\ UNCHANGED linked

\* ... or removes it or puts another one, perhaps alike, in its place...
Replace(f) ==
  /\ Changing(f)
  /\ file' = f
  /\ linked' = FALSE
  /\ UNCHANGED handle

\* ... or goes on writing the opened file after the path has left it.
ModifyOpened(f) ==
  /\ Changing(f)
  /\ handle # NULL /\ ~linked
  /\ handle.kind = "regular" /\ f.kind = "regular" /\ f # handle
  /\ handle' = f
  /\ UNCHANGED <<file, linked>>

-----------------------------------------------------------------------------
(***************************************************************************)
(* The call.                                                               *)
(***************************************************************************)
Return(status) ==
  /\ pc' = "idle"
  /\ answer' = status

Refused(a) ==
  \/ a.outIsNull
  \/ a.pathIsNull
  \/ a.op = "decode" /\ a.frame # 0

Validate ==
  /\ pc = "validate"
  /\ \/ /\ Refused(args)
        /\ Return("InvalidArg")
     \/ /\ ~Refused(args)
        /\ pc' = "stat"
        /\ UNCHANGED answer
  /\ UNCHANGED <<fsVars, args, statSize, bytes, info>>

\* Slips: a file of exactly the limit is refused; the size is not compared; any
\* contents hold a prefix.
OversizedFromLimit(f) == f.size >= SizeLimit
OversizedNever(f) == FALSE
PrefixedAlways(f) == TRUE

Oversized(f) == f.size > SizeLimit
Prefixed(f) == f.size >= PrefixSize

\* check_file_size
Stat ==
  /\ pc = "stat"
  /\ \/ /\ file.kind = "missing"
        /\ Return("IoError")
        /\ UNCHANGED statSize
     \/ /\ file.kind # "missing" /\ Oversized(file)
        /\ Return("DecodeFailed")
        /\ UNCHANGED statSize
     \/ /\ file.kind # "missing" /\ ~Oversized(file)
        /\ statSize' = file.size
        /\ pc' = "open"
        /\ UNCHANGED answer
  /\ UNCHANGED <<fsVars, args, bytes, info>>

Open ==
  /\ pc = "open"
  /\ \/ /\ file.kind \in {"missing", "denied"}
        /\ Return("IoError")
        /\ UNCHANGED <<handle, linked>>
     \/ /\ file.kind \notin {"missing", "denied"}
        /\ handle' = file
        /\ linked' = TRUE
        /\ pc' = "read"
        /\ UNCHANGED answer
  /\ UNCHANGED <<file, seen, changes, args, statSize, bytes, info>>

\* read_ithmb_file: the whole file, however long it is by now.
ReadAll ==
  /\ pc = "read" /\ args.op = "decode"
  /\ \/ /\ handle.kind = "faulty"
        /\ Return("IoError")
        /\ UNCHANGED bytes
     \/ /\ handle.kind # "faulty" /\ ~Prefixed(handle)
        /\ Return("DecodeFailed")
        /\ UNCHANGED bytes
     \/ /\ handle.kind # "faulty" /\ Prefixed(handle)
        /\ bytes' = handle
        /\ pc' = "decode"
        /\ UNCHANGED answer
  /\ UNCHANGED <<fsVars, args, statSize, info>>

\* read_ithmb_prefix: every error of read_exact is DecodeFailed.
ReadPrefix ==
  /\ pc = "read" /\ args.op = "metadata"
  /\ \/ /\ handle.kind = "faulty" \/ ~Prefixed(handle)
        /\ Return("DecodeFailed")
        /\ UNCHANGED bytes
     \/ /\ handle.kind # "faulty" /\ Prefixed(handle)
        /\ bytes' = handle
        /\ pc' = "lookup"
        /\ UNCHANGED answer
  /\ UNCHANGED <<fsVars, args, statSize, info>>

\* Slip: an error without a case of its own gets a status the call does not have.
StatusOdd ==
  [Io |-> "IoError", Jpeg |-> "DecodeFailed", Profile |-> "DecodeFailed",
   InvalidFormat |-> "InvalidArg", BufferTooShort |-> "InvalidArg",
   Unsupported |-> "Unsupported", Canceled |-> "Canceled", Other |-> "EncodeFailed"]

\* ig_status_from_decode_error.
StatusOf ==
  [Io |-> "IoError", Jpeg |-> "DecodeFailed", Profile |-> "DecodeFailed",
   InvalidFormat |-> "InvalidArg", BufferTooShort |-> "InvalidArg",
   Unsupported |-> "Unsupported", Canceled |-> "Canceled", Other |-> "Internal"]

\* The errors decode_ithmb can return.  It can be canceled only through the flag
\* it polls, the call's own, which nothing sets before it has returned; the host's
\* token is never read.
DecodeErrors == DOMAIN StatusOf \ {"Canceled"}

\* The allocation that follows a successful decode is in PixelBufferLifecycle.
Decode ==
  /\ pc = "decode"
  /\ \/ Return("Ok")
     \/ \E e \in DecodeErrors : Return(StatusOf[e])
  /\ UNCHANGED <<fsVars, args, statSize, bytes, info>>

\* Slip: the host's struct is filled before the profile is known.
LookupFillsFirst ==
  /\ pc = "lookup"
  /\ info' = [size |-> statSize, format |-> bytes.format]
  /\ \/ /\ bytes.format # "unknown"
        /\ Return("Ok")
     \/ /\ bytes.format = "unknown"
        /\ Return("NotImplemented")
  /\ UNCHANGED <<fsVars, args, statSize, bytes>>

\* The device profiles, then the built-in database (which may fail to load).
Lookup ==
  /\ pc = "lookup"
  /\ \/ /\ bytes.format \in {"device", "builtin"}
        /\ info' = [size |-> statSize, format |-> bytes.format]
        /\ Return("Ok")
     \/ /\ bytes.format # "device"
        /\ Return("Internal")
        /\ UNCHANGED info
     \/ /\ bytes.format = "unknown"
        /\ Return("NotImplemented")
        /\ UNCHANGED info
  /\ UNCHANGED <<fsVars, args, statSize, bytes>>

Next ==
  \/ \E a \in Args : Call(a)
  \/ Done
  \/ \E f \in Files : Modify(f) \/ Replace(f) \/ ModifyOpened(f)
  \/ Validate \/ Stat \/ Open \/ ReadAll \/ ReadPrefix \/ Decode \/ Lookup

Spec == Init /\ [][Next]_vars

-----------------------------------------------------------------------------
Valid == ~Refused(args)
TooLarge(f) == f.size > SizeLimit
TooShort(f) == f.size < PrefixSize

\* If nothing changes the file during the call, the status is determined by the
\* file, whatever the order in which the code looks at it (the error contract,
\* SPECIFICATION.md:357-369) - except that a file that can be opened but not
\* read is an IoError for decode and a DecodeFailed for metadata (file_io.rs:29, 49).
\* The short buffer of SPECIFICATION.md:365 is the decoder's BufferTooShort
\* (types.rs:376): a file without a whole prefix never gets that far.
StableFileExact ==
  \A f \in Files : answer # NULL /\ Valid /\ seen = {f} =>
    /\ f.kind = "missing" => answer = "IoError"
    /\ f.kind # "missing" /\ TooLarge(f) => answer = "DecodeFailed"
    /\ f.kind = "denied" /\ ~TooLarge(f) => answer = "IoError"
    /\ f.kind = "faulty" /\ ~TooLarge(f) =>
         answer = IF args.op = "decode" THEN "IoError" ELSE "DecodeFailed"
    /\ f.kind = "regular" /\ TooShort(f) => answer = "DecodeFailed"
    /\ f.kind = "regular" /\ ~TooShort(f) /\ ~TooLarge(f) /\ args.op = "metadata" =>
         /\ f.format = "device" => answer = "Ok"
         /\ f.format = "unknown" => answer \in {"NotImplemented", "Internal"}
         /\ answer = "Ok" => info = [size |-> f.size, format |-> f.format]

\* A file that changes under the call may be refused, but never for a reason
\* it did not have at some moment of the call.
RefusalExplained ==
  answer # NULL /\ Valid /\ bytes = NULL =>
    \/ answer = "IoError" /\ \E f \in seen : f.kind # "regular"
    \/ answer = "DecodeFailed" /\ \E f \in seen : f.kind = "faulty" \/ TooLarge(f) \/ TooShort(f)

\* Metadata is only answered from states the file had during the call, and the
\* size reported is within the limit; size and format may come from two states.
MetadataFromCall ==
  info # NULL =>
    /\ answer = "Ok"
    /\ info.size <= SizeLimit
    /\ \E f \in seen : f.kind # "missing" /\ f.size = info.size
    /\ \E f \in seen : f.kind = "regular" /\ f.format = info.format /\ ~TooShort(f)

\* A decode takes more than the limit into memory (lib.rs:69-71 says never) only
\* if the file was within the limit at an earlier moment of the same call.
OversizedReadIsRace ==
  bytes # NULL /\ args.op = "decode" /\ TooLarge(bytes) =>
    \E f \in seen : f.kind # "missing" /\ ~TooLarge(f)
=============================================================================
