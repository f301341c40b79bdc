-------------------------- MODULE BufferOwnership ---------------------------
(***************************************************************************)
(* What the codec table promises a host that uses each IGPixelBuffer from  *)
(* one call at a time: a struct holds one decoded image from the moment    *)
(* decode answers Ok until the host frees it, and no other call, on any    *)
(* thread or struct, takes it away or changes it.  Addresses, the heap,    *)
(* the registry and its lock do not appear here.                           *)
(***************************************************************************)
CONSTANTS Threads, Slots, Images, Errors, NULL

VARIABLES
  holds,   \* the image each struct gives access to
  calls,   \* the call each thread is executing
  answer   \* the status of each thread's last decode

vars == <<holds, calls, answer>>

Call == [op : {"decode", "free"}, slot : Slots \cup {NULL}]

Init ==
  /\ holds = [s \in Slots |-> NULL]
  /\ calls = [t \in Threads |-> NULL]
  /\ answer = [t \in Threads |-> NULL]

InUse(s) == \E t \in Threads : calls[t] # NULL /\ calls[t].slot = s

Begin(t, call) ==
  /\ calls[t] = NULL
  /\ call.slot # NULL => ~InUse(call.slot)
  /\ call.op = "decode" /\ call.slot # NULL => holds[call.slot] = NULL
  /\ calls' = [calls EXCEPT ![t] = call]
  /\ answer' = [answer EXCEPT ![t] = NULL]
  /\ UNCHANGED holds

End(t, status) ==
  /\ calls' = [calls EXCEPT ![t] = NULL]
  /\ answer' = [answer EXCEPT ![t] = status]

Decoded(t) ==
  /\ calls[t] # NULL
  /\ calls[t].op = "decode"
  /\ calls[t].slot # NULL
  /\ \E i \in Images : holds' = [holds EXCEPT ![calls[t].slot] = i]
  /\ End(t, "Ok")

Refused(t) ==
  /\ calls[t] # NULL
  /\ calls[t].op = "decode"
  /\ \E status \in Errors : End(t, status)
  /\ UNCHANGED holds

\* The struct stops giving access before the free returns.
Released(t) ==
  /\ calls[t] # NULL
  /\ calls[t].op = "free"
  /\ calls[t].slot # NULL
  /\ holds' = [holds EXCEPT ![calls[t].slot] = NULL]
  /\ UNCHANGED <<calls, answer>>

FreeReturns(t) ==
  /\ calls[t] # NULL
  /\ calls[t].op = "free"
  /\ calls[t].slot # NULL => holds[calls[t].slot] = NULL
  /\ End(t, NULL)
  /\ UNCHANGED holds

Next ==
  \E t \in Threads :
    \/ \E call \in Call : Begin(t, call)
    \/ Decoded(t) \/ Refused(t) \/ Released(t) \/ FreeReturns(t)

Spec == Init /\ [][Next]_vars
=============================================================================
