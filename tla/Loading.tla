------------------------------ MODULE Loading -------------------------------
(***************************************************************************)
(* What ig_plugin_get_api promises however many threads call it, in which  *)
(* order, with which host tables and after how many failed attempts: the   *)
(* plugin talks to one host, the first it accepted, for the rest of the    *)
(* process, and no table is handed out before that host is known.  Cells,  *)
(* builders and panics do not appear here.                                 *)
(***************************************************************************)
CONSTANTS Hosts, NULL

VARIABLES
  host,   \* the host whose log function the plugin calls
  ready   \* the host has been given a function table

Init == host = NULL /\ ready = FALSE

Adopt(h) ==
  /\ host = NULL
  /\ host' = h
  /\ UNCHANGED ready

Answer ==
  /\ host # NULL
  /\ ready' = TRUE
  /\ UNCHANGED host

Next == (\E h \in Hosts : Adopt(h)) \/ Answer

Spec == Init /\ [][Next]_<<host, ready>>
=============================================================================
