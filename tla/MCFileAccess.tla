---------------------------- MODULE MCFileAccess ----------------------------
(***************************************************************************)
(* Files for FileAccess: every kind, and regular files at, one above and   *)
(* one below both size boundaries.                                         *)
(***************************************************************************)
EXTENDS FileAccess

MCFiles ==
  [kind : {"regular"}, size : {PrefixSize - 1, PrefixSize, SizeLimit, SizeLimit + 1},
   format : {"device", "unknown"}]
    \cup {[kind |-> "regular", size |-> PrefixSize, format |-> "builtin"]}
    \cup [kind : {"denied", "faulty"}, size : {PrefixSize, SizeLimit + 1}, format : {"device"}]
    \cup {[kind |-> "missing", size |-> 0, format |-> "unknown"]}
=============================================================================
