--------------------------- MODULE OrderedStream ---------------------------
(***************************************************************************)
(* What an ordered receive buffer promises the goroutine that reads it.    *)
(* The remote end put the NData units 0 .. NData-1 on the stream and then  *)
(* closed it.  The reader sees them in the order they were written, none   *)
(* lost or repeated, and meets the end of the stream only after the last   *)
(* one, unless this side gave the stream up itself.                        *)
(***************************************************************************)
EXTENDS Integers, Sequences

CONSTANT NData        \* units written by the remote end before it closes

VARIABLES
  out,                \* what Read has returned so far
  eof,                \* Read has returned io.EOF
  aborted             \* the stream was closed on this side

vars == <<out, eof, aborted>>

TypeOK ==
  /\ out \in Seq(0 .. NData - 1)
  /\ eof \in BOOLEAN
  /\ aborted \in BOOLEAN

Init ==
  /\ out = << >>
  /\ eof = FALSE
  /\ aborted = FALSE

(* Some of the units that follow the last one returned are returned. *)
Deliver ==
  /\ ~eof
  /\ \E n \in 1 .. NData - Len(out) :
        out' = out \o [i \in 1 .. n |-> Len(out) + i - 1]
  /\ UNCHANGED <<eof, aborted>>

Abort ==
  /\ ~aborted
  /\ aborted' = TRUE
  /\ UNCHANGED <<out, eof>>

End ==
  /\ ~eof
  /\ aborted \/ Len(out) = NData
  /\ eof' = TRUE
  /\ UNCHANGED <<out, aborted>>

Next == Deliver \/ Abort \/ End

Spec == Init /\ [][Next]_vars
=============================================================================
