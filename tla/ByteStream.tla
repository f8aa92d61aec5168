----------------------------- MODULE ByteStream -----------------------------
(***************************************************************************)
(* What one direction of a Conn promises its applications: a stream of     *)
(* bytes that the sender ends once.  The receiver may be told of the end   *)
(* only when it has everything that came before it.  A Write that lost the *)
(* race with Close may still add to the stream after its end; a receiver   *)
(* that goes on reading after io.EOF can be given those bytes.             *)
(***************************************************************************)
EXTENDS Integers, Sequences

VARIABLES
  written,   \* bytes written
  end,       \* how many of them precede the end of the stream, -1 while it has none
  read,      \* bytes read
  eof        \* the receiver was told of the end

vars == <<written, end, read, eof>>

Init == written = << >> /\ end = -1 /\ read = << >> /\ eof = FALSE

Extends(t, s) == Len(t) > Len(s) /\ SubSeq(t, 1, Len(s)) = s

Write == Extends(written', written) /\ UNCHANGED <<end, read, eof>>

EndStream == end = -1 /\ end' = Len(written) /\ UNCHANGED <<written, read, eof>>

\* The next bytes, in the order they were written.
Read ==
  /\ Extends(read', read)
  /\ Len(read') <= Len(written) /\ read' = SubSeq(written, 1, Len(read'))
  /\ UNCHANGED <<written, end, eof>>

EOF ==
  /\ end >= 0 /\ Len(read) >= end
  /\ eof' = TRUE
  /\ UNCHANGED <<written, end, read>>

Next == Write \/ EndStream \/ Read \/ EOF

Spec == Init /\ [][Next]_vars
=============================================================================
