------------------------- MODULE MCHandshakeReader -------------------------
(***************************************************************************)
(* HandshakeReader with messages that are empty, fill the buffer exactly,  *)
(* and exceed it.                                                          *)
(***************************************************************************)
EXTENDS HandshakeReader

LOCAL INSTANCE SequencesExt

MCBody == {<< >>, <<2, 0, 0>>, <<1, 0, 0, 0>>}

\* Flatten is the community modules' FlattenSeq, here on up to three short sequences.
ASSUME FlattenAssumption ==
  LET Short == BoundedSeq(0 .. 1, 2)
  IN  \A s \in BoundedSeq(Short, 3) : Flatten(s) = FlattenSeq(s)
=============================================================================
