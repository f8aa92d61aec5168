--------------------------- MODULE MCRecordLayer ---------------------------
(***************************************************************************)
(* RecordLayer with a 2-bit sequence number (three records, then           *)
(* overflow), a plaintext that begins with a content type and ends in the  *)
(* padding byte, one that is a byte too long, and every way the padding    *)
(* length can be refused.  ChangeCipherSpec is a type Seal takes and       *)
(* Unseal does not.                                                        *)
(***************************************************************************)
EXTENDS RecordLayer, TLC

MCBaseIV == 0 :> TRUE @@ 1 :> FALSE
MCPlaintext == {<<23, 0>>, <<7, 0, 7>>}
MCPadding == {-1, 1, 9}
=============================================================================
