------------------------------ MODULE NhrGzProofs ------------------------------
(***************************************************************************)
(* Theorems about the output buffers of nhr_gz.c, for every size of the    *)
(* growth step, of zlib's output and of uLong.                             *)
(***************************************************************************)
EXTENDS NhrGz, TLAPS

USE DEF vars, blockVars, zipVars

\* Every step keeps the invariant.
LEMMA InvStep ==
    ASSUME IInv, [Next]_vars
    PROVE  IInv'
<1> USE SizesAssumption
    DEF IInv, TypeOK, DeflateInv, InflateInv, WritesFit, SizeIsExact,
        HeaderSize, next_out, Least
<1>1. CASE compress_begin
  BY <1>1 DEF compress_begin
<1>2. CASE deflate_input
  BY <1>2 DEF deflate_input, ZipWrites, Grow
<1>3. CASE deflate_finish
  BY <1>3 DEF deflate_finish, ZipWrites, Grow
<1>4. CASE nhr_gz_write_footer
  BY <1>4 DEF nhr_gz_write_footer, Footer
<1>5. CASE compress_end
  BY <1>5 DEF compress_end
<1>6. CASE decompress_begin
  BY <1>6 DEF decompress_begin
<1>7. CASE inflate
  BY <1>7 DEF inflate, ZipWrites
<1>8. CASE inflate_nothing
  BY <1>8 DEF inflate_nothing, ReturnNull
<1>9. CASE ZlibFails
  BY <1>9 DEF ZlibFails, refused, deflate_fails, inflate_fails, ReturnNull
<1>10. CASE UNCHANGED vars
  BY <1>10
<1>11. QED
  BY <1>1, <1>2, <1>3, <1>4, <1>5, <1>6, <1>7, <1>8, <1>9, <1>10
     DEF Next, Compressing, Decompressing, Terminating

\* The invariant holds in every state.
THEOREM Invariance == Spec => []IInv
<1>1. Init => IInv
  BY SizesAssumption
     DEF Init, IInv, TypeOK, DeflateInv, InflateInv, WritesFit, SizeIsExact
<1>2. IInv /\ [Next]_vars => IInv'
  BY InvStep
<1>3. QED
  BY <1>1, <1>2, PTL DEF Spec

\* The cursors and sizes of both loops stay natural numbers: avail_out never falls
\* below zero and the output is never shorter than what was taken from it.
THEOREM TypeCorrect == Spec => []TypeOK
<1>1. IInv => TypeOK
  BY DEF IInv
<1>2. QED
  BY Invariance, <1>1, PTL

\* Neither zlib nor the footer writes behind the block, however large the output is
\* and wherever it ends relative to the growth of the block, but for the bytes that
\* two values of type uLong take beyond the size of the footer.
THEOREM BufferSafety == Spec => []WritesFit
<1>1. IInv => WritesFit
  BY DEF IInv
<1>2. QED
  BY Invariance, <1>1, PTL

\* The size that is returned is the number of bytes of the complete output, without
\* the excess of its footer.
THEOREM ExactSize == Spec => []SizeIsExact
<1>1. IInv => SizeIsExact
  BY DEF IInv
<1>2. QED
  BY Invariance, <1>1, PTL
=============================================================================
