-------------------------------- MODULE NhrGz --------------------------------
(***************************************************************************)
(* The output buffers of nhr_gz_compress and nhr_gz_decompress (nhr_gz.c). *)
(*                                                                         *)
(* zlib is external: deflate and inflate write some bytes at next_out, at  *)
(* most avail_out of them, and say whether the stream is complete.  What   *)
(* the code adds is the block they write to, its growth by                 *)
(* NHR_GZ_CHUNK_SIZE, the gzip header and footer, and the counting that    *)
(* gives the size of the result.                                           *)
(***************************************************************************)
EXTENDS Naturals

CONSTANTS
    NHR_GZ_CHUNK_SIZE,   \* 512 in the source
    NHR_GZ_HEADER_SIZE,  \* 10
    NHR_GZ_FOOTER_SIZE,  \* 8
    ULongSizes,          \* what sizeof(uLong) may be: 4, or 8 on LP64 platforms
    MaxOut               \* bound: bytes zlib writes for one call

ASSUME SizesAssumption ==
    /\ NHR_GZ_CHUNK_SIZE \in Nat \ {0}
    /\ NHR_GZ_HEADER_SIZE \in Nat
    /\ NHR_GZ_FOOTER_SIZE \in Nat
    /\ \A uLong \in ULongSizes : uLong \in Nat /\ 2 * uLong >= NHR_GZ_FOOTER_SIZE
    /\ MaxOut \in Nat

VARIABLES
    pc,
    method,         \* "GZIP" or "DEFLATE"
    out_size,
    writed,
    avail_out,      \* zip.avail_out
    allocated,      \* size of the block out_buff points to
    end,            \* place behind the last byte written in that block
    excess,         \* bytes of the footer beyond those counted for it
    left,           \* bytes zlib has yet to write
    truncated,      \* the input of inflate ends before its stream does
    total_out,      \* zip.total_out
    result,         \* "none", "null" or "block"
    result_size     \* *compressed_size or *decompressed_size

blockVars == <<out_size, writed, avail_out, allocated, end>>
zipVars   == <<left, truncated, total_out>>
vars      == <<pc, method, blockVars, excess, zipVars, result, result_size>>

Init ==
    /\ pc \in {"compress", "decompress"}
    /\ method \in {"GZIP", "DEFLATE"}
    /\ out_size = 0 /\ writed = 0 /\ avail_out = 0 /\ allocated = 0 /\ end = 0
    /\ excess = 0
    /\ left \in 0 .. MaxOut
    /\ truncated \in BOOLEAN /\ (pc = "compress" => ~truncated)
    /\ total_out = 0
    /\ result = "none" /\ result_size = 0

HeaderSize == IF method = "GZIP" THEN NHR_GZ_HEADER_SIZE ELSE 0

Least(a, b) == IF a < b THEN a ELSE b

\* An early return: the block is freed and NULL is returned.
ReturnNull ==
    /\ pc' = "done" /\ result' = "null"
    /\ UNCHANGED <<method, blockVars, excess, zipVars, result_size>>

\* zlib writes n bytes from place at on.
ZipWrites(at, n) ==
    /\ n <= avail_out
    /\ left' = left - n
    /\ total_out' = total_out + n
    /\ end' = IF n > 0 THEN at + n ELSE end
    /\ UNCHANGED truncated

\* The input is empty or, to decompress, not a gzip file, or zlib does not
\* start; there is no block yet.
refused == pc \in {"compress", "decompress"} /\ ReturnNull

-----------------------------------------------------------------------------
(***************************************************************************)
(* nhr_gz_compress.                                                        *)
(***************************************************************************)

\* The first block, with the header of a gzip file.  next_out goes on from
\* writed + NHR_GZ_CHUNK_SIZE - avail_out until the block grows.
compress_begin ==
    /\ pc = "compress"
    /\ out_size' = NHR_GZ_CHUNK_SIZE + HeaderSize
    /\ allocated' = out_size'
    /\ writed' = HeaderSize
    /\ end' = HeaderSize
    /\ avail_out' = NHR_GZ_CHUNK_SIZE
    /\ pc' = "deflate"
    /\ UNCHANGED <<method, excess, zipVars, result, result_size>>

next_out == writed + (NHR_GZ_CHUNK_SIZE - avail_out)

\* Mutant: the block grows, the place to go on from does not move.
Grow_in_place(room) ==
    IF room = 0
    THEN /\ out_size' = out_size + NHR_GZ_CHUNK_SIZE
         /\ allocated' = out_size'
         /\ avail_out' = NHR_GZ_CHUNK_SIZE
         /\ UNCHANGED writed
    ELSE avail_out' = room /\ UNCHANGED <<out_size, allocated, writed>>

\* Mutant: avail_out grows with the block instead of starting again.
Grow_room(room) ==
    /\ out_size' = out_size + NHR_GZ_CHUNK_SIZE
    /\ allocated' = out_size'
    /\ writed' = writed + NHR_GZ_CHUNK_SIZE
    /\ avail_out' = room + NHR_GZ_CHUNK_SIZE

\* if (zip.avail_out == 0) at the end of a turn: room is what zlib left over.
Grow(room) ==
    IF room = 0
    THEN /\ out_size' = out_size + NHR_GZ_CHUNK_SIZE
         /\ allocated' = out_size'
         /\ writed' = writed + NHR_GZ_CHUNK_SIZE
         /\ avail_out' = NHR_GZ_CHUNK_SIZE
    ELSE avail_out' = room /\ UNCHANGED <<out_size, allocated, writed>>

\* while (zip.avail_in): deflate takes all input or stops at a full buffer,
\* and may keep some output back.
deflate_input ==
    /\ pc = "deflate"
    /\ \E n \in 0 .. Least(avail_out, left) :
         /\ ZipWrites(next_out, n)
         /\ Grow(avail_out - n)
         /\ \/ pc' = "finish"
            \/ avail_out - n = 0 /\ UNCHANGED pc
    /\ UNCHANGED <<method, excess, result, result_size>>

deflate_fails == pc \in {"deflate", "finish"} /\ ReturnNull

\* deflate(&zip, Z_FINISH) fills the buffer or completes the stream; when it
\* does both it may say either.
deflate_finish ==
    /\ pc = "finish"
    /\ LET n    == Least(avail_out, left)
           room == avail_out - n
       IN /\ ZipWrites(next_out, n)
          /\ \/ left = n /\ pc' = "footer"
                /\ avail_out' = room /\ UNCHANGED <<out_size, allocated, writed>>
             \/ room = 0 /\ Grow(room) /\ UNCHANGED pc
    /\ UNCHANGED <<method, excess, result, result_size>>

\* Two values of type uLong are stored from place at on.
Footer(at) ==
    \E uLong \in ULongSizes :
        /\ end' = at + 2 * uLong
        /\ excess' = 2 * uLong - NHR_GZ_FOOTER_SIZE

\* Mutant: no room is made for the footer.
nhr_gz_write_footer_unreserved ==
    /\ pc = "footer" /\ method = "GZIP"
    /\ LET at == NHR_GZ_HEADER_SIZE + total_out
       IN /\ Footer(at)
          /\ writed' = at + NHR_GZ_FOOTER_SIZE
          /\ result_size' = writed'
    /\ pc' = "done" /\ result' = "block"
    /\ UNCHANGED <<method, out_size, avail_out, allocated, zipVars>>

\* nhr_gz_write_footer: the footer behind the data, with room for the bytes counted.
nhr_gz_write_footer ==
    /\ pc = "footer" /\ method = "GZIP"
    /\ LET at == NHR_GZ_HEADER_SIZE + total_out
       IN /\ allocated' = IF out_size - at < NHR_GZ_FOOTER_SIZE
                          THEN out_size + NHR_GZ_FOOTER_SIZE ELSE allocated
          /\ Footer(at)
          /\ writed' = at + NHR_GZ_FOOTER_SIZE
          /\ result_size' = writed'
    /\ pc' = "done" /\ result' = "block"
    /\ UNCHANGED <<method, out_size, avail_out, zipVars>>

compress_end ==
    /\ pc = "footer" /\ method = "DEFLATE"
    /\ writed' = total_out
    /\ result_size' = total_out
    /\ pc' = "done" /\ result' = "block"
    /\ UNCHANGED <<method, out_size, avail_out, allocated, end, excess, zipVars>>

-----------------------------------------------------------------------------
(***************************************************************************)
(* nhr_gz_decompress.                                                      *)
(***************************************************************************)

decompress_begin ==
    /\ pc = "decompress"
    /\ out_size' = NHR_GZ_CHUNK_SIZE
    /\ allocated' = NHR_GZ_CHUNK_SIZE
    /\ avail_out' = NHR_GZ_CHUNK_SIZE
    /\ writed' = 0 /\ end' = 0
    /\ pc' = "inflate"
    /\ UNCHANGED <<method, excess, zipVars, result, result_size>>

\* Z_NEED_DICT, Z_DATA_ERROR, Z_MEM_ERROR or Z_STREAM_ERROR.
inflate_fails == pc = "inflate" /\ ReturnNull

\* Mutant: a full block counts as the end of the stream.
inflate_first_block ==
    /\ pc = "inflate"
    /\ LET n == Least(avail_out, left)
       IN /\ n > 0
          /\ ZipWrites(writed, n)
          /\ writed' = writed + n
          /\ pc' = "done" /\ result' = "block" /\ result_size' = writed'
    /\ UNCHANGED <<method, out_size, avail_out, allocated, excess>>

\* inflate writes all it can.  available_size is what the buffer has taken
\* since avail_out was last NHR_GZ_CHUNK_SIZE.
inflate ==
    /\ pc = "inflate"
    /\ LET n              == Least(avail_out, left)
           available_size == NHR_GZ_CHUNK_SIZE - (avail_out - n)
           stream_end     == left = n /\ ~truncated
           count          == writed + available_size
       IN /\ available_size > 0
          /\ ZipWrites(writed, n)
          /\ writed' = count
          /\ IF count < out_size
             THEN /\ avail_out' = NHR_GZ_CHUNK_SIZE - available_size
                  /\ UNCHANGED <<out_size, allocated>>
             ELSE /\ out_size' = out_size + NHR_GZ_CHUNK_SIZE
                  /\ allocated' = out_size'
                  /\ avail_out' = NHR_GZ_CHUNK_SIZE
          /\ IF stream_end
             THEN pc' = "done" /\ result' = "block" /\ result_size' = count
             ELSE UNCHANGED <<pc, result, result_size>>
    /\ UNCHANGED <<method, excess>>

\* Mutant: a turn without output is tried again.
inflate_nothing_again ==
    /\ pc = "inflate"
    /\ left = 0 /\ avail_out = NHR_GZ_CHUNK_SIZE
    /\ UNCHANGED vars

\* available_size is 0: the input is exhausted, or the content is empty.
inflate_nothing ==
    /\ pc = "inflate"
    /\ left = 0 /\ avail_out = NHR_GZ_CHUNK_SIZE
    /\ ReturnNull

-----------------------------------------------------------------------------
Compressing ==
    \/ compress_begin \/ deflate_input \/ deflate_finish
    \/ nhr_gz_write_footer \/ compress_end

Decompressing == decompress_begin \/ inflate \/ inflate_nothing

ZlibFails == refused \/ deflate_fails \/ inflate_fails

Terminating == pc = "done" /\ UNCHANGED vars

Next == Compressing \/ Decompressing \/ ZlibFails \/ Terminating

Spec == Init /\ [][Next]_vars

\* The loops are run by one thread that is scheduled; zlib need not fail.
FairSpec == Spec /\ WF_vars(Compressing \/ Decompressing)

-----------------------------------------------------------------------------
(***************************************************************************)
(* Properties.                                                             *)
(***************************************************************************)

TypeOK ==
    /\ pc \in {"compress", "deflate", "finish", "footer",
               "decompress", "inflate", "done"}
    /\ method \in {"GZIP", "DEFLATE"}
    /\ out_size \in Nat /\ writed \in Nat /\ allocated \in Nat /\ end \in Nat
    /\ avail_out \in 0 .. NHR_GZ_CHUNK_SIZE
    /\ left \in 0 .. MaxOut /\ total_out \in 0 .. MaxOut
    /\ truncated \in BOOLEAN
    /\ result \in {"none", "null", "block"}
    /\ result_size \in Nat /\ excess \in Nat

\* Nothing is written behind the block: neither what zlib writes while the
\* block grows, nor the footer, for which the growth leaves no certain room.  Only
\* what two values of type uLong exceed the 8 bytes of the footer by may lie behind
\* it: none if uLong has 32 bits, as a comment in nhr_gz_write_footer assumes.
WritesFit == end <= allocated + excess

\* The size returned is the number of bytes written, but for the excess of a footer,
\* without a gap or a byte counted twice, and what zlib wrote is all there: a
\* truncated stream gives NULL.
SizeIsExact ==
    result = "block" =>
        /\ result_size + excess = end
        /\ left = 0 /\ ~truncated

\* Both loops end, also for an input that stops in the middle of its stream.
Terminates == <>(pc = "done")

-----------------------------------------------------------------------------
(***************************************************************************)
(* The inductive invariant behind the safety properties.                   *)
(***************************************************************************)

\* While deflate runs, the block ends where avail_out does, and what was
\* written is the header and zlib's output without a gap.
DeflateInv ==
    /\ pc \in {"compress", "deflate", "finish", "footer"} => ~truncated
    /\ pc \in {"deflate", "finish", "footer"} =>
         /\ allocated = out_size
         /\ out_size = writed + NHR_GZ_CHUNK_SIZE
         /\ end = HeaderSize + total_out
         /\ end = next_out
    /\ pc = "footer" => left = 0

\* While inflate runs, a whole step is free behind what was written; this ends
\* only when the input does, and then inflate writes nothing any more.
InflateInv ==
    pc = "inflate" =>
        /\ allocated = out_size
        /\ \/ /\ avail_out = NHR_GZ_CHUNK_SIZE
              /\ writed = total_out /\ end = total_out
              /\ out_size = writed + NHR_GZ_CHUNK_SIZE
           \/ left = 0 /\ truncated

\* The inductive invariant.
IInv ==
    /\ TypeOK
    /\ left + total_out <= MaxOut
    /\ pc \in {"compress", "decompress"} => total_out = 0
    /\ result = "block" => pc = "done"
    /\ pc # "done" => excess = 0
    /\ DeflateInv /\ InflateInv /\ WritesFit /\ SizeIsExact

=============================================================================
