------------------------------ MODULE NhrResponse ------------------------------
(***************************************************************************)
(* How libnhr assembles a response from the pieces that recv returns       *)
(* (nhr_response.c, driven by nhr_request_recv).                           *)
(*                                                                         *)
(* The server's message is a sequence of bytes; the network cuts it into   *)
(* segments.  Each segment is received into a stack buffer that is never   *)
(* cleared or terminated, and is handed to nhr_response_create or          *)
(* nhr_response_append; the parser of the chunks gets no length and reads  *)
(* on into what an earlier segment or an earlier call left in the buffer.  *)
(* Only bytes that the parser tells apart matter: hex digits, CR, LF and   *)
(* others.  The header is three bytes long here: the status line, the      *)
(* fields, and the blank line that ends it.                                *)
(***************************************************************************)
EXTENDS Naturals, Sequences, SequencesExt

CONSTANTS
    Messages,          \* what the server may send, see MessageType
    Streams,           \* the byte strings that nhr_gz_decompress accepts, and what
                       \* it makes of each
    OtherBytes,        \* bytes that the parser does not tell apart
    StackBytes,        \* what the stack may hold where the buffer is
    BuffSize,          \* NHR_RECV_BUFF_SIZE
    NHR_GZ_CHUNK_SIZE, \* growth step of the buffer of nhr_gz_decompress
    SplitHeader,       \* a segment may end within the header
    SplitChunks,       \* a segment may end within a chunk
    StaleDigits        \* what is left in the buffer behind a segment with chunks
                       \* may read as the size of a chunk

Header == <<"status", "fields", "blank">>
CRLF   == <<"cr", "lf">>
Digits == {"0", "1", "2", "3"}
Hex    == [d \in Digits |-> CASE d = "0" -> 0 [] d = "1" -> 1 [] d = "2" -> 2 [] d = "3" -> 3]

Octets == Digits \cup {"cr", "lf", "nul", "noise", "status", "fields", "blank"} \cup OtherBytes

\* A message: its fields, the parts of its body (the size line of a chunk and the
\* data), the body that these carry, and bytes after its end.
MessageType ==
    [content_length : Nat, chunked : BOOLEAN, gzip : BOOLEAN,
     frames : Seq([size : Seq(Octets), data : Seq(Octets)]),
     packed : Seq(Octets), trash : Seq(Octets)]

ASSUME MessagesAssumption == \A m \in Messages : m \in MessageType
ASSUME StreamsAssumption  == \A b \in DOMAIN Streams : /\ b \in Seq(Octets) \ {<<>>}
                                                      /\ Streams[b] \in Seq(Octets) \ {<<>>}
ASSUME StackAssumption    == StackBytes \subseteq Octets \ {"status", "fields", "blank"}
ASSUME SizesAssumption    == BuffSize \in Nat \ {0} /\ NHR_GZ_CHUNK_SIZE \in Nat \ {0}
ASSUME SwitchesAssumption == /\ SplitHeader \in BOOLEAN /\ SplitChunks \in BOOLEAN
                             /\ StaleDigits \in BOOLEAN

VARIABLES
    message,      \* the message of this behaviour
    received,     \* how many of its bytes recv has returned
    buff,         \* the buffer of nhr_request_recv
    received_len, \* the length of the last segment
    response,     \* the nhr_response_struct, all zero until it is created
    created,      \* r->response is not NULL
    str,          \* the cursor of nhr_response_read_chunks
    pc            \* "recv", "parse", "chunks" or "finish"

vars == <<message, received, buff, received_len, response, created, str, pc>>

\* What is on the wire: the frames, the data in them, and the whole message.
FrameBytes(m) ==
    [i \in 1 .. Len(m.frames) |->
       IF m.chunked THEN m.frames[i].size \o CRLF \o m.frames[i].data \o CRLF
       ELSE m.frames[i].data]

FrameData(m) == [i \in 1 .. Len(m.frames) |-> m.frames[i].data]

FirstFrames(m, k) == FlattenSeq(SubSeq(FrameBytes(m), 1, k))
FirstData(m, k)   == FlattenSeq(SubSeq(FrameData(m), 1, k))

Wire(m) == Header \o (FlattenSeq(FrameBytes(m)) \o m.trash)

\* Where the message ends, as a count of bytes; the trash follows.
End(m) == Len(Header) + Len(FlattenSeq(FrameBytes(m)))

Zero == [status_code |-> FALSE, content_length |-> 0, chunked |-> FALSE,
         gzip |-> FALSE, body |-> <<>>, body_size |-> 0, allocated |-> 0, end |-> 0,
         is_all_chunks_processed |-> FALSE, is_finished |-> FALSE]

\* A buffer as a call of nhr_request_recv finds it on the stack.
StackBuffers == {[i \in 1 .. BuffSize |-> b] : b \in StackBytes}

Init ==
    /\ message \in Messages
    /\ received = 0
    /\ buff \in StackBuffers
    /\ received_len = 0
    /\ response = Zero
    /\ created = FALSE
    /\ str = 1
    /\ pc = "recv"

-----------------------------------------------------------------------------
(***************************************************************************)
(* The helpers of nhr_response.c, as functions of the response.  body holds*)
(* the body_len bytes stored; allocated is the size of the block that r->  *)
(* body points to, which body_size is meant to record; end is where in that*)
(* block the last copy ended.                                              *)
(***************************************************************************)

\* Mutant: what exceeds Content-Length is kept.
nhr_response_fix_body_len_never(r) == r

nhr_response_fix_body_len(r) ==
    IF r.content_length > 0 /\ Len(r.body) > r.content_length
    THEN [r EXCEPT !.body = SubSeq(@, 1, r.content_length)]
    ELSE r

\* Mutant: the block grows only if the new data alone does not fit.
nhr_response_add_body_data_small(r, data) ==
    LET required == Len(r.body) + Len(data)
        grown    == IF Len(data) > r.body_size
                    THEN [r EXCEPT !.allocated = required, !.body_size = required]
                    ELSE r
    IN nhr_response_fix_body_len([grown EXCEPT !.body = @ \o data, !.end = required])

\* Mutant: the block grows, but its new size is not recorded.
nhr_response_add_body_data_unrecorded(r, data) ==
    LET required == Len(r.body) + Len(data)
        grown    == IF required > r.body_size THEN [r EXCEPT !.allocated = required] ELSE r
    IN nhr_response_fix_body_len([grown EXCEPT !.body = @ \o data, !.end = required])

nhr_response_add_body_data(r, data) ==
    LET required == Len(r.body) + Len(data)
        grown    == IF required > r.body_size
                    THEN [r EXCEPT !.allocated = required, !.body_size = required]
                    ELSE r
    IN nhr_response_fix_body_len([grown EXCEPT !.body = @ \o data, !.end = required])

\* The content of a compressed body, or nothing (NULL): a body that is too short or
\* broken, or whose header is not the one this function expects, is refused.  The
\* content is in a block that grew by NHR_GZ_CHUNK_SIZE whenever it was full.
nhr_gz_decompress(b) == IF b \in DOMAIN Streams THEN Streams[b] ELSE <<>>

InflatedBlock(n) == ((n \div NHR_GZ_CHUNK_SIZE) + 1) * NHR_GZ_CHUNK_SIZE

\* A body that cannot be decompressed stays as it is; body_size is not updated.
nhr_response_ungzip(r) ==
    LET decompressed == nhr_gz_decompress(r.body)
    IN IF r.body # <<>> /\ decompressed # <<>>
       THEN [r EXCEPT !.body = decompressed, !.end = Len(decompressed),
                      !.allocated = InflatedBlock(Len(decompressed))]
       ELSE r

\* Mutant: only a response with a length can be finished.
nhr_response_is_finished_receiving_length(r) ==
    r.content_length > 0 /\ r.content_length = Len(r.body)

nhr_response_is_finished_receiving(r) ==
    IF r.chunked THEN r.is_all_chunks_processed
    ELSE r.content_length > 0 /\ r.content_length = Len(r.body)

\* Mutant: a compressed body is left compressed.
nhr_response_check_is_finished_packed(r) ==
    IF nhr_response_is_finished_receiving(r) THEN [r EXCEPT !.is_finished = TRUE] ELSE r

nhr_response_check_is_finished(r) ==
    IF nhr_response_is_finished_receiving(r)
    THEN [(IF r.gzip THEN nhr_response_ungzip(r) ELSE r) EXCEPT !.is_finished = TRUE]
    ELSE r

\* The status line and the fields found in the first segment.  A field is looked
\* up by its exact name anywhere in the buffer; message has what is found.  gzip and
\* deflate are one flag here: they differ in the header that zlib is told to expect.
ParseFields(r, data) ==
    IF Contains(data, "fields")
    THEN [r EXCEPT !.status_code = TRUE, !.content_length = message.content_length,
                   !.chunked = message.chunked, !.gzip = message.gzip]
    ELSE [r EXCEPT !.status_code = TRUE]

\* Mutant: the slack is subtracted from the length.
StoreBody_short(r, data) ==
    LET size == IF r.content_length > Len(data) THEN r.content_length - 32 ELSE Len(data)
    IN nhr_response_fix_body_len(
           [r EXCEPT !.body = data, !.end = Len(data), !.body_size = size, !.allocated = size])

\* The rest of the first segment as a body that is not chunked.
StoreBody(r, data) ==
    LET size == IF r.content_length > Len(data) THEN r.content_length + 32 ELSE Len(data)
    IN nhr_response_fix_body_len(
           [r EXCEPT !.body = data, !.end = Len(data), !.body_size = size, !.allocated = size])

-----------------------------------------------------------------------------
(***************************************************************************)
(* Receiving.                                                              *)
(***************************************************************************)

\* Where a segment may end, as a count of the bytes received by then.
Boundary(m, n) ==
    /\ n < Len(Header) => SplitHeader
    /\ m.chunked /\ ~SplitChunks /\ n > Len(Header) =>
         \E k \in 0 .. Len(m.frames) :
            n = Len(Header) + Len(FirstFrames(m, k)) \/ n = Len(Wire(m))

\* What the parser finds at a place of a buffer, whatever put it there.  What follows
\* the buffer in memory is taken to be 0.
ByteOf(b, i) == IF i <= BuffSize THEN b[i] ELSE "nul"

\* The byte there may begin the size of a chunk.
StartsSize(b, i) == ByteOf(b, i) \in Digits \cup {"cr", "lf"}

\* One turn of the loop of nhr_request_recv: recv fills the front of the buffer and
\* leaves the rest as it was.  The call may be a new one, with a buffer on the stack
\* that nothing initialises, unless a response that is finished has ended the calls.
nhr_request_recv ==
    /\ pc = "recv"
    /\ \E n \in 1 .. Len(Wire(message)) - received,
          left \in {buff} \cup (IF response.is_finished THEN {} ELSE StackBuffers) :
         /\ n <= BuffSize
         /\ Boundary(message, received + n)
         /\ message.chunked /\ ~StaleDigits => ~StartsSize(left, n + 1)
         /\ received' = received + n
         /\ received_len' = n
         /\ buff' = [i \in 1 .. BuffSize |-> IF i <= n THEN Wire(message)[received + i] ELSE left[i]]
    /\ pc' = "parse"
    /\ UNCHANGED <<message, response, created, str>>

Segment == [i \in 1 .. received_len |-> buff[i]]

\* nhr_response_create up to the chunks; a body is looked for only when the
\* end of the header is in the segment.
nhr_response_create ==
    /\ pc = "parse" /\ ~created
    /\ LET r == ParseFields(Zero, Segment)
           skiped == Len(Header)
       IN \/ /\ ~Contains(Segment, "blank")
             /\ response' = r /\ pc' = "finish" /\ UNCHANGED str
          \/ /\ Contains(Segment, "blank") /\ ~r.chunked
             /\ response' = StoreBody(r, SubSeq(Segment, skiped + 1, received_len))
             /\ pc' = "finish" /\ UNCHANGED str
          \/ /\ Contains(Segment, "blank") /\ r.chunked
             /\ response' = r /\ str' = skiped + 1 /\ pc' = "chunks"
    /\ created' = TRUE
    /\ UNCHANGED <<message, received, buff, received_len>>

\* nhr_response_append: all of the segment is body, or begins with a chunk.
nhr_response_append ==
    /\ pc = "parse" /\ created
    /\ \/ /\ response.chunked
          /\ str' = 1 /\ pc' = "chunks" /\ UNCHANGED response
       \/ /\ ~response.chunked
          /\ response' = nhr_response_add_body_data(response, Segment)
          /\ pc' = "finish" /\ UNCHANGED str
    /\ UNCHANGED <<message, received, buff, received_len, created>>

Byte(i) == ByteOf(buff, i)
Bytes(from, n) == [i \in 1 .. n |-> Byte(from + i - 1)]

\* The first place from i on whose byte is not in S.
SkipWhile(i, S) ==
    CHOOSE j \in i .. BuffSize + i :
        Byte(j) \notin S /\ \A k \in i .. j - 1 : Byte(k) \in S

\* sscanf("%X") skips white space before the digits.
ChunkDigits(i) ==
    LET from == SkipWhile(i, {"cr", "lf"})
    IN Bytes(from, SkipWhile(from, Digits) - from)

HexValue(ds) ==
    LET value[i \in 0 .. Len(ds)] == IF i = 0 THEN 0 ELSE 16 * value[i - 1] + Hex[ds[i]]
    IN value[Len(ds)]

\* Mutant: the cursor skips a whole line end after a chunk too many.
nhr_response_read_chunks_long ==
    /\ pc = "chunks"
    /\ LET digits    == ChunkDigits(str)
           chunk_len == HexValue(digits)
           after     == SkipWhile(str, Digits)
       IN \/ /\ digits # <<>> /\ chunk_len > 0
             /\ response' = nhr_response_add_body_data(response, Bytes(after + 2, chunk_len))
             /\ str' = after + 2 + chunk_len + 4
             /\ UNCHANGED pc
          \/ /\ digits = <<>> \/ chunk_len = 0
             /\ pc' = "finish"
             /\ UNCHANGED <<response, str>>
    /\ UNCHANGED <<message, received, buff, received_len, created>>

\* One turn of the loop of nhr_response_read_chunks.
nhr_response_read_chunks ==
    /\ pc = "chunks"
    /\ LET digits    == ChunkDigits(str)
           chunk_len == HexValue(digits)
           after     == SkipWhile(str, Digits)
       IN \/ /\ digits # <<>> /\ chunk_len > 0
             /\ response' = nhr_response_add_body_data(response, Bytes(after + 2, chunk_len))
             /\ str' = after + 2 + chunk_len + 2
             /\ UNCHANGED pc
          \/ /\ digits # <<>> /\ chunk_len = 0
             /\ response' = [response EXCEPT
                    !.is_all_chunks_processed = @ \/ Bytes(after, 4) = CRLF \o CRLF]
             /\ pc' = "finish"
             /\ UNCHANGED str
          \/ /\ digits = <<>>
             /\ pc' = "finish"
             /\ UNCHANGED <<response, str>>
    /\ UNCHANGED <<message, received, buff, received_len, created>>

\* The last call of nhr_response_create and of nhr_response_append.
finish ==
    /\ pc = "finish"
    /\ response' = nhr_response_check_is_finished(response)
    /\ pc' = "recv"
    /\ UNCHANGED <<message, received, buff, received_len, created, str>>

\* The server has sent everything, or the work thread hands the response on.
Terminating ==
    /\ pc = "recv"
    /\ received = Len(Wire(message)) \/ response.is_finished
    /\ UNCHANGED vars

Next ==
    \/ nhr_request_recv \/ nhr_response_create \/ nhr_response_append
    \/ nhr_response_read_chunks \/ finish
    \/ Terminating

Spec == Init /\ [][Next]_vars

\* The server sends the whole message and the work thread is scheduled.
FairSpec == Spec /\ WF_vars(Next)

-----------------------------------------------------------------------------
(***************************************************************************)
(* Properties.                                                             *)
(***************************************************************************)

ResponseType ==
    [status_code : BOOLEAN, content_length : Nat, chunked : BOOLEAN, gzip : BOOLEAN,
     body : Seq(Octets), body_size : Nat, allocated : Nat, end : Nat,
     is_all_chunks_processed : BOOLEAN, is_finished : BOOLEAN]

TypeOK ==
    /\ message \in Messages
    /\ received \in 0 .. Len(Wire(message))
    /\ received_len \in 0 .. received /\ received_len <= BuffSize
    /\ buff \in [1 .. BuffSize -> Octets]
    /\ created \in BOOLEAN
    /\ str \in Nat \ {0}
    /\ pc \in {"recv", "parse", "chunks", "finish"}
    /\ response \in ResponseType

\* The body as the library should deliver it: decompressed where that is possible.
Content(m) == IF m.gzip /\ m.packed \in DOMAIN Streams THEN Streams[m.packed] ELSE m.packed

\* A message whose content bytes behind its end can spoil: a decompressed body is no
\* longer as long as content_length says, so that more bytes are added to it, and
\* every later segment is a reason to decompress a body once more.
Fragile(m) ==
    /\ m.gzip /\ m.packed \in DOMAIN Streams
    /\ m.chunked => Content(m) \in DOMAIN Streams

\* The bytes of earlier segments.
Earlier == received - received_len

\* A segment has begun behind the end of such a message.
Spoiled == Fragile(message) /\ Earlier >= End(message)

\* A copy into the body ends within the block that r->body points to, through growth,
\* truncation and decompression, for any message and any segments.  What is added
\* behind a decompressed body is only known to end within body_size, which is still
\* the size of the block before (TrashIgnored).
BodyFits ==
    \/ response.end <= response.allocated
    \/ response.gzip /\ response.is_finished /\ response.end <= response.body_size

\* is_finished says that all data was received and processed: the body is then the
\* whole content, or the whole body as it was sent if that cannot be decompressed,
\* however the message was cut where SplitHeader, SplitChunks and StaleDigits allow
\* it, and until a segment begins behind the end of a message that is Fragile.
FinishedMeansWhole ==
    response.is_finished /\ ~Spoiled => response.body = Content(message)

\* The response implements ResponseContract: until it is finished the body is a
\* beginning of what the server sent, without a gap, a repetition or anything that
\* is not body; then it is the whole content, and bytes that come after its end ("some
\* trash was copyed, ignore it") change it only if it is Fragile.
Contract == INSTANCE ResponseContract
                WITH sent <- message.packed, content <- Content(message),
                     followed <- Fragile(message) /\ message.trash # <<>>,
                     body <- response.body, finished <- response.is_finished

ImplementsResponse == Contract!ResponseSpec

\* The cursor of the parser of the chunks stays in the segment it was given: with
\* whole chunks and no digit behind them it stops at the byte behind the segment.
CursorInSegment == pc = "chunks" => str <= received_len + 1

\* A message with a length or with chunks is found complete in the end.
EventuallyFinished ==
    (message.content_length > 0 \/ message.chunked) ~> response.is_finished

-----------------------------------------------------------------------------
(***************************************************************************)
(* What the comments in the source say, and the code does not do.          *)
(***************************************************************************)

\* Bytes behind the end of a body are ignored (nhr_response_fix_body_len: "some trash
\* was copyed, ignore it"): a body that is finished does not change, and what
\* nhr_response_add_body_data copies behind it stays in its block, whose size is
\* body_size ("allocated").
TrashIgnored ==
    [][response.is_finished =>
         /\ response'.body = response.body
         /\ response'.end <= response'.allocated]_vars

-----------------------------------------------------------------------------
(***************************************************************************)
(* What a correct server sends, and the inductive invariant for it.        *)
(***************************************************************************)

\* A message that the parser is meant for.  Each chunk has its size in digits, only
\* the last one is empty, and no digit follows it; a length is that of the body as
\* it is sent; nothing follows a body without a length.
WellFormed(m) ==
    /\ m.packed = FlattenSeq(FrameData(m))
    /\ m.chunked =>
         /\ m.content_length = 0
         /\ m.frames # <<>>
         /\ \A i \in 1 .. Len(m.frames) :
              LET f == m.frames[i]
              IN /\ f.size # <<>> /\ \A j \in 1 .. Len(f.size) : f.size[j] \in Digits
                 /\ HexValue(f.size) = Len(f.data)
                 /\ f.data = <<>> <=> i = Len(m.frames)
         /\ \A i \in 1 .. Len(m.trash) : m.trash[i] \notin Digits
    /\ ~m.chunked =>
         /\ m.content_length \in {0, Len(m.packed)}
         /\ m.content_length = 0 => m.trash = <<>>

\* Such a server, and the header in one segment.  A body that is not chunked may be
\* cut anywhere and find anything in the buffer; chunks are not cut, and what is left
\* behind them in the buffer does not read as the size of one more.
Setting ==
    /\ \A m \in Messages : WellFormed(m)
    /\ ~SplitHeader
    /\ (\E m \in Messages : m.chunked) => ~SplitChunks /\ ~StaleDigits

\* How many of all bytes have been parsed.
Parsed == IF pc = "parse" THEN Earlier
          ELSE IF pc = "chunks" THEN Earlier + str - 1
          ELSE received

\* The buffer begins with the last segment, which ends where a segment may end; behind
\* chunks there is nothing that reads as one more.
BufferInv ==
    /\ \A i \in 1 .. received_len : buff[i] = Wire(message)[Earlier + i]
    /\ received > 0 =>
         /\ Boundary(message, received)
         /\ message.chunked => ~StartsSize(buff, received_len + 1)

\* The response exists from the first segment on and knows the fields.
CreateInv ==
    IF created
    THEN /\ Len(Header) <= Parsed /\ Parsed <= received
         /\ pc # "recv" => received_len > 0
         /\ response.content_length = message.content_length
         /\ response.chunked = message.chunked /\ response.gzip = message.gzip
    ELSE /\ pc \in {"recv", "parse"} /\ response = Zero
         /\ Earlier = 0
         /\ pc = "parse" <=> received > 0

\* A response is found finished only when all of the message was parsed.
FinishInv ==
    response.is_finished => End(message) <= IF pc = "recv" THEN received ELSE Earlier

\* The block is as large as body_size says, until decompression replaces it.
BlockInv ==
    /\ BodyFits
    /\ ~(response.gzip /\ response.is_finished) => response.allocated = response.body_size

\* A body that is not chunked: what was parsed, up to its length.
Expected == LET n == Parsed - Len(Header)
            IN IF message.content_length > 0 /\ n > message.content_length
               THEN message.content_length ELSE n

LengthInv ==
    created /\ ~message.chunked =>
        /\ pc # "chunks"
        /\ response.is_finished => /\ ~Spoiled => response.body = Content(message)
                                   /\ message.content_length > 0
                                   /\ Expected = message.content_length
        /\ ~(Fragile(message) /\ response.is_finished) =>
              /\ Len(response.body) = Expected
              /\ \A i \in 1 .. Expected : response.body[i] = (message.packed \o message.trash)[i]

\* A chunked body: k chunks have been parsed, and the cursor stands behind them;
\* behind the last one it may stand anywhere.
ParsedChunks(k) ==
    LET all == k = Len(message.frames)
    IN /\ \/ Parsed = Len(Header) + Len(FirstFrames(message, k))
          \/ all /\ Parsed >= Len(Header) + Len(FirstFrames(message, k))
       /\ response.is_all_chunks_processed = all
       /\ response.is_finished => all
       /\ IF response.is_finished THEN ~Spoiled => response.body = Content(message)
          ELSE response.body = FirstData(message, k) /\ (all => pc = "finish")

ChunkInv ==
    created /\ message.chunked => \E k \in 0 .. Len(message.frames) : ParsedChunks(k)

\* The inductive invariant.
IInv == /\ TypeOK /\ BufferInv /\ CreateInv /\ BlockInv /\ FinishInv
        /\ LengthInv /\ ChunkInv
=============================================================================
