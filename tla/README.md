# A verification project for libnhr

libnhr is a small HTTP client library in C. An application creates a request,
configures it and sends it; a thread of the library connects, sends, receives,
calls the application back once and releases the request. This directory holds
TLA+ modules of that library, TLC configurations that check them on small
instances, and theorems that TLAPS checks for every instance.

    tlc -workers 2 -config NhrRequest.cfg NhrRequest
    tlapm NhrRequestProofs.tla

Paths below are relative to the repository (`src/...` is its source directory).

## 1. Inventory

| Component | State | Operations | Interaction | Correct when |
|---|---|---|---|---|
| Request (`nhr_request_public.c`, `nhr_request_private.c`) | the request object: members, `command`, `work_thread`, `socket`, `last_time`, `timeout`, `error_code`, `response` | create, setters, send, cancel; the handlers of the work thread | application threads and the work thread share the object; only `command` has a lock | one callback at most, and a true one; no access after the release; every started request ends |
| Threads (`nhr_thread.c`) | the global `_threads_joiner` with one handle and one mutex | `nhr_thread_create`, the end of a thread, lock, unlock | every ending thread joins the one before it | every thread is joined once, none is lost, nobody blocks for ever |
| Response (`nhr_response.c`) | status, length, encodings, `body`, `body_len`, `body_size`, flags | create from the first segment, append the others | called by `nhr_request_recv` with the contents of its buffer | the finished body is what the server sent; copies stay in the block |
| Compression (`nhr_gz.c`) | the output block of one call | compress, decompress | called by the POST encoder and by the response | writes stay in the block, the size is exact, the loops end |
| Encoders (`nhr_request_method_*.c`) | buffers of one call; adds header fields to the request | GET, POST url-encoded, POST multipart | called by the send handler | what is written fits what was reserved; the header describes the body |
| List (`nhr_map.c`) | a linked list of names and values | append, delete | fields and parameters of a request, walked by the encoders | nodes keep their order and none is lost |
| Strings and memory (`nhr_string.c`, `nhr_memory.c`) | the heap | allocate, copy, grow, free | every other part; most blocks hang on the request | each block has one owner and is freed once, after its last use |
| Names (`nhr_common.c`, `libnhr.h`) | none | constants and types | | |

What is hard here:

* **Two owners of one object.** After `nhr_request_send` the request belongs to
  the work thread, which frees it without being asked, and to the application,
  which may still cancel it.
* **One word of control.** The handlers, the loop and `nhr_request_cancel` all
  write `command`. Its mutex makes a single access atomic, not a test and a set.
* **Errors that look like progress.** `errno` is read after a `recv` that did
  not set it; a partial `send` is success; `pthread_create` may fail silently.
* **A byte stream parsed by segments**, in a buffer nobody clears.
* **Blocks whose size is remembered elsewhere**: `body_size`, `out_size`.
* **Blocks that change hands**: compression and decompression replace a block by
  another, if they succeed; deletion has to follow the order of the pointers.
* **Callbacks on library threads.** A callback may send the next request while
  older threads end, all through one joiner and one mutex.
* **A wall clock** that decides about timeouts and can be set.

`PROJECT.json` lists each hazard at its line, with the properties that cover it.

## 2. Modules

| Module | Models |
|---|---|
| `NhrRequest` | the life of one request, its application threads, its work thread, server and clock |
| `RequestContract` | what `libnhr.h` promises about one request; `NhrRequest` implements it |
| `NhrRequestProofs` | theorems about `NhrRequest` |
| `NhrThreads`, `NhrThreadsProofs` | thread creation and the joiner, and theorems about them |
| `NhrLibrary`, `NhrLibraryProofs` | several requests at once, each by its contract, on the threads of `NhrThreads`; theorems about the composition |
| `NhrResponse`, `MCNhrResponse` | assembly of a response; its messages for TLC |
| `ResponseContract` | what a client can see of a response's body; `NhrResponse` implements it |
| `NhrResponseProofs` | theorems about `NhrResponse` |
| `NhrEncoder`, `NhrEncoderProofs` | the lists of a request and the encoders that walk them, and theorems about their buffers and about the header they send |
| `NhrGz`, `NhrGzProofs` | the output buffers of compression and decompression, and theorems about them |
| `NhrMemory`, `NhrMemoryProofs` | the heap blocks of one request and who owns them, and theorems about them |
| `ListLemmas` | induction, sums along a list and the concatenation of a list of sequences, for the proofs |

Definitions whose comment begins with "Mutant" are faulty variants of the
definition that follows them. They belong to no specification; each shows that
a property of `PROJECT.json` notices a bug of that kind.

### NhrRequest

Three program counters stand for the threads: `spc` (creates, configures,
sends), `kpc` (cancels) and `wpc` (the work thread). A label is the place of the
next access to the shared object, so interleavings happen where the code allows
them: between the test of `work_thread` and the use of the request in
`nhr_request_cancel`, between the creation of the thread and the assignment of
its handle, between that and the test of the handle, between the loop condition and the switch that reads `command`
again, between the last call of `recv` and the command that reports it.

`mem` is the life of the object. A step that dereferences the request requires
`mem = "live"`. A thread that stands at such a step when the object is freed is
a use after free, which `NoUseAfterFree` excludes.

Abstractions: strings are "set" or not; the response is `"null"`, `"partial"` or
`"finished"`; an address list is a count; of the server's
pieces only those not yet read are counted, and there are no more of them at a time
than `MaxSegments`, but any number in all;
`idle` is the time that passed since `last_time` was set and `lag` what the
clock was set back in it, so that `time(NULL) - last_time` is `idle - lag`; both
start again with the next `last_time`. `idle` is saturated at
`MaxTimeout + MaxLag`, which no comparison can tell from a larger value. `errno` after
`connect_succeeds` is any value. `work_mutex` is left out: only the work thread
takes it. `nhr_request_wait_raw_response` is split where it touches the object.
Reading an outcome and writing `END` is one step in `work_inform`: nothing but
another `END` can be written in between.

The client is as disciplined as three switches say. `SerialCalls`: its calls do
not overlap. `SerialCallbacks`: its callbacks do not overlap its calls (both
take a lock of the client's, or all run on one loop). `MaySpawnFail`:
`pthread_create` may fail in a build with `NDEBUG`. In every case it cancels
before a callback was triggered and clears its variable in the callback, as
`libnhr.h` asks.

### NhrThreads

A member of `Threads` is one handle; `cpc` is the call of `nhr_thread_create`
that makes it and `tpc` the thread it starts. The lazy creation of the joiner is
three steps (test, allocation, mutex), because it has no lock. A mutex and a
joiner bear the name of the call that allocated them, so a race that makes two
of them is visible. The body of the thread function is one step, `"run"`;
`NhrLibrary` fills it in.

### NhrLibrary

A member of `Threads` is now a request with the thread that serves it. The
request is what `RequestContract` says (`NhrRequest` implements that contract),
one instance per request; the thread and the joiner are those of `NhrThreads`.
They meet in three places: `send` calls `nhr_thread_create`, `spawn` starts the
request, and `thread_func_returns` hands the thread to the joiner once its
request is released. `caller` is the thread whose callback sends a request: that
thread can neither release its own request nor end before `nhr_thread_create`
has returned. The sends exclude each other (`SerialCreate`), because without
that the joiner fails already alone (`NhrThreadsRace`); everything else
interleaves, and a request may take for ever or be cancelled at any time before
its callback. A `pthread_create` that fails is left to `NhrRequest`.

### NhrResponse

The message is a sequence of bytes of which only what the parser distinguishes
is kept: hex digits, CR, LF and others. Status line, fields and blank line are
one symbol each; the fields are found by an exact name anywhere in the buffer, so
what `message` holds is what is found, and gzip and deflate are one flag, as they
differ only in what `nhr_gz_decompress` tells zlib to expect. The body is a sequence
of frames: a chunk with its size in digits and its data, or data alone. The network
chooses the segments (`Boundary`), none longer than the buffer. `buff` is the receive
buffer, which nothing initialises or clears: the first call finds in it one of
`StackBuffers`, a segment overwrites its front and leaves the rest, and a further call
of `nhr_request_recv` finds it as it was or with other contents of the stack. What
lies behind the buffer in memory is taken to be zero.

`Streams` are the byte strings that `nhr_gz_decompress` accepts, with what it makes
of them; the content of one stream may be another one. A body that is not among them
is refused and stays as it is, and the response is finished all the same.
`response.allocated` is the true size of the block and `response.end` the end of the
last copy, for comparison with `body_size`.

Three switches choose how the stream is cut and what the buffer holds:
`SplitHeader`, `SplitChunks` (a segment may end within the header, within a chunk) and
`StaleDigits` (what is left behind a segment of a chunked body may begin with a digit
or a line end, so that the parser takes it for a chunk). `status_code` is a flag: the
status line is assumed to come whole in the first segment.

`ResponseContract` has only what was sent, the content, the part of it a client can
read and whether that is all: the body is empty, then a growing prefix of what was
sent (in its coding), then the content itself. A finished body changes only by
`Overrun`, which is allowed when bytes follow a message that is `Fragile`: one that was
decompressed, so that its length is no longer `content_length` and more is added to it,
or, with chunks, one whose content can be decompressed again.

### NhrEncoder

The client fills the two lists (`nhr_request_add_*`), then the work thread
encodes them. Each loop of an encoder is a step per node: `count_node` for the
loop that adds up the size, `write_node` for the one that fills the buffer;
`list` says which of the three pairs of loops runs (header fields, url-encoded
parameters, multipart parameters). Between them come `allocate` and `write_end`,
then compression, the two fields a POST adds to its own request, and the message.

Strings are their lengths, and the literals are counted in the source: the sums
of `Reserved` are those the code states, those of `Written` the lengths of its
format strings. On POSIX `nhr_sprintf` ignores the size it is given
(`nhr_string.h:37`), so nothing but these sums keeps it inside. Two auxiliary
variables follow them: `mark` records the sum of the first walk after each node,
`end` the place behind the last byte written, terminating zero included.
Whether a value of 4 or 7 letters is `gzip` or `deflate` is a choice, as is the
length of the compressed body. The lists, names and values of a request are not
empty, because the setters ignore empty ones. A GET with a data parameter is
left out: `libnhr.h` documents data parameters for POST.

### NhrGz

`allocated` is the true size of the block and `end` the place behind the last
byte written. zlib is external: `deflate` writes any number of bytes and may keep
some back, `inflate` writes all it can, and either may fail. `ULongSizes` are the
values `sizeof(uLong)` may have; `excess` is what the footer takes beyond the bytes
counted for it.

### NhrMemory

A slot is a place for a pointer: a member of the request, its response or a node,
or a local variable of a handler. `ptr` says which block a slot points to, `heap`
which blocks are allocated. A C function is the sequence of its allocations,
assignments, frees and reads, in the order of the source; `todo` is what is left
of the one that runs. `Container` says in which block a slot lies, so that an
access to a member of a freed block is visible. A new block is never equal to an
old one that some pointer still names, so a dangling pointer stays one; `Blocks`
has enough names for that. `After` is the memory that one element of a sequence
leaves, `Harmless` whether it may be done, and `Outcomes` the memory after a whole
sequence, none if something in it is harmful. The request
is deleted at any stage, as a cancel can bring it about between any two handlers.
`nhr_malloc` is `nhr_malloc_zero` here: every caller writes before it reads. The
lists of a request are as in `NhrEncoder`, without their contents.

## 3. Runs

Passing runs:

| Run | Bounds | Shows |
|---|---|---|
| `NhrRequest` | 3 attempts, 2 addresses, timeouts 0-2, clock set back by 1, 2 unread segments at a time | for a serialising client: memory safety, one true outcome, socket use, the inductive invariant, the refinement of `RequestContract`, and that a request with a thread ends and is released if the server stops sending; also when the clock is set back |
| `NhrLibrary` | 3 requests | mutual exclusion, one join per thread, no lost handle, the inductive invariant, joins only of threads that released their request, and that a slow request holds up no other |
| `NhrResponse` | bodies of 3 bytes and a buffer of 21, which a segment can fill; by length, without length, gzip, chunks, chunked gzip; bodies that can be decompressed once, twice or not at all; with and without bytes behind the end; stack contents `nul` and `noise`; bodies by length cut anywhere, header and chunks whole | the finished body is the content sent, the chunk cursor stays in the segment, copies stay in the block, the refinement of `ResponseContract`, the inductive invariant, complete messages are found complete |
| `NhrEncoder` | up to 2 fields and 2 parameters of each kind, lengths 1 and 4, with and without a port | no buffer is overrun, the header sent has every field, and `Content-Length` is the length of the body after compression; the inductive invariant of the walks |
| `NhrMemory` | up to 2 nodes of the client in each list, text and data, any strings given or not | no block is used after it was freed or freed twice, each has one owner, all are freed but the address list of a connect that timed out, and the inductive invariant |
| `NhrGz` | growth step 4, output 0-13 bytes, `uLong` of 4 and of 8 bytes | writes fit and sizes are exact, but for the excess of a footer of 16 bytes; the loops end |

Two addresses and three attempts (the loops stop before the last one, so two
passes) reach the end of a pass, its repetition and its end; the source has five,
and the theorems hold for any number. Two unread segments reach a response in pieces
and data behind a finished one; the server may send more once they are read. A timeout of 0 has already expired, 1 and 2 expire
before and after a segment, and a clock set back by 1 makes each expire late.
Three requests let one thread join another while a third is sent from a callback,
or while the third waits for the mutex. Two nodes of a list have a first, a middle
and, with the fields a POST adds, a last one, with and without data.
An output of 13 bytes with steps of 4 ends at
every place relative to a step, three steps in; the footer of 8 bytes then does
and does not find room. Two nodes have a first one without and a second one with
a separator, in every mixture of data and text.

Runs that find a violation. Each shows a sentence of the documentation or of a
comment that the code does not keep; `PROJECT.json` quotes it.

| Run | What happens |
|---|---|
| `NhrRequestCancelLost` | the handler that runs during a cancel overwrites `END`; the callback is called after `nhr_request_cancel` returned |
| `NhrRequestCancelRace` | a cancel has begun when the work thread calls back and frees the request |
| `NhrRequestShortSend` | part of the request was sent, the response is awaited |
| `NhrThreadsRace` | the joiner can be seen before its mutex exists; a thread that ends meanwhile locks nothing, so two threads take its handle and it is joined twice |
| `NhrResponseSegments` | the header is cut behind its fields; the next segment begins with the blank line, where the size of a chunk is looked for, so that its chunks are dropped; the last chunk, in a third segment, makes the response finished |
| `NhrResponseTrailing` | bytes behind a compressed body are added to the decompressed one, which was finished, and the whole is cut to the compressed length |

These runs are also why the passing ones make their assumptions. TLC stops at the
shortest trace; other ways to the same violations, and what holds all the same, show
with other constants:

| Change | Property | What TLC finds |
|---|---|---|
| `NhrResponseSegments` with only `SplitChunks = TRUE` | `FinishedMeansWhole` | the rest of a chunk in two segments is read as a size |
| `NhrResponseSegments` with only `StaleDigits = TRUE` | `FinishedMeansWhole` | a chunk of an earlier segment, still in the buffer, is added again |
| `NhrResponseSegments` with `Messages <- MCMessages` and `BuffSize = 8` | `TypeOK`, `BodyFits` | they hold, however the messages are cut (12 million states) |
| `NhrResponseTrailing` | `response.end <= response.allocated` | the added bytes are copied behind the block, because `body_size` is that of the old one |
| `NhrRequestCancelRace` with `SerialCalls = FALSE`, `SerialCallbacks = TRUE` | `NoUseAfterFree` | a cancel during `nhr_request_send` sees no work thread yet and deletes the request |
| `NhrRequest` with both `FALSE`, timeouts 0-1, 1 segment and `CHECK_DEADLOCK FALSE` | `AtMostOneCallback`, `OutcomeIsTrue` | they hold; such a client can stand still at a freed object, which is no deadlock of the code |
| `NhrRequest` without the premise `ServerStops` | `EventuallyReleased` | a server that trickles bytes keeps the request alive for ever |

In longer traces of `NhrThreadsRace` two calls make a joiner or a mutex each.

`nhr_thread_create` returns a handle even if `pthread_create` failed, and then
`nhr_request_send` returns `nhr_true` for a request that nothing serves, although
`libnhr.h:257` promises that only for one that was started. The model has this
behaviour (`MaySpawnFail`); `EventuallyInformed` is stated for threads that exist.

On platforms where `uLong` has 64 bits, `nhr_gz_write_footer` stores 16 bytes where 8
are reserved and counted ("used `uLong` as unsigned 32 bit integer",
`nhr_gz.c:62`). `WritesFit` and `SizeIsExact` name this excess as the only bytes behind
the block and the size; it is 0 where `uLong` has 32 bits.

A connection that ends before the first byte is reported by `on_recvd_response`
with a `NULL` response; `libnhr.h` does not say whether it may be. `OutcomeIsTrue`
requires of an unfinished response only that its connection has ended.

**Fairness.** `NhrRequest`: weak fairness of `Sending` and `Cancelling` (a call
that was begun goes on), of `Working` (the thread is scheduled; `getaddrinfo`
and the blocking `connect` return, which the system guarantees by its own
timeouts) and of `Tick` (time passes). The client need not call anything, and the
server need not answer or close. Liveness does need one thing of the server, which
`EventuallyReleased` and `EventuallyInformed` state as their premise `ServerStops`: it
does not send for ever. `nhr_request_recv` sets `last_time` with every piece, so a
server that trickles bytes keeps a request alive without end. That the clock is set back is never fair, and by `MaxLag` at most
between two values of `last_time`. `NhrLibrary`: a call
of `nhr_thread_create` goes on and a thread that released its request is
scheduled; no request is assumed to make any progress.
`NhrResponse`: the server sends the whole message. `NhrGz`: the loops run.

## 4. Proofs

All theorems hold for every value of the constants allowed by the named
assumptions of the modules.

**NhrRequest.** `AnyClient` proves `AnyClientInv` for any client, and from it
`TypeCorrect`, `OneCallback` and `TrueOutcome`. Its parts besides the types:

* `OneCallbackInv`: until the sender has written `CONNECT_TO_HOST` no outcome
  exists, so the only writer that could replace an `END` written before a callback
  is gone when there is a callback; afterwards only `END` is written;
* `OutcomeInv`: at each label of the work thread, what the command and the error
  code will report agrees with the response and the socket.

The other theorems assume `SerialCalls` and `SerialCallbacks`. `NoUseAfterFree`
alone is not inductive: one has to know who may still hold the object. `IInv`
adds to `AnyClientInv`:

* `LifeInv` ties `mem` to the threads, and the client's `handle` to a request
  that lives and has not called back;
* `StartInv` bounds how far the work thread can come while it is being started;
* `CancelInv` says that a cancel either owns the request (no thread) or runs
  before the callback, which waits for it;
* `EndInv` says that the loop is left only after a callback or a cancel, and
  that nothing restarts it;
* `SocketInv` ties command and label to the state of the socket.

`MemorySafety` and `SocketsDisciplined` follow, and `Refinement` maps every step
to a step of `RequestContract` or a stutter.

**NhrThreads** (assuming `SerialCreate`). `IInv` consists of `CreateInv` (one
joiner, whose mutex exists before the first thread), `MutexInv` (who is in the
section owns the mutex) and `HandleInv` (where each handle is, by the place its
thread has come to). `MutualExclusion`, `JoinSafety` and `NoLeak` follow, for
any finite set of threads.

**NhrLibrary.** `LibraryImplementsThreads` needs no assumption: every step of the
composition is a step of the threads or leaves them alone. The theorems of
`NhrThreads` therefore carry over. `JoinsReleased` needs `LibInv` besides `IInv`:
a released request has no callback that is sending, because a callback ends before
the release and a send belongs to a callback; and a thread that is past its
function has released its request. `IInv` adds that the thread in the joiner is
past its function.

**NhrEncoder.** That the buffers suffice is a comparison of two sums over a list,
and needs no induction over lists: `mark` holds the partial sums of the first
walk, and `IInv` compares them with the second walk node by node. `ListInv` keeps
the lists within the marks (a POST adds two fields, after the walk over its
parameters and before the one over its fields); `MarkInv` says that neighbouring
marks differ by what the node reserves; `SizeInv` that every mark, with the
closing boundary, is below the size allocated; `PaceInv` that the second walk is
behind the mark of its node by the length of a separator. The lemma `NodeFits` is
the arithmetic of one node: what is written, plus a separator, is at most what is
reserved. The separator left over by the first node becomes the terminating zero.
`BufferSafety` follows for lists and strings of any length, for the bytes of the
message too, whose fixed parts take at most 39 of the 256 bytes reserved.
`NHR_POST_BOUNDARY_LEN` is any number. Integers are unbounded: a sum that
overflows `size_t` is not modelled.

`HeaderIsTrue` compares a result with a reference that is recursive over the list:
`LineSums(fields)` adds up the lines of the first fields. The lemma `SumsExist`
shows by induction that such a function exists, so that its equation can be used
(`LineSumsStep`). `HeaderInv`, the invariant behind it, follows the second walk: the
bytes written are the sum up to the current node; `HeadersDone` and `BodyDone` carry the two
lengths from the end of a walk to the message, over the step that adds
`Content-Length` to the list.

**NhrResponse.** `TypeCorrect` and `BodySafety` need no assumption on the message, on
how it is cut or on what is in the buffer: `TypeOK /\ BlockInv` is inductive by
itself, since `body_size` is the true size of the block until decompression replaces
it. From then on a copy is only known to end within `body_size`; that this is not
enough is part of what `NhrResponseTrailing` finds.

The other theorems assume `Setting`, and each of its conditions is one that the run
`NhrResponseSegments` or a variant of it shows to be needed: the header comes in one
segment; if there are chunked messages, no segment ends within a chunk and what the
buffer holds behind one does not begin like a chunk. TCP promises none of the three. A body that is not
chunked may be cut anywhere and the buffer may hold anything. Every message is
`WellFormed`, which is what a server sends that keeps to its own header: chunk sizes in
digits that have the value of the length, one empty chunk at the end, a
`Content-Length` that is the length of the body. Two conditions are the parser's own.
No digit may follow the last chunk, because it would be parsed. Nothing may follow a
body without a length, because it would belong to it. Bytes may follow every other
message; that they change a decompressed body (`NhrResponseTrailing`) is why
`FinishedMeansWhole` speaks of the time until it is `Spoiled` and `ResponseContract` has
`Overrun`. Decompression may fail, and what cannot be decompressed is the content as it
was sent. TLC checks `WellFormed` for the messages of the run (`MCMessagesAssumption`).
Messages, chunks and segments have any length and any number, up to `BuffSize`, which
is arbitrary.

Nothing in `FinishedMeansWhole` says where the parser is, so it is not inductive.
`IInv` adds:

* `BufferInv`: the buffer begins with the part of the message that ends at `received`,
  which is a place where a segment may end, and behind chunks there is no digit and no
  line end;
* `CreateInv`: the response exists from the first segment on and has the fields of
  the header; at least the header and at most what was received has been parsed;
* `FinishInv`: a response is found finished only when all of the message was parsed;
* `BlockInv`: `body_size` is the true size of the block until it is inflated;
* `LengthInv`: without chunks the body is what was parsed, up to its length, byte
  by byte; a finished one is the content, and all of its length was parsed;
* `ChunkInv`: with chunks, there is a number of them that was parsed; the cursor
  stands behind them, and the body is their data.

The step of `nhr_response_read_chunks` is the core. `ChunkWhole`: a segment that
goes on behind `k` chunks holds all of the next one, because the boundaries are
those of the frames and longer beginnings of a message start with shorter ones
(`FlattenGrows`, by induction). `NextChunk`: the digits found at the cursor are the
size line, what is copied is the data, and the cursor then stands behind the
line end. `NothingFollows`: behind the last chunk, and at the end of a segment, no
digits are found. That the digits give a number is shown by induction (`HexType`); what
number it is only `WellFormed` says.
`Refinement` needs in addition that an unfinished body is a beginning of what was
sent (`BodyBegins`), that no step but `finish` changes `is_finished` or makes the
body shorter (`Grows`), and that a body found complete is all of it
(`CompleteBody`), and that a finished body changes only behind the end of a `Fragile`
message (`OverrunStep`).

**ListLemmas.** The library's induction theorems take an operator, which the
provers cannot instantiate; induction over a set of numbers does not, and follows
from the well-foundedness of the natural numbers (`SetInduction`). From it come
the existence of sums along a list and the equations of `FlattenSeq`.

**NhrGz** (for any width of `uLong` whose two values take at least the 8 bytes of the
footer). While
deflate runs, the block ends where `avail_out` does and the output has no gap;
while inflate runs, a whole step is free behind what was written, until the
input ends and nothing is written any more. `available_size` is then counted
twice, which does no harm: this state only leads to `NULL`. `TypeCorrect`,
`BufferSafety` and `ExactSize` follow.

**NhrMemory** (for any `MaxNodes`; `NullAssumption` says that `Null` is no block).
The properties speak of a function's steps and of its end, and no relation between
the pointers holds at every step, since functions break and restore them. `IInv`
therefore speaks of the end: what is left in `todo`, done from here, is harmless
and leads to a memory in `Final`. There every pointer that is not `NULL` lies in a
live block and leads to a live block of its own, every block but the lost address
list has a pointer, and the nodes of a list have no gap; after
`nhr_request_delete` no block but that list is left. It also says that a request
that timed out is past connecting, so that only one address list is ever lost.
`NoDanglingAccess` is then the first step of `IInv`, `OneOwner` and `NothingLost`
are its end.

That `IInv` is inductive has two halves. `RunKeeps`: when the first element of a
sequence is done, the rest leads to the same end (`OutcomesArePaths`,
`LeadsFirst`). `EnterKeeps`: the body of a function that is called is harmless and
leads to `Final`, which is shown function by function as for a sequential program:

* `Holds(P, body, Q)` is a triple of an assertion, a sequence and an assertion, with
  rules for one sequence after another (`HoldsThen`) and for weaker assertions;
* `Tame(tm, O, D)` is the assertion used: the slots `O` own a block each, every
  block is owned or is the lost list, and all slots but those in `O` and the dirty
  ones in `D` are `NULL`. Each operation has a rule: memory for a slot adds it to `O`
  (`MallocRule`), a free moves it from `O` to `D` (`FreeRule`), an assignment passes
  a block on (`MoveRule`), a read asks that the slot is not in `D` (`ReadRule`);
* `FreshBlock` shows that there is a name for a new block, because the names in use
  have a slot each and there are fewer slots than names;
* `Shape` is what `O` is between two calls; `Entry` and `Exit` connect it to `Final`;
* the loop of `nhr_map_delete` holds a second pointer to a node. `TurnHolds` says
  that one turn, which reads the next node before it frees this one, frees the four
  slots of this node and none other; `LoopHolds` repeats it for a list of any length,
  by induction over `FlattenSeq`; `DeleteHolds` puts the parts of
  `nhr_request_delete` together and ends with no owner.

Only model-checked: the liveness properties (`EventuallyReleased`,
`EventuallyInformed`, `SlowRequestBlocksNobody`, `EventuallyFinished`,
`Terminates`), because liveness under fairness is beyond the proof system used
here.

## 5. Not modelled

Windows (`WSAStartup`, `CreateThread`); memory exhaustion, which only assertions
notice; a clock that jumps ahead and ends a request early; two sends of one
request and setters called after a send, which `libnhr.h` does not foresee; the
user object, which the library only keeps; `SIGPIPE`, whose handler only prints;
a `pthread_create` that fails among several requests (it is in `NhrRequest`); the
joiner's own blocks, which live as long as the process; `nhr_string_last_char`,
which nobody calls; the tests with their JSON parser, and the platform builds. The
names and platform definitions are constants without behaviour.

A body in several parts is never compressed (`nhr_request_method_post.c:188`),
although `libnhr.h:307` speaks of the "post body"; no property is stated about it.

## 6. Plan

All parts with behaviour are modelled, and every invariant, every action property
and both refinements that the passing runs check are theorems, but for
`CursorInSegment`, which `IInv` of `NhrResponse` contains (`CreateInv`). A change of the
code is best followed in the module of its component first; `IInv` of that module
is the invariant to check with TLC before its proof is repaired. What could be
added are failures that the library does not handle: memory exhaustion and a
thread that cannot be created among several requests.
