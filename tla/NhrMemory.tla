------------------------------- MODULE NhrMemory -------------------------------
(***************************************************************************)
(* Who owns the heap blocks of one request: the request with its strings,  *)
(* lists, mutexes and response, and the buffers of the handlers.           *)
(*                                                                         *)
(* A slot is a place that holds a pointer: a member of the request, of its *)
(* response or of a node of a list, or a local variable.  A C function is  *)
(* the sequence of what it does to slots, in the order of the source; the  *)
(* variable todo holds what is left of the function that runs, and each    *)
(* step does its first element.  After nhr_request_send only the work      *)
(* thread uses the request (NhrRequest shows when that is so), so one      *)
(* sequence at a time is enough.  Memory is never exhausted here.          *)
(***************************************************************************)
EXTENDS Naturals, Sequences, SequencesExt, FiniteSets

CONSTANTS
    MaxNodes, \* bound: nodes the client puts in a list
    Null      \* the null pointer

ASSUME NodesAssumption == MaxNodes \in Nat \ {0}

VARIABLES
    stage,   \* what comes next: see Stages
    timed,   \* the connect handler returned on a timeout
    ptr,     \* the block that a slot points to, or Null
    heap,    \* the blocks that are allocated
    todo     \* what the running function has yet to do

vars == <<stage, timed, ptr, heap, todo>>

Stages == {"absent", "configure", "connect", "send", "receive", "inform", "end", "released"}

-----------------------------------------------------------------------------
(***************************************************************************)
(* Slots and blocks.                                                       *)
(***************************************************************************)

Root      == <<"client", "request">>
Member(m) == <<"request", m>>
Body      == <<"response", "body">>
Local(v)  == <<"local", v>>
Node(l, i) == <<l, i, "node">>  \* what points to node i of list l

Lists == {"http_headers", "parameters"}

\* A POST adds two fields to those of the client; the last next is Null.
Nodes == 1 .. MaxNodes + 3

Strings == {"scheme", "host", "path"}

Members == {Member(m) : m \in Strings \cup {"work_mutex", "command_mutex", "response", "boundary"}}

Locals == {Local(v) : v \in {"_data", "result", "headers", "parameters", "zgip_parameters",
                             "buff", "decompressed", "cur", "last"}}

Slots == {Root, Body} \cup Members \cup Locals
           \cup (Lists \X Nodes \X {"node", "key", "value", "reserved"})

\* The slot that points to the block a slot lies in; its own if in none.
Container(s) ==
    CASE s[1] = "request"                          -> Root
      [] s[1] = "response"                         -> Member("response")
      [] s[1] \in Lists /\ s[3] # "node"           -> Node(s[1], s[2])
      [] s[1] \in Lists /\ s[3] = "node" /\ s[2] = 1 -> Root
      [] s[1] \in Lists /\ s[3] = "node" /\ s[2] > 1 -> Node(s[1], s[2] - 1)
      [] OTHER                                     -> s

Outermost(s) == Container(s) = s

\* A block has the name of the slot it was allocated for.  There is always one
\* more than there are slots to point to it.
Blocks == Slots \X (0 .. Cardinality(Slots))

ASSUME NullAssumption == Null \notin Blocks

\* All there is in memory.
Memory == [ptr |-> ptr, heap |-> heap]

\* In memory m the slot s can be read and written.
Within(m, s) == Outermost(s) \/ m.ptr[Container(s)] \in m.heap

Reachable(s) == Within(Memory, s)

\* A block that nothing points to, not even a dangling pointer.
Fresh(m, s) ==
    <<s, CHOOSE n \in 0 .. Cardinality(Slots) :
            <<s, n>> \notin m.heap /\ \A x \in Slots : m.ptr[x] # <<s, n>>>>

\* How many nodes a list has.
Length(l) == Cardinality({i \in Nodes : ptr[Node(l, i)] # Null})

-----------------------------------------------------------------------------
(***************************************************************************)
(* What a function does to a slot.                                         *)
(***************************************************************************)

Do(op, s, from) == [op |-> op, slot |-> s, from |-> from]

nhr_malloc_zero(s) == <<Do("malloc", s, s)>>
nhr_free(s)        == <<Do("free", s, s)>>
nhr_realloc(s)     == <<Do("realloc", s, s)>>
Clear(s)           == <<Do("clear", s, s)>>
Copy(s, from)      == <<Do("copy", s, from)>>
Read(s)            == <<Do("read", s, s)>>

\* nhr_string_delete_clean, nhr_free_clean
nhr_string_delete_clean(s) == nhr_free(s) \o Clear(s)

\* NULL for a string that is NULL or empty.
nhr_string_copy(s, given) == IF given THEN nhr_malloc_zero(s) ELSE Clear(s)

\* The memory after it.  New memory is zeroed, so the slots in it are Null;
\* realloc may move the block, and moves it here.
malloc(m, s) ==
    [heap |-> m.heap \cup {Fresh(m, s)},
     ptr  |-> [x \in Slots |-> IF x = s THEN Fresh(m, s)
                               ELSE IF Container(x) = s THEN Null ELSE m.ptr[x]]]

free(m, s) == [m EXCEPT !.heap = @ \ {m.ptr[s]}]

realloc(m, s) ==
    [heap |-> (m.heap \ {m.ptr[s]}) \cup {Fresh(m, s)},
     ptr  |-> [m.ptr EXCEPT ![s] = Fresh(m, s)]]

assign(m, s, p) == [m EXCEPT !.ptr = [@ EXCEPT ![s] = p]]

After(m, do) ==
    CASE do.op = "malloc"  -> malloc(m, do.slot)
      [] do.op = "free"    -> free(m, do.slot)
      [] do.op = "realloc" -> realloc(m, do.slot)
      [] do.op = "clear"   -> assign(m, do.slot, Null)
      [] do.op = "copy"    -> assign(m, do.slot, m.ptr[do.from])
      [] do.op = "read"    -> m

\* The running function does what comes first.
Run ==
    /\ todo # <<>>
    /\ LET m == After(Memory, Head(todo)) IN ptr' = m.ptr /\ heap' = m.heap
    /\ todo' = Tail(todo)
    /\ UNCHANGED <<stage, timed>>

\* A function is called: its locals are Null.
Enter(from, to, body) ==
    /\ todo = <<>> /\ stage = from /\ stage' = to
    /\ todo' = body
    /\ ptr' = [s \in Slots |-> IF s \in Locals THEN Null ELSE ptr[s]]
    /\ UNCHANGED heap

Call(from, to, body) == Enter(from, to, body) /\ UNCHANGED timed

-----------------------------------------------------------------------------
(***************************************************************************)
(* The functions of the library.                                           *)
(***************************************************************************)

nhr_mutex_create_recursive(s) == nhr_malloc_zero(s)
nhr_mutex_delete(s)           == nhr_free(s)

nhr_request_create ==
    Call("absent", "configure",
            nhr_malloc_zero(Root) \o nhr_mutex_create_recursive(Member("work_mutex"))
              \o nhr_mutex_create_recursive(Member("command_mutex")))

\* Mutant: the old strings are not deleted.
set_string_lost(m, given) == nhr_string_copy(Member(m), given)

set_string(m, given) == nhr_free(Member(m)) \o nhr_string_copy(Member(m), given)

nhr_request_set_url ==
    \E given \in SUBSET Strings :
         Call("configure", "configure",
              set_string("scheme", "scheme" \in given) \o set_string("host", "host" \in given)
                \o set_string("path", "path" \in given))

\* nhr_map_create or nhr_map_append, then the copies of the two strings.
add_strings(l, i) ==
    nhr_malloc_zero(Node(l, i)) \o nhr_malloc_zero(<<l, i, "key">>)
      \o nhr_malloc_zero(<<l, i, "value">>)

nhr_request_add_header_field ==
    /\ Length("http_headers") < MaxNodes
    /\ Call("configure", "configure", add_strings("http_headers", Length("http_headers") + 1))

nhr_request_add_parameter ==
    /\ Length("parameters") < MaxNodes
    /\ Call("configure", "configure", add_strings("parameters", Length("parameters") + 1))

nhr_request_generate_new_boundary ==
    nhr_string_delete_clean(Member("boundary")) \o nhr_malloc_zero(Member("boundary"))

nhr_request_add_data_parameter ==
    /\ Length("parameters") < MaxNodes
    /\ LET i == Length("parameters") + 1
       IN Call("configure", "configure",
               nhr_malloc_zero(Local("_data")) \o nhr_malloc_zero(Node("parameters", i))
                 \o nhr_malloc_zero(<<"parameters", i, "key">>)
                 \o nhr_malloc_zero(<<"parameters", i, "reserved">>)
                 \o Copy(<<"parameters", i, "value">>, Local("_data"))
                 \o IF ptr[Member("boundary")] = Null
                    THEN nhr_request_generate_new_boundary ELSE <<>>)

nhr_request_send ==
    /\ \A m \in Strings : ptr[Member(m)] # Null
    /\ Call("configure", "connect", <<>>)

\* No address: nothing was allocated, or it was freed before the next attempt.
connect_unresolved == Call("connect", "inform", <<>>)

connect_body == nhr_malloc_zero(Local("result")) \o nhr_free(Local("result"))

\* The list is freed whether a connection was made or not ...
nhr_request_connect_to_host ==
    \/ Call("connect", "send", connect_body)
    \/ Call("connect", "inform", connect_body)

\* ... but not on the two returns after nhr_request_check_timeout.
connect_timeout ==
    /\ Enter("connect", "inform", nhr_malloc_zero(Local("result")))
    /\ timed' = TRUE

\* Header fields as one string, if there are any.
http_headers(given) == IF given THEN nhr_malloc_zero(Local("headers")) ELSE <<>>

\* The message is built from the parts, which are freed, sent, and freed.
send_message ==
    Read(Member("path")) \o Read(Member("host")) \o nhr_malloc_zero(Local("buff"))
      \o nhr_free(Local("headers")) \o nhr_free(Local("parameters")) \o nhr_free(Local("buff"))

HasData == ptr[Member("boundary")] # Null

nhr_request_create_header_GET ==
    /\ ~HasData
    /\ Call("send", "receive",
            http_headers(Length("http_headers") > 0)
              \o (IF Length("parameters") > 0 THEN nhr_malloc_zero(Local("parameters")) ELSE <<>>)
              \o send_message)

\* Mutant: the plain parameters are not freed when they were compressed.
compressed_lost == nhr_malloc_zero(Local("zgip_parameters"))
                     \o Copy(Local("parameters"), Local("zgip_parameters"))

\* nhr_gz_compress gave a block, which takes the place of the plain one.
compressed == nhr_malloc_zero(Local("zgip_parameters")) \o nhr_free(Local("parameters"))
                \o Copy(Local("parameters"), Local("zgip_parameters"))

\* With parameters a POST adds two fields to its own request.
nhr_request_create_header_POST ==
    /\ LET n == Length("http_headers")
           fields == add_strings("http_headers", n + 1) \o add_strings("http_headers", n + 2)
           params == nhr_malloc_zero(Local("parameters"))
       IN \E packed \in BOOLEAN :
            /\ packed => n > 0 /\ ~HasData
            /\ Call("send", "receive",
                    IF Length("parameters") = 0 THEN http_headers(n > 0) \o send_message
                    ELSE params \o (IF packed THEN compressed ELSE <<>>)
                           \o fields \o http_headers(TRUE) \o send_message)

\* Mutant: the compressed body is freed after its place was given away.
ungzip_late == nhr_malloc_zero(Local("decompressed")) \o Copy(Body, Local("decompressed"))
                 \o nhr_free(Body)

\* nhr_response_ungzip: a block from nhr_gz_decompress takes the body's place.
ungzip == nhr_malloc_zero(Local("decompressed")) \o nhr_free(Body)
            \o Copy(Body, Local("decompressed"))

\* nhr_response_check_is_finished; a decompression that fails returns NULL.
check_is_finished(unzip) == IF unzip THEN ungzip ELSE <<>>

nhr_response_create ==
    /\ ptr[Member("response")] = Null
    /\ \E body, unzip \in BOOLEAN :
         /\ unzip => body
         /\ Call("receive", "receive",
                 nhr_malloc_zero(Member("response")) \o (IF body THEN nhr_malloc_zero(Body) ELSE <<>>)
                   \o check_is_finished(unzip))

\* The body grows, or its block has room, or nothing is added to it.
nhr_response_append ==
    /\ ptr[Member("response")] # Null
    /\ \E grows, unzip \in BOOLEAN :
         /\ unzip => grows \/ ptr[Body] # Null
         /\ Call("receive", "receive",
                 (IF grows THEN nhr_realloc(Body) ELSE Read(Body)) \o check_is_finished(unzip))

\* A response, a timeout, the end of the connection, or a send that failed.
wait_ends == Call("receive", "inform", <<>>)

\* The client's function may read the response.
callback ==
    Call("inform", "end", IF ptr[Member("response")] = Null THEN <<>> ELSE Read(Body))

\* Mutant: the walk goes on behind the next node.
delete_node_skip(l, i) ==
    Copy(Local("last"), Local("cur")) \o Copy(Local("cur"), Node(l, i + 2))
      \o nhr_free(<<l, i, "key">>) \o nhr_free(<<l, i, "value">>)
      \o nhr_free(<<l, i, "reserved">>) \o nhr_free(Local("last"))

\* Mutant: the next node is read from one that was freed.
delete_node_first(l, i) ==
    Copy(Local("last"), Local("cur")) \o nhr_free(<<l, i, "key">>) \o nhr_free(<<l, i, "value">>)
      \o nhr_free(<<l, i, "reserved">>) \o nhr_free(Local("last")) \o Copy(Local("cur"), Node(l, i + 1))

\* One turn of the loop of nhr_map_delete.
delete_node(l, i) ==
    Copy(Local("last"), Local("cur")) \o Copy(Local("cur"), Node(l, i + 1))
      \o nhr_free(<<l, i, "key">>) \o nhr_free(<<l, i, "value">>)
      \o nhr_free(<<l, i, "reserved">>) \o nhr_free(Local("last"))

nhr_map_delete_clean(l) ==
    Copy(Local("cur"), Node(l, 1))
      \o FlattenSeq([i \in 1 .. Length(l) |-> delete_node(l, i)]) \o Clear(Node(l, 1))

nhr_response_delete ==
    (IF ptr[Member("response")] = Null THEN <<>> ELSE nhr_free(Body)) \o nhr_free(Member("response"))

\* From nhr_request_cancel without a work thread, or at the end of the work
\* thread, which a cancel can bring about between any two handlers.
nhr_request_delete ==
    /\ stage \notin {"absent", "released"}
    /\ Call(stage, "released",
            nhr_string_delete_clean(Member("scheme")) \o nhr_string_delete_clean(Member("host"))
              \o nhr_string_delete_clean(Member("path"))
              \o nhr_map_delete_clean("http_headers") \o nhr_map_delete_clean("parameters")
              \o nhr_mutex_delete(Member("work_mutex")) \o nhr_mutex_delete(Member("command_mutex"))
              \o nhr_response_delete \o nhr_string_delete_clean(Member("boundary"))
              \o nhr_free(Root))

-----------------------------------------------------------------------------
Init ==
    /\ stage = "absent" /\ timed = FALSE
    /\ ptr = [s \in Slots |-> Null]
    /\ heap = {} /\ todo = <<>>

Configuring ==
    \/ nhr_request_create \/ nhr_request_set_url \/ nhr_request_add_header_field
    \/ nhr_request_add_parameter \/ nhr_request_add_data_parameter \/ nhr_request_send

Working ==
    \/ connect_unresolved \/ nhr_request_connect_to_host \/ connect_timeout
    \/ nhr_request_create_header_GET \/ nhr_request_create_header_POST
    \/ nhr_response_create \/ nhr_response_append \/ wait_ends \/ callback

Terminating == stage = "released" /\ todo = <<>> /\ UNCHANGED vars

Next == Run \/ Configuring \/ Working \/ nhr_request_delete \/ Terminating

Spec == Init /\ [][Next]_vars

-----------------------------------------------------------------------------
(***************************************************************************)
(* Properties.                                                             *)
(***************************************************************************)

Ops == {"malloc", "free", "realloc", "clear", "copy", "read"}

Dos == [op : Ops, slot : Slots, from : Slots]

TypeOK ==
    /\ stage \in Stages
    /\ timed \in BOOLEAN
    /\ heap \in SUBSET Blocks
    /\ ptr \in [Slots -> Blocks \cup {Null}]
    /\ todo \in Seq(Dos)

\* What is done lies in live blocks, and what is freed, moved or read is live or
\* NULL.
Harmless(m, do) ==
    /\ Within(m, do.slot) /\ Within(m, do.from)
    /\ do.op \in {"free", "realloc", "read"} => m.ptr[do.slot] \in m.heap \cup {Null}

\* No function frees a block twice or touches one that is gone.  The order of the
\* calls in nhr_request_delete, nhr_map_delete and nhr_response_delete decides it.
NoDanglingAccess == todo # <<>> => Harmless(Memory, Head(todo))

\* The slots that outlive a call and can be reached, and hold a block.
Owners(b) == {s \in Slots \ Locals : Reachable(s) /\ ptr[s] = b}

\* Between two calls every pointer of the request, its lists and its response is
\* NULL or leads to a live block that no other pointer leads to, so that
\* nhr_request_delete can free them all, each once.
OneOwner ==
    todo = <<>> /\ stage # "released" =>
        /\ \A b \in heap : Cardinality(Owners(b)) <= 1
        /\ \A s \in Slots \ Locals : Reachable(s) => ptr[s] \in heap \cup {Null}

\* The address list of a request that timed out while it connected.
Leaked(tm, b) == tm /\ b[1] = Local("result")

\* Nothing that a function allocated is lost when it returns, and nothing is left
\* when the request was released, but for one thing: a request that timed out while
\* it connected leaves its address list behind.
NothingLost == todo = <<>> => \A b \in heap : Owners(b) # {} \/ Leaked(timed, b)

-----------------------------------------------------------------------------
(***************************************************************************)
(* The inductive invariant: what is left of the running function, done to  *)
(* its end, is harmless and leaves a memory in which all is settled.       *)
(***************************************************************************)

Memories == [ptr : [Slots -> Blocks \cup {Null}], heap : SUBSET Blocks]

\* The memories after the same was done in each of S in which it is harmless.
Onward(S, do) == {After(m, do) : m \in {x \in S : Harmless(x, do)}}

\* The memory after all of body was done in m; none if something in it is harmful.
Outcomes(m, body) ==
    LET t[k \in 0 .. Len(body)] ==
          Memories \cap IF k = 0 THEN {m} ELSE Onward(t[k - 1], body[k])
    IN t[Len(body)]

\* The slots that hold a pointer between two calls.
Held(m) == {s \in Slots \ Locals : m.ptr[s] # Null}

\* How long a list may be at a stage: a POST adds two fields before it is sent.
MostNodes(st, l) ==
    IF l = "http_headers" /\ st \in {"receive", "inform", "end"} THEN MaxNodes + 2 ELSE MaxNodes

\* Every pointer leads to a live block of its own and lies in one, every block
\* has a pointer, the request is there, and the nodes of a list have no gap.
Settled(st, tm, m) ==
    /\ \A s \in Held(m) :
         /\ m.ptr[s] \in m.heap /\ Within(m, s)
         /\ \A u \in Held(m) : m.ptr[u] = m.ptr[s] => u = s
    /\ \A b \in m.heap : Leaked(tm, b) \/ \E s \in Held(m) : m.ptr[s] = b
    /\ m.ptr[Root] = Null <=> st = "absent"
    /\ \A l \in Lists : \E n \in 0 .. MostNodes(st, l) :
         \A i \in Nodes : m.ptr[Node(l, i)] # Null <=> i <= n

\* How a function may leave the memory.
Final(st, tm) ==
    {m \in Memories : IF st = "released" THEN \A b \in m.heap : Leaked(tm, b)
                      ELSE Settled(st, tm, m)}

IInv ==
    /\ timed => stage \in {"inform", "end", "released"}
    /\ Outcomes(Memory, todo) \cap Final(stage, timed) # {}
=============================================================================
