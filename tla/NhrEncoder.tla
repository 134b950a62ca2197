------------------------------ MODULE NhrEncoder ------------------------------
(***************************************************************************)
(* The encoders that turn a request into the bytes to send                 *)
(* (nhr_request_method_common.c, _get.c, _post.c) and the lists of fields  *)
(* and parameters they walk (nhr_map.c).                                   *)
(*                                                                         *)
(* An encoder walks a list twice: to add up the size of a buffer, and to   *)
(* fill it with sprintf, which does not know that size.  So strings are    *)
(* their lengths here; the lengths of the literals are those of the source.*)
(*                                                                         *)
(* mark records what the first walk had added up after each node, for      *)
(* comparison with the second; end is the place behind the last byte       *)
(* written to the current buffer, terminating zero included.               *)
(***************************************************************************)
EXTENDS Naturals, Sequences, SequencesExt

CONSTANTS
    Lengths,               \* of names, values, files, paths, hosts, packed bodies
    Ports,                 \* of ":port" behind the host; 0 for port 80
    MaxNodes,              \* bound: nodes the client adds to a list
    NHR_POST_BOUNDARY_LEN  \* 12 in the source

ASSUME LengthsAssumption  == Lengths \subseteq Nat \ {0}
ASSUME PortsAssumption    == Ports \subseteq 0 .. 6
ASSUME NodesAssumption    == MaxNodes \in Nat
ASSUME BoundaryAssumption == NHR_POST_BOUNDARY_LEN \in Nat

VARIABLES
    \* the request
    method, path, host, port,
    http_headers, parameters,
    is_have_data_parameter,
    is_compressed,         \* is_gziped or is_deflated
    \* the encoder
    pc,
    list,                  \* which loop runs: "headers", "url" or "multipart"
    cur,                   \* position of the node
    buff_size, mark, writed, end,
    headers_len, parameters_len,
    content_length         \* the value of the field the encoder adds

reqVars  == <<method, path, host, port, http_headers, parameters,
              is_have_data_parameter, is_compressed>>
buffVars == <<buff_size, mark, writed, end>>
lenVars  == <<headers_len, parameters_len, content_length>>
vars     == <<reqVars, pc, list, cur, buffVars, lenVars>>

\* A node of a list: value_type, key, value_size and reserved_size.
NodeType == [type : {"string", "data"}, key : Nat, value : Nat, reserved : Nat]

Node(type, key, value, reserved) ==
    [type |-> type, key |-> key, value |-> value, reserved |-> reserved]

\* The marks of an empty walk; a POST adds two fields to those of the client.
NoMarks == [i \in 0 .. MaxNodes + 2 |-> 0]

Init ==
    /\ method \in {"GET", "POST"}
    /\ path \in Lengths /\ host \in Lengths /\ port \in Ports
    /\ http_headers = <<>> /\ parameters = <<>>
    /\ is_have_data_parameter = FALSE /\ is_compressed = FALSE
    /\ pc = "configure" /\ list = "headers" /\ cur = 1
    /\ buff_size = 0 /\ mark = NoMarks /\ writed = 0 /\ end = 0
    /\ headers_len = 0 /\ parameters_len = 0 /\ content_length = 0

-----------------------------------------------------------------------------
(***************************************************************************)
(* The client fills the lists.  Empty names and values are ignored.        *)
(***************************************************************************)

\* A new list has one node without a value, which the first append fills.
nhr_map_append(map, node) == Append(map, node)

\* A value that is "gzip" or "deflate", whatever its name, asks for compression.
nhr_request_add_header_field ==
    /\ pc = "configure" /\ Len(http_headers) < MaxNodes
    /\ \E name, value \in Lengths :
         /\ http_headers' = nhr_map_append(http_headers, Node("string", name, value, 0))
         /\ \/ UNCHANGED is_compressed
            \/ value \in {4, 7} /\ is_compressed' = TRUE
    /\ UNCHANGED <<method, path, host, port, parameters, is_have_data_parameter,
                   pc, list, cur, buffVars, lenVars>>

nhr_request_add_parameter ==
    /\ pc = "configure" /\ Len(parameters) < MaxNodes
    /\ \E name, value \in Lengths :
         parameters' = nhr_map_append(parameters, Node("string", name, value, 0))
    /\ UNCHANGED <<method, path, host, port, http_headers, is_have_data_parameter,
                   is_compressed, pc, list, cur, buffVars, lenVars>>

\* Documented for POST only; a GET would take the length of data as a string.
nhr_request_add_data_parameter ==
    /\ pc = "configure" /\ method = "POST" /\ Len(parameters) < MaxNodes
    /\ \E name, file_name, size \in Lengths :
         parameters' = nhr_map_append(parameters, Node("data", name, size, file_name))
    /\ is_have_data_parameter' = TRUE
    /\ UNCHANGED <<method, path, host, port, http_headers, is_compressed,
                   pc, list, cur, buffVars, lenVars>>

Configuring ==
    \/ nhr_request_add_header_field \/ nhr_request_add_parameter
    \/ nhr_request_add_data_parameter

\* nhr_request_send_raw_request: a GET encodes its fields first, a POST its
\* parameters, because these add fields.
send_raw_request ==
    /\ pc = "configure"
    /\ pc' = IF method = "GET" THEN "headers" ELSE "parameters"
    /\ UNCHANGED <<reqVars, list, cur, buffVars, lenVars>>

-----------------------------------------------------------------------------
(***************************************************************************)
(* The two walks over a list.                                              *)
(***************************************************************************)

Nodes == IF list = "headers" THEN http_headers ELSE parameters

\* Mutant: one byte less for each url-encoded parameter.
Reserved_tight(n) ==
    IF list = "multipart"
    THEN n.key + n.value + n.reserved + (NHR_POST_BOUNDARY_LEN + 2) + 4
           + (IF n.type = "data" THEN 124 + 8 ELSE 40 + 4)
    ELSE n.key + n.value + (IF list = "headers" THEN 4 ELSE 1)

\* What the first walk adds for a node: the strings, and "\r\n" and ": " of a
\* field, "&" and "=" of a parameter, or the lines of a part.
Reserved(n) ==
    IF list = "multipart"
    THEN n.key + n.value + n.reserved + (NHR_POST_BOUNDARY_LEN + 2) + 4
           + (IF n.type = "data" THEN 124 + 8 ELSE 40 + 4)
    ELSE n.key + n.value + (IF list = "headers" THEN 4 ELSE 2)

\* What the second walk writes for a node behind the separator.
Written(n) ==
    IF list = "multipart"
    THEN (2 + NHR_POST_BOUNDARY_LEN + 2)
           + (IF n.type = "data" THEN 54 + n.key + n.reserved + 40 + 37 + n.value
                                 ELSE 43 + n.key + n.value)
    ELSE n.key + n.value + (IF list = "headers" THEN 2 ELSE 1)

\* The separator, which the first node does without.
Separator == IF cur = 1 THEN 0 ELSE IF list = "url" THEN 1 ELSE 2

\* sprintf writes a terminating zero, memcpy of the last value does not.
Zero == IF list = "multipart" THEN 0 ELSE 1

\* Mutant: the size goes on from the buffer before.
Walk_continued(l) ==
    /\ list' = l /\ cur' = 1 /\ pc' = "count"
    /\ UNCHANGED buff_size /\ mark' = NoMarks /\ writed' = 0 /\ end' = 0

\* The walk of the list l begins.
Walk(l) ==
    /\ list' = l /\ cur' = 1 /\ pc' = "count"
    /\ buff_size' = 0 /\ mark' = NoMarks /\ writed' = 0 /\ end' = 0

AfterHeaders    == IF method = "GET" THEN "parameters" ELSE "message"
AfterParameters == IF method = "GET" THEN "message" ELSE "headers"

\* Without a list there is nothing to encode.
begin_headers ==
    /\ pc = "headers"
    /\ \/ http_headers # <<>> /\ Walk("headers")
       \/ http_headers = <<>> /\ pc' = AfterHeaders /\ UNCHANGED <<list, cur, buffVars>>
    /\ UNCHANGED <<reqVars, lenVars>>

begin_parameters ==
    /\ pc = "parameters"
    /\ \/ /\ parameters # <<>>
          /\ Walk(IF is_have_data_parameter THEN "multipart" ELSE "url")
       \/ /\ parameters = <<>>
          /\ pc' = AfterParameters /\ UNCHANGED <<list, cur, buffVars>>
    /\ UNCHANGED <<reqVars, lenVars>>

\* One node of nhr_request_map_strings_length, or of the first loop of
\* nhr_request_create_data_parameters_POST.
count_node ==
    /\ pc = "count" /\ cur <= Len(Nodes)
    /\ buff_size' = buff_size + Reserved(Nodes[cur])
    /\ mark' = [mark EXCEPT ![cur] = buff_size']
    /\ cur' = cur + 1
    /\ UNCHANGED <<reqVars, pc, list, writed, end, lenVars>>

\* The buffer is allocated; a multipart body also has a closing boundary.
allocate ==
    /\ pc = "count" /\ cur > Len(Nodes)
    /\ buff_size' = buff_size + (IF list = "multipart" THEN NHR_POST_BOUNDARY_LEN + 4 + 4 ELSE 0)
    /\ cur' = 1
    /\ pc' = "write"
    /\ UNCHANGED <<reqVars, list, mark, writed, end, lenVars>>

write_node ==
    /\ pc = "write" /\ cur <= Len(Nodes)
    /\ writed' = writed + Separator + Written(Nodes[cur])
    /\ end' = writed' + Zero
    /\ cur' = cur + 1
    /\ UNCHANGED <<reqVars, pc, list, buff_size, mark, lenVars>>

\* The end of the second walk: the closing boundary, the terminating zero.
write_end ==
    /\ pc = "write" /\ cur > Len(Nodes)
    /\ writed' = writed + (IF list = "multipart" THEN 2 + 2 + NHR_POST_BOUNDARY_LEN + 2 ELSE 0)
    /\ end' = writed' + 1
    /\ \/ /\ list = "headers"
          /\ headers_len' = writed' /\ pc' = AfterHeaders /\ UNCHANGED parameters_len
       \/ /\ list # "headers"
          /\ parameters_len' = writed' /\ UNCHANGED headers_len
          /\ pc' = IF method = "GET" THEN "message"
                   ELSE IF list = "url" THEN "compress" ELSE "fields"
    /\ UNCHANGED <<reqVars, list, cur, buff_size, mark, content_length>>

-----------------------------------------------------------------------------
(***************************************************************************)
(* The body of a POST, and the message.                                    *)
(***************************************************************************)

\* nhr_gz_compress gives a block of any size, or NULL and the body stays.
compress ==
    /\ pc = "compress"
    /\ \/ is_compressed /\ \E n \in Lengths : parameters_len' = n
       \/ UNCHANGED parameters_len
    /\ pc' = "fields"
    /\ UNCHANGED <<reqVars, list, cur, buffVars, headers_len, content_length>>

\* The decimal digits of a number.
Digits[n \in Nat] == IF n < 10 THEN 1 ELSE 1 + Digits[n \div 10]

\* Mutant: Content-Length is the length before compression.
add_body_fields_early ==
    /\ pc = "fields"
    /\ LET content_type == IF list = "url" THEN 33 ELSE 30 + NHR_POST_BOUNDARY_LEN
       IN \E digits \in 1 .. 20 :
            /\ digits = Digits[writed]
            /\ http_headers' = nhr_map_append(
                   nhr_map_append(http_headers, Node("string", 12, content_type, 0)),
                   Node("string", 14, digits, 0))
    /\ content_length' = writed
    /\ pc' = AfterParameters
    /\ UNCHANGED <<method, path, host, port, parameters, is_have_data_parameter,
                   is_compressed, list, cur, buffVars, headers_len, parameters_len>>

\* Content-Type and Content-Length become fields of the request; the buffer
\* for the number has 24 bytes.
add_body_fields ==
    /\ pc = "fields"
    /\ LET content_type == IF list = "url" THEN 33 ELSE 30 + NHR_POST_BOUNDARY_LEN
       IN \E digits \in 1 .. 20 :
            /\ digits = Digits[parameters_len]
            /\ http_headers' = nhr_map_append(
                   nhr_map_append(http_headers, Node("string", 12, content_type, 0)),
                   Node("string", 14, digits, 0))
    /\ content_length' = parameters_len
    /\ pc' = AfterParameters
    /\ UNCHANGED <<method, path, host, port, parameters, is_have_data_parameter,
                   is_compressed, list, cur, buffVars, headers_len, parameters_len>>

\* "GET path?parameters HTTP/1.1" or "POST path HTTP/1.1", and the host.
RequestLine == IF method = "GET"
               THEN 4 + path + (IF parameters_len > 0 THEN 1 + parameters_len ELSE 0) + 11
               ELSE 5 + path + 11
HostLine    == 6 + host + port + 2
HeaderBlock == IF headers_len > 0 THEN headers_len + 4 ELSE 2
BodyBlock   == IF method = "POST" /\ parameters_len > 0 THEN parameters_len + 4 ELSE 0

\* nhr_request_create_header_GET and _POST: 256 bytes extra for what is fixed.
create_header ==
    /\ pc = "message"
    /\ buff_size' = path + host + headers_len + parameters_len + 256
    /\ writed' = RequestLine + HostLine + HeaderBlock + BodyBlock
    /\ end' = writed' + 1
    /\ pc' = "done"
    /\ UNCHANGED <<reqVars, list, cur, mark, lenVars>>

Terminating == pc = "done" /\ UNCHANGED vars

Next ==
    \/ Configuring \/ send_raw_request
    \/ begin_headers \/ begin_parameters
    \/ count_node \/ allocate \/ write_node \/ write_end
    \/ compress \/ add_body_fields \/ create_header
    \/ Terminating

Spec == Init /\ [][Next]_vars

-----------------------------------------------------------------------------
(***************************************************************************)
(* Properties.                                                             *)
(***************************************************************************)

TypeOK ==
    /\ method \in {"GET", "POST"}
    /\ path \in Nat /\ host \in Nat /\ port \in 0 .. 6
    /\ http_headers \in Seq(NodeType) /\ parameters \in Seq(NodeType)
    /\ pc \in {"configure", "headers", "parameters", "count", "write",
               "compress", "fields", "message", "done"}
    /\ list \in {"headers", "url", "multipart"}
    /\ cur \in Nat \ {0}
    /\ buff_size \in Nat /\ writed \in Nat /\ end \in Nat
    /\ mark \in [0 .. MaxNodes + 2 -> Nat]
    /\ headers_len \in Nat /\ parameters_len \in Nat /\ content_length \in Nat

\* No encoder writes behind the buffer it allocated: what the second walk over a
\* list writes, separators and the terminating zero included, fits into what the
\* first walk added up, and the message into the sum of its parts.
WritesFit == end <= buff_size

\* The reference: the lengths of the first lines of a header, joined by line ends.
LineSums(fields) ==
    LET line == [i \in 1 .. Len(fields) |->
                   (IF i = 1 THEN 0 ELSE 2) + fields[i].key + 2 + fields[i].value]
        sums[i \in 0 .. Len(fields)] == IF i = 0 THEN 0 ELSE sums[i - 1] + line[i]
    IN sums

HeaderLength(fields) == LineSums(fields)[Len(fields)]

\* The header that is sent describes the body that is sent: it has a line for
\* every field of the request, those included which the encoder of the body adds
\* while the request is sent, and Content-Length is the length of the body as it
\* is after compression.
HeaderDescribesBody ==
    pc = "done" =>
        /\ headers_len = HeaderLength(http_headers)
        /\ method = "POST" /\ parameters # <<>> => content_length = parameters_len

-----------------------------------------------------------------------------
(***************************************************************************)
(* The inductive invariant behind WritesFit.                               *)
(***************************************************************************)

Walking == pc \in {"count", "write"}

\* The lists are no longer than the marks; only a POST adds fields, and only
\* between the walk over its parameters and the walk over its fields.
ListInv ==
    /\ Len(parameters) <= MaxNodes
    /\ Len(http_headers) <= MaxNodes + 2
    /\ method = "GET" => Len(http_headers) <= MaxNodes
    /\ pc \in {"configure", "parameters", "compress", "fields"} => Len(http_headers) <= MaxNodes
    /\ pc \in {"compress", "fields"} => method = "POST"
    /\ Walking /\ list # "headers" => Len(http_headers) <= MaxNodes
    /\ Walking => 1 <= Len(Nodes) /\ cur <= Len(Nodes) + 1

\* The nodes counted so far, and the sums of the walk at each.
Counted == IF pc = "count" THEN cur - 1 ELSE Len(Nodes)

MarkInv ==
    Walking =>
        /\ mark[0] = 0
        /\ \A i \in 1 .. Counted : mark[i] = mark[i - 1] + Reserved(Nodes[i])

\* What is reserved behind the last node, and what a node leaves of its share.
Closing == IF list = "multipart" THEN NHR_POST_BOUNDARY_LEN + 8 ELSE 0
Spare   == IF list = "url" THEN 1 ELSE 2

SizeInv ==
    /\ pc = "count" => /\ mark[cur - 1] = buff_size
                       /\ \A i \in 0 .. Counted : mark[i] <= buff_size
                       /\ writed = 0
    /\ pc = "write" => \A i \in 0 .. Counted : mark[i] + Closing <= buff_size

\* The second walk is behind the first at every node.
PaceInv ==
    pc = "write" => IF cur = 1 THEN writed = 0 ELSE writed + Spare <= mark[cur - 1]

\* The inductive invariant.
IInv == TypeOK /\ ListInv /\ MarkInv /\ SizeInv /\ PaceInv /\ WritesFit

-----------------------------------------------------------------------------
(***************************************************************************)
(* The inductive invariant behind HeaderDescribesBody, next to IInv.       *)
(***************************************************************************)

\* The fields have been encoded, and have not changed since.
HeadersDone ==
    \/ pc \in {"message", "done"}
    \/ method = "GET" /\ (pc = "parameters" \/ (Walking /\ list # "headers"))

\* The body has been encoded and compressed, and its fields were added.
BodyDone ==
    \/ pc \in {"headers", "message", "done"}
    \/ Walking /\ list = "headers"

HeaderInv ==
    /\ pc = "write" /\ list = "headers" => writed = LineSums(http_headers)[cur - 1]
    /\ headers_len = IF HeadersDone THEN HeaderLength(http_headers) ELSE 0
    /\ method = "POST" /\ parameters # <<>> /\ BodyDone => content_length = parameters_len
=============================================================================
