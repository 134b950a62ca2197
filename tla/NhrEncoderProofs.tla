---------------------------- MODULE NhrEncoderProofs ----------------------------
(***************************************************************************)
(* Theorems about the encoders, for lists and strings of any length.  The  *)
(* sums over a list are never computed: mark holds them, node by node, and *)
(* the invariant compares the two walks at each node.                      *)
(***************************************************************************)
EXTENDS NhrEncoder, ListLemmas

USE DEF vars, reqVars, buffVars, lenVars

\* What a node reserves is a number, and covers what is written for it with
\* its separator; the first node leaves the separator's share over.
LEMMA NodeFits ==
    ASSUME TypeOK, NEW n \in NodeType
    PROVE  /\ Reserved(n) \in Nat /\ Written(n) \in Nat /\ Spare \in Nat
           /\ Written(n) + Spare <= Reserved(n)
<1>1. n.key \in Nat /\ n.value \in Nat /\ n.reserved \in Nat
  BY DEF NodeType
<1>2. list \in {"headers", "url", "multipart"}
  BY DEF TypeOK
<1>3. CASE list # "multipart"
  BY <1>1, <1>2, <1>3 DEF Reserved, Written, Spare
<1>4. CASE list = "multipart"
  <2>1. Spare = 2
    BY <1>4 DEF Spare
  <2>2. CASE n.type = "data"
    <3>1. Reserved(n) = n.key + n.value + n.reserved + NHR_POST_BOUNDARY_LEN + 138
      BY <1>1, <1>4, <2>2, BoundaryAssumption DEF Reserved
    <3>2. Written(n) = n.key + n.value + n.reserved + NHR_POST_BOUNDARY_LEN + 135
      BY <1>1, <1>4, <2>2, BoundaryAssumption DEF Written
    <3>3. QED
      BY <1>1, <2>1, <3>1, <3>2, BoundaryAssumption
  <2>3. CASE n.type # "data"
    <3>1. Reserved(n) = n.key + n.value + n.reserved + NHR_POST_BOUNDARY_LEN + 50
      BY <1>1, <1>4, <2>3, BoundaryAssumption DEF Reserved
    <3>2. Written(n) = n.key + n.value + NHR_POST_BOUNDARY_LEN + 47
      BY <1>1, <1>4, <2>3, BoundaryAssumption DEF Written
    <3>3. QED
      BY <1>1, <2>1, <3>1, <3>2, BoundaryAssumption
  <2>4. QED
    BY <2>2, <2>3
<1>5. QED
  BY <1>3, <1>4

\* Nodes of a walk are nodes.
LEMMA NodesType ==
    ASSUME TypeOK
    PROVE  Nodes \in Seq(NodeType) /\ Len(Nodes) \in Nat
           /\ \A i \in 1 .. Len(Nodes) : Nodes[i] \in NodeType
BY DEF TypeOK, Nodes

\* A walk begins with values of the right types.
LEMMA WalkType ==
    ASSUME NEW l \in {"headers", "url", "multipart"}, Walk(l)
    PROVE  /\ list' \in {"headers", "url", "multipart"} /\ pc' = "count"
           /\ cur' \in Nat \ {0} /\ buff_size' \in Nat /\ writed' \in Nat /\ end' \in Nat
           /\ mark' \in [0 .. MaxNodes + 2 -> Nat]
BY DEF Walk, NoMarks

\* Every step keeps the types.
LEMMA TypeStep ==
    ASSUME TypeOK, ListInv, [Next]_vars
    PROVE  TypeOK'
<1> USE LengthsAssumption, NodesAssumption, BoundaryAssumption DEF TypeOK
<1>1. CASE nhr_request_add_header_field
  BY <1>1 DEF nhr_request_add_header_field, nhr_map_append, Node, NodeType
<1>2. CASE nhr_request_add_parameter
  BY <1>2 DEF nhr_request_add_parameter, nhr_map_append, Node, NodeType
<1>3. CASE nhr_request_add_data_parameter
  BY <1>3 DEF nhr_request_add_data_parameter, nhr_map_append, Node, NodeType
<1>4. CASE send_raw_request
  BY <1>4 DEF send_raw_request
<1>5. CASE begin_headers
  <2>1. CASE Walk("headers")
    BY <1>5, <2>1, WalkType DEF begin_headers
  <2>2. CASE ~ Walk("headers")
    BY <1>5, <2>2 DEF begin_headers, AfterHeaders
  <2>3. QED
    BY <2>1, <2>2
<1>6. CASE begin_parameters
  <2> DEFINE l == IF is_have_data_parameter THEN "multipart" ELSE "url"
  <2>1. CASE Walk(l)
    <3>1. l \in {"headers", "url", "multipart"}
      OBVIOUS
    <3>2. UNCHANGED <<reqVars, lenVars>>
      BY <1>6 DEF begin_parameters
    <3> HIDE DEF l
    <3>3. QED
      BY <2>1, <3>1, <3>2, WalkType
  <2>2. CASE ~ Walk(l)
    BY <1>6, <2>2 DEF begin_parameters, AfterParameters
  <2>3. QED
    BY <2>1, <2>2
<1>7. CASE count_node
  <2>1. Reserved(Nodes[cur]) \in Nat
    BY <1>7, NodesType, NodeFits DEF count_node
  <2>2. QED
    BY <1>7, <2>1 DEF count_node, ListInv, Walking, Nodes
<1>8. CASE allocate
  BY <1>8 DEF allocate
<1>9. CASE write_node
  <2>1. Written(Nodes[cur]) \in Nat
    BY <1>9, NodesType, NodeFits DEF write_node
  <2>2. Separator \in Nat /\ Zero \in Nat
    BY DEF Separator, Zero
  <2>3. /\ writed' = writed + Separator + Written(Nodes[cur])
        /\ end' = writed' + Zero /\ cur' = cur + 1
        /\ UNCHANGED <<reqVars, pc, list, buff_size, mark, lenVars>>
    BY <1>9 DEF write_node
  <2>4. writed \in Nat /\ cur \in Nat \ {0}
    OBVIOUS
  <2>5. writed' \in Nat
    BY ONLY <2>1, <2>2, <2>3, <2>4
  <2>6. end' \in Nat /\ cur' \in Nat \ {0}
    BY ONLY <2>2, <2>3, <2>4, <2>5
  <2>7. QED
    BY <2>3, <2>5, <2>6
<1>10. CASE write_end
  BY <1>10 DEF write_end, AfterHeaders
<1>11. CASE compress
  BY <1>11 DEF compress
<1>12. CASE add_body_fields
  <2> DEFINE a == IF list = "url" THEN 33 ELSE 30 + NHR_POST_BOUNDARY_LEN
  <2>1. PICK b \in 1 .. 20 :
          http_headers' = Append(Append(http_headers, Node("string", 12, a, 0)),
                                 Node("string", 14, b, 0))
    BY <1>12 DEF add_body_fields, nhr_map_append
  <2>2. Node("string", 12, a, 0) \in NodeType /\ Node("string", 14, b, 0) \in NodeType
    BY DEF Node, NodeType
  <2>3. http_headers' \in Seq(NodeType)
    BY <2>1, <2>2
  <2>4. QED
    BY <1>12, <2>3 DEF add_body_fields, AfterParameters
<1>13. CASE create_header
  BY <1>13 DEF create_header, RequestLine, HostLine, HeaderBlock, BodyBlock
<1>14. CASE UNCHANGED vars
  BY <1>14
<1>15. QED
  BY <1>1, <1>2, <1>3, <1>4, <1>5, <1>6, <1>7, <1>8, <1>9, <1>10, <1>11, <1>12,
     <1>13, <1>14 DEF Next, Configuring, Terminating

\* Append makes a list longer by one.
LEMMA AppendLen ==
    ASSUME NEW S, NEW s \in Seq(S), NEW e
    PROVE  Len(Append(s, e)) = Len(s) + 1 /\ Len(s) \in Nat
OBVIOUS

\* Every step keeps the lists within the marks.
LEMMA ListStep ==
    ASSUME TypeOK, ListInv, [Next]_vars
    PROVE  ListInv'
<1> USE NodesAssumption DEF TypeOK, ListInv, Walking, Nodes
<1>1. CASE Configuring
  <2>1. CASE nhr_request_add_header_field
    BY <2>1, AppendLen DEF nhr_request_add_header_field, nhr_map_append
  <2>2. CASE nhr_request_add_parameter
    BY <2>2, AppendLen DEF nhr_request_add_parameter, nhr_map_append
  <2>3. CASE nhr_request_add_data_parameter
    BY <2>3, AppendLen DEF nhr_request_add_data_parameter, nhr_map_append
  <2>4. QED
    BY <1>1, <2>1, <2>2, <2>3 DEF Configuring
<1>2. CASE send_raw_request
  BY <1>2 DEF send_raw_request
<1>3. CASE begin_headers
  BY <1>3 DEF begin_headers, Walk, AfterHeaders
<1>4. CASE begin_parameters
  BY <1>4 DEF begin_parameters, Walk, AfterParameters
<1>5. CASE count_node \/ allocate \/ write_node
  <2>1. /\ UNCHANGED <<method, parameters, http_headers, list>>
        /\ pc = "count" \/ pc = "write"
        /\ pc' = "count" \/ pc' = "write"
        /\ cur' = 1 \/ (cur <= Len(Nodes) /\ cur' = cur + 1)
    <3>1. CASE count_node
      BY <3>1 DEF count_node
    <3>2. CASE allocate
      BY <3>2 DEF allocate
    <3>3. CASE write_node
      BY <3>3 DEF write_node
    <3>4. QED
      BY <1>5, <3>1, <3>2, <3>3
  <2>2. Nodes' = Nodes /\ Len(Nodes) \in Nat
    BY <2>1
  <2>3. 1 <= Len(Nodes') /\ cur' <= Len(Nodes') + 1
    <3>1. 1 <= Len(Nodes) /\ cur \in Nat
      BY <2>1
    <3> HIDE DEF Nodes, ListInv, TypeOK
    <3>2. QED
      BY <2>1, <2>2, <3>1
  <2>4. /\ Len(parameters') <= MaxNodes
        /\ Len(http_headers') <= MaxNodes + 2
        /\ method' = "GET" => Len(http_headers') <= MaxNodes
        /\ list' # "headers" => Len(http_headers') <= MaxNodes
    BY <2>1
  <2>5. pc' \notin {"configure", "parameters", "compress", "fields"}
    BY <2>1
  <2> HIDE DEF Nodes, TypeOK
  <2>6. QED
    BY <2>3, <2>4, <2>5
<1>6. CASE write_end
  BY <1>6 DEF write_end, AfterHeaders
<1>7. CASE compress
  BY <1>7 DEF compress
<1>8. CASE add_body_fields
  <2>1. PICK m, n : http_headers' = Append(Append(http_headers, m), n)
    BY <1>8 DEF add_body_fields, nhr_map_append
  <2>2. Len(http_headers') = Len(http_headers) + 2
    BY <2>1, AppendLen
  <2>3. method = "POST"
    BY <1>8 DEF add_body_fields
  <2>4. QED
    BY <1>8, <2>2, <2>3 DEF add_body_fields, AfterParameters
<1>9. CASE create_header
  BY <1>9 DEF create_header
<1>10. CASE UNCHANGED vars
  BY <1>10
<1>11. QED
  BY <1>1, <1>2, <1>3, <1>4, <1>5, <1>6, <1>7, <1>8, <1>9, <1>10
     DEF Next, Terminating

\* The three steps of a walk, and what they leave alone.
WalkStep == count_node \/ allocate \/ write_node

LEMMA WalkFrame ==
    ASSUME TypeOK, ListInv, WalkStep
    PROVE  /\ UNCHANGED <<list, Nodes>>
           /\ \A i : Reserved(Nodes[i])' = Reserved(Nodes[i])
           /\ Closing' = Closing /\ Spare' = Spare
           /\ Len(Nodes) \in 1 .. MaxNodes + 2
           /\ cur \in 1 .. Len(Nodes) + 1
           /\ Walking /\ Walking'
<1>1. UNCHANGED <<list, http_headers, parameters>> /\ Walking /\ Walking'
  BY DEF WalkStep, count_node, allocate, write_node, Walking
<1>2. Nodes' = Nodes
  BY <1>1 DEF Nodes
<1>3. \A i : Reserved(Nodes[i])' = Reserved(Nodes[i])
  BY <1>1, <1>2 DEF Reserved
<1>4. Closing' = Closing /\ Spare' = Spare
  BY <1>1 DEF Closing, Spare
<1>5. Len(Nodes) \in 1 .. MaxNodes + 2 /\ cur \in 1 .. Len(Nodes) + 1
  BY <1>1, NodesType, NodesAssumption DEF ListInv, TypeOK, Nodes
<1>6. QED
  BY <1>1, <1>2, <1>3, <1>4, <1>5

\* A node of the first walk: its sum is recorded and bounds those before it.
LEMMA CountStep ==
    ASSUME IInv, count_node
    PROVE  MarkInv' /\ SizeInv' /\ PaceInv' /\ WritesFit'
<1> USE NodesAssumption DEF IInv
<1> DEFINE w == Reserved(Nodes[cur])
<1>1. /\ UNCHANGED <<list, Nodes>> /\ Len(Nodes) \in 1 .. MaxNodes + 2
      /\ \A i : Reserved(Nodes[i])' = Reserved(Nodes[i])
  BY WalkFrame DEF WalkStep
<1>2. cur \in 1 .. Len(Nodes) /\ pc = "count" /\ pc' = "count" /\ cur' = cur + 1
  BY <1>1 DEF count_node, TypeOK
<1>3. w \in Nat
  BY <1>2, NodesType, NodeFits
<1>4. /\ buff_size' = buff_size + w /\ buff_size \in Nat
      /\ mark' = [mark EXCEPT ![cur] = buff_size + w]
      /\ mark \in [0 .. MaxNodes + 2 -> Nat]
      /\ UNCHANGED <<writed, end>>
  BY DEF count_node, TypeOK
<1>5. mark'[cur] = buff_size + w /\ \A i \in 0 .. cur - 1 : mark'[i] = mark[i]
  BY <1>1, <1>2, <1>4
<1>6. Counted = cur - 1 /\ Counted' = cur
  BY <1>2 DEF Counted
<1>7. /\ mark[0] = 0 /\ mark[cur - 1] = buff_size
      /\ \A i \in 1 .. cur - 1 : mark[i] = mark[i - 1] + Reserved(Nodes[i])
      /\ \A i \in 0 .. cur - 1 : mark[i] <= buff_size
      /\ writed = 0 /\ end <= buff_size
  BY <1>2, <1>6 DEF MarkInv, SizeInv, Walking, WritesFit
<1>8. MarkInv'
  <2>1. mark'[0] = 0
    BY <1>2, <1>5, <1>7
  <2>2. ASSUME NEW i \in 1 .. cur
        PROVE  mark'[i] = mark'[i - 1] + Reserved(Nodes[i])'
    <3>1. CASE i = cur
      BY <1>1, <1>2, <1>5, <1>7, <3>1
    <3>2. CASE i \in 1 .. cur - 1
      <4>1. i - 1 \in 0 .. cur - 1 /\ i \in 0 .. cur - 1
        BY <1>2, <3>2
      <4>2. QED
        BY <1>1, <1>5, <1>7, <3>2, <4>1
    <3>3. QED
      BY <1>2, <3>1, <3>2
  <2>3. QED
    BY <1>6, <2>1, <2>2 DEF MarkInv
<1>9. SizeInv'
  <2>1. \A i \in 0 .. cur : mark'[i] <= buff_size + w
    <3>1. ASSUME NEW i \in 0 .. cur - 1
          PROVE  mark'[i] <= buff_size + w
      <4>1. mark'[i] = mark[i] /\ mark[i] <= buff_size /\ mark[i] \in Nat
        BY <1>1, <1>2, <1>4, <1>5, <1>7
      <4>2. QED
        BY <1>3, <1>4, <4>1
    <3>2. mark'[cur] <= buff_size + w
      BY <1>3, <1>4, <1>5
    <3>3. QED
      BY <1>2, <3>1, <3>2
  <2>2. mark'[cur' - 1] = buff_size' /\ writed' = 0
    BY <1>2, <1>4, <1>5, <1>7
  <2>3. QED
    BY <1>2, <1>4, <1>6, <2>1, <2>2 DEF SizeInv
<1>10. PaceInv'
  BY <1>2 DEF PaceInv
<1>11. WritesFit'
  BY <1>3, <1>4, <1>7 DEF WritesFit, TypeOK
<1>12. QED
  BY <1>8, <1>9, <1>10, <1>11

\* The allocation adds the closing boundary to what every mark is below.
LEMMA AllocateStep ==
    ASSUME IInv, allocate
    PROVE  MarkInv' /\ SizeInv' /\ PaceInv' /\ WritesFit'
<1> USE NodesAssumption DEF IInv
<1>1. /\ UNCHANGED <<list, Nodes>> /\ Len(Nodes) \in 1 .. MaxNodes + 2
      /\ \A i : Reserved(Nodes[i])' = Reserved(Nodes[i])
      /\ Closing' = Closing /\ cur \in 1 .. Len(Nodes) + 1
  BY WalkFrame DEF WalkStep
<1>2. /\ pc = "count" /\ pc' = "write" /\ cur = Len(Nodes) + 1 /\ cur' = 1
      /\ UNCHANGED <<mark, writed, end>>
  BY <1>1 DEF allocate
<1>3. Closing \in Nat /\ buff_size' = buff_size + Closing /\ buff_size \in Nat
  BY BoundaryAssumption DEF allocate, Closing, TypeOK
<1>4. Counted = Len(Nodes) /\ Counted' = Len(Nodes)
  BY <1>1, <1>2 DEF Counted
<1>5. MarkInv'
  BY <1>1, <1>2, <1>4 DEF MarkInv, Walking
<1>6. SizeInv'
  <2>1. ASSUME NEW i \in 0 .. Len(Nodes)
        PROVE  mark[i] + Closing <= buff_size + Closing
    <3>1. mark[i] \in Nat /\ mark[i] <= buff_size
      BY <1>1, <1>2, <1>4 DEF SizeInv, TypeOK
    <3>2. QED
      BY <1>3, <3>1
  <2>2. QED
    BY <1>1, <1>2, <1>3, <1>4, <2>1 DEF SizeInv
<1>7. PaceInv'
  BY <1>2 DEF PaceInv, SizeInv
<1>8. WritesFit'
  BY <1>2, <1>3 DEF WritesFit, TypeOK
<1>9. QED
  BY <1>5, <1>6, <1>7, <1>8

\* A node of the second walk stays a separator behind the mark of the first:
\* the node before left the room for the separator.
LEMMA WriteStep ==
    ASSUME IInv, write_node
    PROVE  MarkInv' /\ SizeInv' /\ PaceInv' /\ WritesFit'
<1> USE NodesAssumption DEF IInv
<1> DEFINE w == Written(Nodes[cur])
           r == Reserved(Nodes[cur])
<1>1. /\ UNCHANGED <<list, Nodes>> /\ Len(Nodes) \in 1 .. MaxNodes + 2
      /\ \A i : Reserved(Nodes[i])' = Reserved(Nodes[i])
      /\ Closing' = Closing /\ Spare' = Spare
  BY WalkFrame DEF WalkStep
<1>2. /\ pc = "write" /\ pc' = "write" /\ cur \in 1 .. Len(Nodes) /\ cur' = cur + 1
      /\ UNCHANGED <<mark, buff_size>>
  BY <1>1 DEF write_node, TypeOK
<1>3. Counted = Len(Nodes) /\ Counted' = Len(Nodes)
  BY <1>1, <1>2 DEF Counted
<1>4. MarkInv'
  BY <1>1, <1>2, <1>3 DEF MarkInv, Walking
<1>5. SizeInv'
  BY <1>1, <1>2, <1>3 DEF SizeInv
<1>6. /\ r \in Nat /\ w \in Nat /\ w + Spare <= r
      /\ Spare \in 1 .. 2 /\ Zero \in 0 .. 1
      /\ Separator = IF cur = 1 THEN 0 ELSE Spare
  BY <1>2, NodesType, NodeFits DEF Spare, Separator, Zero
<1>7. /\ mark[cur] = mark[cur - 1] + r
      /\ mark[cur] \in Nat /\ mark[cur - 1] \in Nat /\ mark[0] = 0
  BY <1>1, <1>2, <1>3 DEF MarkInv, Walking, TypeOK
<1>8. writed' = writed + Separator + w /\ end' = writed' + Zero /\ writed \in Nat
  BY DEF write_node, TypeOK
<1>9. writed' + Spare <= mark[cur]
  <2>1. CASE cur = 1
    BY <1>2, <1>6, <1>7, <1>8, <2>1 DEF PaceInv
  <2>2. CASE cur # 1
    <3>1. writed + Spare <= mark[cur - 1]
      BY <1>2, <2>2 DEF PaceInv
    <3>2. writed' = writed + Spare + w
      BY ONLY <1>6, <1>8, <2>2
    <3>3. Spare \in Nat
      BY ONLY <1>6
    <3> HIDE DEF w, r
    <3>4. QED
      BY ONLY <1>6, <1>7, <1>8, <3>1, <3>2, <3>3
  <2>3. QED
    BY <2>1, <2>2
<1>10. PaceInv'
  BY <1>1, <1>2, <1>9 DEF PaceInv
<1>11. WritesFit'
  <2>1. mark[cur] + Closing <= buff_size /\ Closing \in Nat /\ buff_size \in Nat
    BY <1>1, <1>2, <1>3, BoundaryAssumption DEF SizeInv, Closing, TypeOK
  <2>2. writed' \in Nat
    BY <1>6, <1>8
  <2>3. writed' + Zero <= mark[cur]
    BY <1>6, <1>7, <1>9, <2>2
  <2>4. end' \in Nat
    BY TypeStep DEF TypeOK, Next
  <2>5. QED
    BY <1>2, <1>7, <1>8, <2>1, <2>3, <2>4 DEF WritesFit
<1>12. QED
  BY <1>4, <1>5, <1>10, <1>11

\* The end of the second walk fits into what is reserved behind the last node.
LEMMA EndStep ==
    ASSUME IInv, write_end
    PROVE  MarkInv' /\ SizeInv' /\ PaceInv' /\ WritesFit'
<1> USE NodesAssumption DEF IInv
<1>1. pc = "write" /\ cur > Len(Nodes) /\ buff_size' = buff_size
  BY DEF write_end
<1>2. pc' # "count" /\ pc' # "write"
  BY DEF write_end, AfterHeaders
<1>3. MarkInv' /\ SizeInv' /\ PaceInv'
  BY <1>2 DEF MarkInv, SizeInv, PaceInv, Walking
<1>4. Len(Nodes) \in 1 .. MaxNodes + 2 /\ cur = Len(Nodes) + 1
  BY <1>1, NodesType DEF ListInv, Walking, TypeOK, Nodes
<1>5. mark[Len(Nodes)] \in Nat /\ writed \in Nat /\ buff_size \in Nat
  BY <1>4 DEF TypeOK
<1>6. /\ writed + Spare <= mark[Len(Nodes)]
      /\ mark[Len(Nodes)] + Closing <= buff_size
  BY <1>1, <1>4 DEF PaceInv, SizeInv, Counted
<1>7. WritesFit'
  <2>1. CASE list = "multipart"
    <3>1. Spare = 2 /\ Closing = NHR_POST_BOUNDARY_LEN + 8
      BY <2>1 DEF Spare, Closing
    <3>2. end' = writed + NHR_POST_BOUNDARY_LEN + 7
      BY <1>5, <2>1, BoundaryAssumption DEF write_end
    <3>3. QED
      BY <1>1, <1>5, <1>6, <3>1, <3>2, BoundaryAssumption DEF WritesFit
  <2>2. CASE list # "multipart"
    <3>1. Spare \in {1, 2} /\ Closing = 0
      BY <2>2 DEF Spare, Closing
    <3>2. end' = writed + 1
      BY <1>5, <2>2 DEF write_end
    <3>3. QED
      BY <1>1, <1>5, <1>6, <3>1, <3>2 DEF WritesFit
  <2>3. QED
    BY <2>1, <2>2
<1>8. QED
  BY <1>3, <1>7

\* A walk begins with nothing counted and nothing written.
LEMMA BeginStep ==
    ASSUME IInv, begin_headers \/ begin_parameters
    PROVE  MarkInv' /\ SizeInv' /\ PaceInv' /\ WritesFit'
<1> USE NodesAssumption
<1>1. CASE \E l : Walk(l)
  <2>1. /\ pc' = "count" /\ cur' = 1 /\ buff_size' = 0 /\ writed' = 0 /\ end' = 0
        /\ mark' = [i \in 0 .. MaxNodes + 2 |-> 0]
    BY <1>1 DEF Walk, NoMarks
  <2>2. Counted' = 0 /\ mark'[0] = 0
    BY <2>1 DEF Counted
  <2>3. MarkInv'
    BY <2>1, <2>2 DEF MarkInv
  <2>4. SizeInv'
    BY <2>1, <2>2 DEF SizeInv
  <2>5. QED
    BY <2>1, <2>3, <2>4 DEF PaceInv, WritesFit
<1>2. CASE ~ \E l : Walk(l)
  <2>1. pc' # "count" /\ pc' # "write" /\ UNCHANGED <<buff_size, end>>
    BY <1>2 DEF begin_headers, begin_parameters, AfterHeaders, AfterParameters
  <2>2. QED
    BY <2>1 DEF IInv, MarkInv, SizeInv, PaceInv, WritesFit, Walking
<1>3. QED
  BY <1>1, <1>2

\* The fixed parts of a message take fewer than the 256 bytes reserved for them.
LEMMA MessageStep ==
    ASSUME IInv, create_header
    PROVE  MarkInv' /\ SizeInv' /\ PaceInv' /\ WritesFit'
<1>1. pc' = "done" /\ end' = RequestLine + HostLine + HeaderBlock + BodyBlock + 1
      /\ buff_size' = path + host + headers_len + parameters_len + 256
  BY DEF create_header
<1>2. /\ path \in Nat /\ host \in Nat /\ port \in 0 .. 6
      /\ headers_len \in Nat /\ parameters_len \in Nat
      /\ method \in {"GET", "POST"}
  BY DEF IInv, TypeOK
<1>3. /\ RequestLine + BodyBlock <= path + parameters_len + 20
      /\ RequestLine \in Nat /\ BodyBlock \in Nat
  BY <1>2 DEF RequestLine, BodyBlock
<1>4. HostLine <= host + 14 /\ HostLine \in Nat
  BY <1>2 DEF HostLine
<1>5. HeaderBlock <= headers_len + 4 /\ HeaderBlock \in Nat
  BY <1>2 DEF HeaderBlock
<1>6. WritesFit'
  BY <1>1, <1>2, <1>3, <1>4, <1>5 DEF WritesFit
<1>7. QED
  BY <1>1, <1>6 DEF MarkInv, SizeInv, PaceInv, Walking

\* Every step keeps the inductive invariant.
LEMMA InvStep ==
    ASSUME IInv, [Next]_vars
    PROVE  IInv'
<1>1. TypeOK' /\ ListInv'
  BY TypeStep, ListStep DEF IInv
<1>2. CASE Configuring \/ send_raw_request \/ compress \/ add_body_fields
  <2>1. pc' # "count" /\ pc' # "write" /\ UNCHANGED <<buff_size, end>>
    <3>1. CASE Configuring
      BY <3>1 DEF Configuring, nhr_request_add_header_field,
                  nhr_request_add_parameter, nhr_request_add_data_parameter
    <3>2. CASE send_raw_request
      BY <3>2 DEF send_raw_request
    <3>3. CASE compress
      BY <3>3 DEF compress
    <3>4. CASE add_body_fields
      BY <3>4 DEF add_body_fields, AfterParameters
    <3>5. QED
      BY <1>2, <3>1, <3>2, <3>3, <3>4
  <2>2. MarkInv' /\ SizeInv' /\ PaceInv' /\ WritesFit'
    BY <2>1 DEF IInv, MarkInv, SizeInv, PaceInv, WritesFit, Walking
  <2>3. QED
    BY <1>1, <2>2 DEF IInv
<1>3. CASE begin_headers \/ begin_parameters
  BY <1>1, <1>3, BeginStep DEF IInv
<1>4. CASE count_node
  BY <1>1, <1>4, CountStep DEF IInv
<1>5. CASE allocate
  BY <1>1, <1>5, AllocateStep DEF IInv
<1>6. CASE write_node
  BY <1>1, <1>6, WriteStep DEF IInv
<1>7. CASE write_end
  BY <1>1, <1>7, EndStep DEF IInv
<1>8. CASE create_header
  BY <1>1, <1>8, MessageStep DEF IInv
<1>9. CASE UNCHANGED vars
  BY <1>9 DEF IInv, TypeOK, ListInv, MarkInv, SizeInv, PaceInv, WritesFit, Walking,
              Nodes, Counted, Closing, Spare, Reserved
<1>10. QED
  BY <1>2, <1>3, <1>4, <1>5, <1>6, <1>7, <1>8, <1>9 DEF Next, Terminating

\* The inductive invariant holds of every encoding: at each node the second walk
\* over a list is at least a separator behind what the first walk reserved.
THEOREM Invariance == Spec => []IInv
<1>1. Init => IInv
  <2> SUFFICES ASSUME Init PROVE IInv
    OBVIOUS
  <2> USE NodesAssumption, LengthsAssumption, PortsAssumption DEF Init
  <2>1. TypeOK
    BY DEF TypeOK, NoMarks
  <2>2. ListInv
    BY DEF ListInv, Walking
  <2>3. MarkInv /\ SizeInv /\ PaceInv /\ WritesFit
    BY DEF MarkInv, SizeInv, PaceInv, WritesFit, Walking
  <2>4. QED
    BY <2>1, <2>2, <2>3 DEF IInv
<1>2. IInv /\ [Next]_vars => IInv'
  BY InvStep
<1>3. QED
  BY <1>1, <1>2, PTL DEF Spec

\* No encoder writes behind the buffer it allocated, for lists of any length and
\* strings of any size.
THEOREM BufferSafety == Spec => []WritesFit
<1>1. IInv => WritesFit
  BY DEF IInv
<1>2. QED
  BY Invariance, <1>1, PTL

-----------------------------------------------------------------------------
(***************************************************************************)
(* The header and the body it describes.                                   *)
(***************************************************************************)

\* The reference is well defined: it adds one line after the other.
LEMMA LineSumsStep ==
    ASSUME NEW fields \in Seq(NodeType)
    PROVE  /\ LineSums(fields)[0] = 0
           /\ \A i \in 1 .. Len(fields) :
                LineSums(fields)[i] = LineSums(fields)[i - 1]
                  + ((IF i = 1 THEN 0 ELSE 2) + fields[i].key + 2 + fields[i].value)
           /\ LineSums(fields) \in [0 .. Len(fields) -> Nat]
<1> DEFINE line == [i \in 1 .. Len(fields) |->
                      (IF i = 1 THEN 0 ELSE 2) + fields[i].key + 2 + fields[i].value]
<1>1. \A i \in 1 .. Len(fields) : line[i] \in Nat
  <2>1. ASSUME NEW i \in 1 .. Len(fields)
        PROVE  fields[i].key \in Nat /\ fields[i].value \in Nat
    <3>1. fields[i] \in NodeType
      OBVIOUS
    <3>2. QED
      BY <3>1 DEF NodeType
  <2>2. QED
    BY <2>1
<1>2. Len(fields) \in Nat
  OBVIOUS
<1> HIDE DEF line
<1>3. /\ \E f : SumsOf(f, line, Len(fields))
      /\ \A f : SumsOf(f, line, Len(fields)) => f \in [0 .. Len(fields) -> Nat]
  BY <1>1, <1>2, SumsExist
<1>4. LineSums(fields) = CHOOSE f : SumsOf(f, line, Len(fields))
  BY Zenon DEF LineSums, SumsOf, line
<1>5. SumsOf(LineSums(fields), line, Len(fields))
  BY <1>3, <1>4
<1>6. /\ LineSums(fields)[0] = 0
      /\ \A i \in 1 .. Len(fields) : LineSums(fields)[i] = LineSums(fields)[i - 1] + line[i]
  BY <1>2, <1>5 DEF SumsOf
<1>7. QED
  BY <1>3, <1>5, <1>6 DEF line

\* Every step keeps the header true to the fields and to the body.
LEMMA HeaderStep ==
    ASSUME IInv, HeaderInv, [Next]_vars
    PROVE  HeaderInv'
<1> USE DEF HeadersDone, BodyDone, Walking
<1> SUFFICES ASSUME Next
             PROVE  HeaderInv'
  BY DEF HeaderInv
<1>1. TypeOK /\ ListInv /\ SizeInv
  BY DEF IInv
<1>2. http_headers \in Seq(NodeType) /\ Len(http_headers) \in Nat
      /\ method \in {"GET", "POST"} /\ list \in {"headers", "url", "multipart"}
      /\ cur \in Nat \ {0}
  BY <1>1 DEF TypeOK
<1>3. CASE Configuring
  BY <1>3 DEF HeaderInv, Configuring, nhr_request_add_header_field,
              nhr_request_add_parameter, nhr_request_add_data_parameter
<1>4. CASE send_raw_request
  BY <1>4 DEF HeaderInv, send_raw_request
<1>5. CASE begin_headers
  <2>1. CASE http_headers = <<>>
    <3>1. HeaderLength(http_headers) = 0
      BY <1>2, <2>1, LineSumsStep DEF HeaderLength
    <3>2. QED
      BY <1>2, <1>5, <2>1, <3>1 DEF HeaderInv, begin_headers, AfterHeaders
  <2>2. CASE http_headers # <<>>
    BY <1>5, <2>2 DEF HeaderInv, begin_headers, Walk
  <2>3. QED
    BY <2>1, <2>2
<1>6. CASE begin_parameters
  BY <1>2, <1>6 DEF HeaderInv, begin_parameters, Walk, AfterParameters
<1>7. CASE count_node
  BY <1>7 DEF HeaderInv, count_node
<1>8. CASE allocate
  <2>1. writed = 0 /\ LineSums(http_headers)[0] = 0
    BY <1>1, <1>2, <1>8, LineSumsStep DEF allocate, SizeInv
  <2>2. QED
    BY <1>8, <2>1 DEF HeaderInv, allocate
<1>9. CASE write_node
  <2>1. CASE list = "headers"
    <3>1. cur \in 1 .. Len(http_headers) /\ http_headers[cur] \in NodeType
      BY <1>2, <1>9, <2>1 DEF write_node, Nodes
    <3>2. writed' = writed + ((IF cur = 1 THEN 0 ELSE 2)
                      + http_headers[cur].key + 2 + http_headers[cur].value)
      <4>1. http_headers[cur].key \in Nat /\ http_headers[cur].value \in Nat /\ writed \in Nat
        BY <1>1, <3>1 DEF NodeType, TypeOK
      <4>2. writed' = writed + Separator + Written(http_headers[cur])
        BY <1>9, <2>1 DEF write_node, Nodes
      <4>3. Written(http_headers[cur]) = http_headers[cur].key + http_headers[cur].value + 2
        BY <2>1 DEF Written
      <4>4. Separator = IF cur = 1 THEN 0 ELSE 2
        BY <2>1 DEF Separator
      <4>5. QED
        BY <4>1, <4>2, <4>3, <4>4
    <3>3. writed = LineSums(http_headers)[cur - 1]
      BY <1>9, <2>1 DEF HeaderInv, write_node
    <3>4. writed' = LineSums(http_headers)[cur]
      BY <1>2, <3>1, <3>2, <3>3, LineSumsStep
    <3>5. cur' - 1 = cur
      BY <1>2, <1>9 DEF write_node
    <3>6. QED
      BY <1>9, <2>1, <3>4, <3>5 DEF HeaderInv, write_node
  <2>2. CASE list # "headers"
    BY <1>9, <2>2 DEF HeaderInv, write_node
  <2>3. QED
    BY <2>1, <2>2
<1>10. CASE write_end
  <2>1. CASE list = "headers"
    <3>1. cur = Len(http_headers) + 1
      BY <1>1, <1>2, <1>10, <2>1 DEF write_end, ListInv, Nodes
    <3>2. writed' = HeaderLength(http_headers)
      <4>1. writed \in Nat
        BY <1>1 DEF TypeOK
      <4>2. writed' = writed
        BY <1>10, <2>1, <4>1 DEF write_end
      <4>3. QED
        BY <1>2, <1>10, <2>1, <3>1, <4>2 DEF HeaderInv, HeaderLength, write_end
    <3>3. QED
      BY <1>2, <1>10, <2>1, <3>2 DEF HeaderInv, write_end, AfterHeaders
  <2>2. CASE list # "headers"
    BY <1>2, <1>10, <2>2 DEF HeaderInv, write_end
  <2>3. QED
    BY <2>1, <2>2
<1>11. CASE compress
  BY <1>1, <1>11 DEF HeaderInv, compress, ListInv
<1>12. CASE add_body_fields
  BY <1>1, <1>12 DEF HeaderInv, add_body_fields, ListInv, AfterParameters
<1>13. CASE create_header
  BY <1>13 DEF HeaderInv, create_header
<1>14. CASE Terminating
  BY <1>14 DEF HeaderInv, Terminating
<1>15. QED
  BY <1>3, <1>4, <1>5, <1>6, <1>7, <1>8, <1>9, <1>10, <1>11, <1>12, <1>13, <1>14 DEF Next

\* The invariant behind HeaderDescribesBody holds in every state.
THEOREM HeaderInvariance == Spec => []HeaderInv
<1>1. Init => HeaderInv
  BY DEF Init, HeaderInv, HeadersDone, BodyDone, Walking
<1>2. IInv /\ HeaderInv /\ [Next]_vars => HeaderInv'
  BY HeaderStep
<1>3. QED
  BY Invariance, <1>1, <1>2, PTL DEF Spec

\* For lists of any length: the header sent has a line for every field, those
\* included that the encoder of the body adds while it runs, and Content-Length
\* is the length of the body that is sent, compressed or not.
THEOREM HeaderIsTrue == Spec => []HeaderDescribesBody
<1>1. HeaderInv => HeaderDescribesBody
  BY DEF HeaderInv, HeaderDescribesBody, HeadersDone, BodyDone
<1>2. QED
  BY HeaderInvariance, <1>1, PTL
=============================================================================
