----------------------------- MODULE NhrMemoryProofs -----------------------------
(***************************************************************************)
(* Proofs about NhrMemory, for lists of any length.                        *)
(*                                                                         *)
(* What a function does is reasoned about as in a sequential program: with *)
(* an assertion on the memory before, one on the memory after, a rule for  *)
(* each thing done to a slot and a rule for one sequence after another.    *)
(***************************************************************************)
EXTENDS NhrMemory, ListLemmas, FiniteSetTheorems, TLAPS

-----------------------------------------------------------------------------
(***************************************************************************)
(* Slots.                                                                  *)
(***************************************************************************)

Fields == {"node", "key", "value", "reserved"}

\* Which slot lies in the block of which.
LEMMA Containers ==
    /\ Container(Root) = Root /\ Container(Body) = Member("response")
    /\ \A x : Container(Member(x)) = Root
    /\ \A x : Container(Local(x)) = Local(x)
    /\ \A l \in Lists : Container(Node(l, 1)) = Root
    /\ \A l \in Lists, i \in Nat : i > 1 => Container(Node(l, i)) = Node(l, i - 1)
    /\ \A l \in Lists, i \in Nat, f \in Fields \ {"node"} : Container(<<l, i, f>>) = Node(l, i)
BY DEF Container, Root, Body, Member, Local, Node, Lists, Fields

\* What the slots are.
LEMMA SlotKinds ==
    /\ Root \in Slots \ Locals /\ Body \in Slots \ Locals
    /\ \A x \in Strings \cup {"work_mutex", "command_mutex", "response", "boundary"} :
         Member(x) \in Slots \ Locals
    /\ Locals \subseteq Slots
    /\ \A l \in Lists, i \in Nodes, f \in Fields : <<l, i, f>> \in Slots \ Locals
BY DEF Slots, Members, Locals, Root, Body, Member, Local, Lists, Fields, Strings

\* Which slots are different.
LEMMA SlotsDiffer ==
    /\ Root # Body
    /\ \A x : Root # Member(x) /\ Root # Local(x) /\ Body # Member(x) /\ Body # Local(x)
    /\ \A x, y : Member(x) # Local(y) /\ (Member(x) = Member(y) => x = y)
    /\ \A x, y : Local(x) = Local(y) => x = y
    /\ \A l \in Lists, i \in Nodes, f \in Fields :
         /\ <<l, i, f>> # Root /\ <<l, i, f>> # Body
         /\ \A x : <<l, i, f>> # Member(x) /\ <<l, i, f>> # Local(x)
    /\ \A l1 \in Lists, l2 \in Lists, i1 \in Nodes, i2 \in Nodes, f1 \in Fields, f2 \in Fields :
         <<l1, i1, f1>> = <<l2, i2, f2>> => l1 = l2 /\ i1 = i2 /\ f1 = f2
BY DEF Root, Body, Member, Local, Lists, Fields

\* Every slot is of one of these kinds.
LEMMA SlotCases ==
    ASSUME NEW s \in Slots
    PROVE  \/ s = Root \/ s = Body
           \/ \E x \in Strings \cup {"work_mutex", "command_mutex", "response", "boundary"} :
                s = Member(x)
           \/ s \in Locals
           \/ \E l \in Lists, i \in Nodes, f \in Fields : s = <<l, i, f>>
BY DEF Slots, Members, Fields

\* A slot of a node is the node of a list or lies in one.
LEMMA NodeSlots ==
    ASSUME NEW l \in Lists, NEW i \in Nodes
    PROVE  Node(l, i) \in Slots \ Locals /\ Node(l, i) = <<l, i, "node">>
BY SlotKinds DEF Node, Fields

\* What contains a slot is a slot, and contains none of the local variables.
LEMMA ContainerIsSlot ==
    ASSUME NEW s \in Slots
    PROVE  /\ Container(s) \in Slots
           /\ s \notin Locals => Container(s) \notin Locals
           /\ s \in Locals => Container(s) = s
<1> USE NodesAssumption
<1>1. CASE \/ s = Root \/ s = Body
           \/ \E x \in Strings \cup {"work_mutex", "command_mutex", "response", "boundary"} :
                s = Member(x)
  BY <1>1, Containers, SlotKinds
<1>2. CASE s \in Locals
  BY <1>2, Containers, SlotKinds DEF Locals
<1>3. CASE \E l \in Lists, i \in Nodes, f \in Fields : s = <<l, i, f>>
  <2>1. PICK l \in Lists, i \in Nodes, f \in Fields : s = <<l, i, f>>
    BY <1>3
  <2>2. i \in Nat /\ (i # 1 => i > 1 /\ i - 1 \in Nodes)
    BY DEF Nodes
  <2>3. CASE f # "node"
    BY <2>1, <2>2, <2>3, Containers, NodeSlots, SlotKinds
  <2>4. CASE f = "node"
    <3>1. s = Node(l, i)
      BY <2>1, <2>4 DEF Node
    <3>2. CASE i = 1
      BY <3>1, <3>2, Containers, SlotKinds, NodeSlots
    <3>3. CASE i # 1
      BY <2>2, <3>1, <3>3, Containers, NodeSlots
    <3>4. QED
      BY <3>2, <3>3
  <2>5. QED
    BY <2>3, <2>4
<1>4. QED
  BY <1>1, <1>2, <1>3, SlotCases

\* There are finitely many slots.
LEMMA SlotsFinite == IsFiniteSet(Slots) /\ Cardinality(Slots) \in Nat
<1>1. IsFiniteSet({Root, Body}) /\ IsFiniteSet(Lists) /\ IsFiniteSet(Fields)
  <2>1. /\ {Root, Body} = {Root} \cup {Body}
        /\ Lists = {"http_headers"} \cup {"parameters"}
        /\ Fields = (({"node"} \cup {"key"}) \cup {"value"}) \cup {"reserved"}
    BY DEF Lists, Fields
  <2>2. \A x : IsFiniteSet({x})
    BY FS_Singleton
  <2>3. \A S, T : IsFiniteSet(S) /\ IsFiniteSet(T) => IsFiniteSet(S \cup T)
    BY FS_Union
  <2>4. IsFiniteSet({Root} \cup {Body}) /\ IsFiniteSet({"http_headers"} \cup {"parameters"})
    BY <2>2, <2>3, Zenon
  <2>5. IsFiniteSet(({"node"} \cup {"key"}) \cup {"value"})
    BY <2>2, <2>3, Zenon
  <2>6. QED
    BY <2>1, <2>2, <2>3, <2>4, <2>5
<1>2. IsFiniteSet(Nodes)
  BY NodesAssumption, FS_Interval DEF Nodes
<1>3. IsFiniteSet(Lists \X Nodes \X Fields)
  <2> DEFINE P == (Lists \X Nodes) \X Fields
             f == [q \in P |-> <<q[1][1], q[1][2], q[2]>>]
  <2>1. IsFiniteSet(P)
    BY <1>1, <1>2, FS_Product
  <2>2. f \in Surjection(P, Lists \X Nodes \X Fields)
    <3>1. f \in [P -> Lists \X Nodes \X Fields]
      OBVIOUS
    <3>2. ASSUME NEW y \in Lists \X Nodes \X Fields
          PROVE  \E q \in P : f[q] = y
      <4>1. <<<<y[1], y[2]>>, y[3]>> \in P /\ f[<<<<y[1], y[2]>>, y[3]>>] = y
        OBVIOUS
      <4>2. QED
        BY <4>1
    <3>3. QED
      BY <3>1, <3>2 DEF Surjection
  <2>3. QED
    BY <2>1, <2>2, FS_Surjection
<1>4. IsFiniteSet(Members) /\ IsFiniteSet(Locals)
  <2> DEFINE N == {"scheme", "host", "path", "work_mutex", "command_mutex", "response", "boundary"}
             V == {"_data", "result", "headers", "parameters", "zgip_parameters",
                   "buff", "decompressed", "cur", "last"}
             g == [x \in N |-> Member(x)]
             h == [x \in V |-> Local(x)]
  <2>1. N = (((((({"scheme"} \cup {"host"}) \cup {"path"}) \cup {"work_mutex"}) \cup {"command_mutex"})
              \cup {"response"}) \cup {"boundary"})
    OBVIOUS
  <2>2. V = (((((((({"_data"} \cup {"result"}) \cup {"headers"}) \cup {"parameters"})
              \cup {"zgip_parameters"}) \cup {"buff"}) \cup {"decompressed"}) \cup {"cur"}) \cup {"last"})
    OBVIOUS
  <2>3. \A x : IsFiniteSet({x})
    BY FS_Singleton
  <2>4. \A S, T : IsFiniteSet(S) /\ IsFiniteSet(T) => IsFiniteSet(S \cup T)
    BY FS_Union
  <2> HIDE DEF N, V
  <2>5. IsFiniteSet(N) /\ IsFiniteSet(V)
    BY <2>1, <2>2, <2>3, <2>4, Zenon
  <2>6. g \in Surjection(N, Members)
    BY DEF Surjection, Members, N, Strings
  <2>7. h \in Surjection(V, Locals)
    BY DEF Surjection, Locals, V
  <2>8. QED
    BY <2>5, <2>6, <2>7, FS_Surjection
<1>5. Slots = (({Root, Body} \cup Members) \cup Locals) \cup (Lists \X Nodes \X Fields)
  BY DEF Slots, Fields
<1>6. IsFiniteSet(Slots)
  BY <1>1, <1>3, <1>4, <1>5, FS_Union
<1>7. QED
  BY <1>6, FS_CardinalityType

\* There is a name for a new block, unless the names are used up by lost blocks:
\* each of the others in use has a slot of its own that points to it.
LEMMA FreshBlock ==
    ASSUME NEW m \in Memories, NEW s \in Slots,
           \A b \in m.heap : b[1] = s => \E x \in Slots : m.ptr[x] = b
    PROVE  /\ Fresh(m, s) \in Blocks /\ Fresh(m, s)[1] = s
           /\ Fresh(m, s) \notin m.heap /\ \A x \in Slots : m.ptr[x] # Fresh(m, s)
<1> DEFINE c == Cardinality(Slots)
           N == 0 .. c
           Free(n) == <<s, n>> \notin m.heap /\ \A x \in Slots : m.ptr[x] # <<s, n>>
           f == [n \in N |-> CHOOSE x \in Slots : m.ptr[x] = <<s, n>>]
<1>1. c \in Nat /\ IsFiniteSet(Slots)
  BY SlotsFinite
<1>2. \E n \in N : Free(n)
  <2> SUFFICES ASSUME \A n \in N : ~Free(n)
               PROVE  FALSE
    OBVIOUS
  <2>1. ASSUME NEW n \in N
        PROVE  \E x \in Slots : m.ptr[x] = <<s, n>>
    BY <2>1
  <2>2. \A n \in N : f[n] \in Slots /\ m.ptr[f[n]] = <<s, n>>
    BY <2>1
  <2> HIDE DEF f
  <2>3. f \in [N -> Slots]
    BY <2>2 DEF f
  <2>4. \A i, j \in N : f[i] = f[j] => i = j
    BY <2>2
  <2>5. f \in Injection(N, Slots)
    BY <2>3, <2>4 DEF Injection, IsInjective
  <2>6. Cardinality(N) <= c
    BY <1>1, <2>5, FS_Injection
  <2>7. Cardinality(N) = c + 1
    <3>1. ~(0 > c) /\ (c - 0) + 1 = c + 1 /\ 0 \in Int /\ c \in Int
      BY <1>1
    <3>2. QED
      BY <3>1, FS_Interval
  <2>8. QED
    BY <1>1, <2>6, <2>7
<1>3. PICK n \in N : Fresh(m, s) = <<s, n>> /\ Free(n)
  BY <1>2 DEF Fresh
<1>4. QED
  BY <1>3 DEF Blocks

-----------------------------------------------------------------------------
(***************************************************************************)
(* What a sequence does to the memory.                                     *)
(***************************************************************************)

\* f holds the memories from m to q while body is done, none of it harmful.
Path(f, m, body, q) ==
    /\ f \in [0 .. Len(body) -> Memories]
    /\ f[0] = m /\ f[Len(body)] = q
    /\ \A k \in 1 .. Len(body) : Harmless(f[k - 1], body[k]) /\ f[k] = After(f[k - 1], body[k])

Leads(m, body, q) == \E f : Path(f, m, body, q)

\* t is the function that Outcomes defines, up to the element n.
Trail(t, m, body, n) ==
    t = [k \in 0 .. n |-> Memories \cap IF k = 0 THEN {m} ELSE Onward(t[k - 1], body[k])]

\* That function exists.
LEMMA TrailExists ==
    ASSUME NEW m, NEW body, NEW n \in Nat
    PROVE  \E t : Trail(t, m, body, n)
<1> DEFINE G == {j \in Nat : \E t : Trail(t, m, body, j)}
<1>1. 0 \in G
  <2>1. Trail([k \in 0 .. 0 |-> Memories \cap {m}], m, body, 0)
    BY DEF Trail
  <2>2. QED
    BY <2>1
<1>2. ASSUME NEW j \in G
      PROVE  j + 1 \in G
  <2>1. PICK t : Trail(t, m, body, j)
    OBVIOUS
  <2> DEFINE u == [k \in 0 .. j + 1 |-> IF k = j + 1 THEN Memories \cap Onward(t[j], body[j + 1])
                                        ELSE t[k]]
  <2>2. ASSUME NEW k \in 0 .. j + 1
        PROVE  u[k] = Memories \cap IF k = 0 THEN {m} ELSE Onward(u[k - 1], body[k])
    <3>1. CASE k = j + 1
      <4>1. k # 0 /\ k - 1 = j /\ j \in 0 .. j + 1 /\ j # j + 1
        BY <3>1
      <4>2. u[k - 1] = t[j] /\ u[k] = Memories \cap Onward(t[j], body[j + 1])
        BY <3>1, <4>1
      <4>3. QED
        BY <3>1, <4>1, <4>2
    <3>2. CASE k # j + 1
      <4>1. k \in 0 .. j /\ u[k] = t[k] /\ (k # 0 => u[k - 1] = t[k - 1])
        BY <3>2
      <4>2. t[k] = Memories \cap IF k = 0 THEN {m} ELSE Onward(t[k - 1], body[k])
        BY <2>1, <4>1 DEF Trail
      <4>3. QED
        BY <4>1, <4>2
    <3>3. QED
      BY <3>1, <3>2
  <2>3. Trail(u, m, body, j + 1)
    BY <2>2 DEF Trail
  <2>4. QED
    BY <2>3
<1>3. n \in G
  BY <1>1, <1>2, SetInduction
<1>4. QED
  BY <1>3

\* So the outcomes are where the paths lead.
LEMMA OutcomesArePaths ==
    ASSUME NEW m, NEW body \in Seq(Dos), NEW q
    PROVE  q \in Outcomes(m, body) <=> Leads(m, body, q)
<1> DEFINE n == Len(body)
<1>1. n \in Nat
  OBVIOUS
<1>2. Outcomes(m, body) = (CHOOSE t : Trail(t, m, body, n))[n]
  BY Zenon DEF Outcomes, Trail
<1>3. PICK t : Trail(t, m, body, n) /\ Outcomes(m, body) = t[n]
  BY <1>1, <1>2, TrailExists
<1> HIDE DEF n
<1>4. t[0] = Memories \cap {m}
  BY <1>1, <1>3 DEF Trail
<1>5. \A k \in 1 .. n : t[k] = Memories \cap Onward(t[k - 1], body[k])
  BY <1>1, <1>3 DEF Trail
<1>6. ASSUME NEW f, Path(f, m, body, q)
      PROVE  q \in t[n]
  <2> DEFINE G == {j \in Nat : j <= n => f[j] \in t[j]}
  <2>1. 0 \in G
    BY <1>1, <1>4, <1>6 DEF Path, n
  <2>2. ASSUME NEW j \in G
        PROVE  j + 1 \in G
    <3> SUFFICES ASSUME j + 1 <= n
                 PROVE  f[j + 1] \in t[j + 1]
      OBVIOUS
    <3>1. j + 1 \in 1 .. n /\ (j + 1) - 1 = j /\ j + 1 \in 0 .. n /\ j <= n
      BY <1>1
    <3>2. f[j] \in t[j] /\ Harmless(f[j], body[j + 1]) /\ f[j + 1] = After(f[j], body[j + 1])
          /\ f[j + 1] \in Memories
      BY <1>6, <3>1 DEF Path, n
    <3>3. QED
      BY <1>5, <3>1, <3>2 DEF Onward
  <2>3. n \in G
    BY <1>1, <2>1, <2>2, SetInduction
  <2>4. QED
    BY <1>1, <1>6, <2>3 DEF Path, n
<1>7. ASSUME q \in t[n]
      PROVE  Leads(m, body, q)
  <2> DEFINE To(j, x) == \E f \in [0 .. j -> Memories] :
                           /\ f[0] = m /\ f[j] = x
                           /\ \A k \in 1 .. j : /\ Harmless(f[k - 1], body[k])
                                                /\ f[k] = After(f[k - 1], body[k])
             G == {j \in Nat : j <= n => \A x \in t[j] : To(j, x)}
  <2>1. 0 \in G
    <3> SUFFICES ASSUME NEW x \in t[0]
                 PROVE  To(0, x)
      OBVIOUS
    <3>1. x = m /\ x \in Memories
      BY <1>4
    <3> DEFINE h == [k \in 0 .. 0 |-> x]
    <3>2. h \in [0 .. 0 -> Memories] /\ h[0] = x
      BY <3>1
    <3>3. 1 .. 0 = {}
      OBVIOUS
    <3> HIDE DEF h
    <3>4. QED
      BY <3>1, <3>2, <3>3
  <2> HIDE DEF To
  <2>2. ASSUME NEW j \in G
        PROVE  j + 1 \in G
    <3> SUFFICES ASSUME j + 1 <= n, NEW x \in t[j + 1]
                 PROVE  To(j + 1, x)
      OBVIOUS
    <3>1. j + 1 \in 1 .. n /\ (j + 1) - 1 = j /\ j + 1 \in 0 .. n /\ j <= n
      BY <1>1
    <3>2. t[j + 1] = Memories \cap Onward(t[j], body[j + 1])
      BY <1>5, <3>1
    <3>3. PICK y \in t[j] : Harmless(y, body[j + 1]) /\ x = After(y, body[j + 1]) /\ x \in Memories
      BY <3>2 DEF Onward
    <3>4. PICK f \in [0 .. j -> Memories] :
            /\ f[0] = m /\ f[j] = y
            /\ \A k \in 1 .. j : Harmless(f[k - 1], body[k]) /\ f[k] = After(f[k - 1], body[k])
      BY <3>1, <3>3 DEF To
    <3> DEFINE g == [k \in 0 .. j + 1 |-> IF k = j + 1 THEN x ELSE f[k]]
    <3>5. g \in [0 .. j + 1 -> Memories] /\ g[0] = m /\ g[j + 1] = x
      BY <3>3, <3>4
    <3>6. ASSUME NEW k \in 1 .. j + 1
          PROVE  Harmless(g[k - 1], body[k]) /\ g[k] = After(g[k - 1], body[k])
      <4>1. k - 1 \in 0 .. j /\ g[k - 1] = f[k - 1]
        OBVIOUS
      <4>2. CASE k = j + 1
        BY <3>3, <3>4, <4>1, <4>2
      <4>3. CASE k # j + 1
        <5>1. k \in 1 .. j /\ g[k] = f[k]
          BY <4>3
        <5>2. QED
          BY <3>4, <4>1, <5>1
      <4>4. QED
        BY <4>2, <4>3
    <3> HIDE DEF g
    <3>7. QED
      BY <3>5, <3>6 DEF To
  <2>3. n \in G
    BY <1>1, <2>1, <2>2, SetInduction
  <2>4. QED
    BY <1>1, <1>7, <2>3 DEF Leads, Path, n, To
<1>8. QED
  BY <1>3, <1>6, <1>7 DEF Leads

\* The first element, and the rest.
LEMMA LeadsFirst ==
    ASSUME NEW m, NEW body \in Seq(Dos), NEW q, body # <<>>, Leads(m, body, q)
    PROVE  /\ Harmless(m, Head(body))
           /\ m \in Memories /\ After(m, Head(body)) \in Memories
           /\ Tail(body) \in Seq(Dos)
           /\ Leads(After(m, Head(body)), Tail(body), q)
<1> DEFINE n == Len(body)
<1>1. PICK f : Path(f, m, body, q)
  BY DEF Leads
<1>2. n \in Nat /\ n >= 1 /\ Head(body) = body[1] /\ Tail(body) \in Seq(Dos) /\ Len(Tail(body)) = n - 1
      /\ \A k \in 1 .. n - 1 : Tail(body)[k] = body[k + 1]
  OBVIOUS
<1> DEFINE g == [k \in 0 .. n - 1 |-> f[k + 1]]
<1>3. f \in [0 .. n -> Memories] /\ f[0] = m /\ f[n] = q
      /\ \A k \in 1 .. n : Harmless(f[k - 1], body[k]) /\ f[k] = After(f[k - 1], body[k])
  BY <1>1 DEF Path
<1> HIDE DEF n
<1>4. Harmless(m, body[1]) /\ f[1] = After(m, body[1]) /\ f[1] \in Memories /\ m \in Memories
  <2>1. 1 \in 1 .. n /\ 1 - 1 = 0 /\ 1 \in 0 .. n /\ 0 \in 0 .. n
    BY <1>2
  <2>2. QED
    BY <1>3, <2>1
<1>5. g \in [0 .. n - 1 -> Memories] /\ g[0] = f[1] /\ g[n - 1] = q
  BY <1>2, <1>3
<1>6. ASSUME NEW k \in 1 .. n - 1
      PROVE  Harmless(g[k - 1], Tail(body)[k]) /\ g[k] = After(g[k - 1], Tail(body)[k])
  <2>1. k + 1 \in 1 .. n /\ (k + 1) - 1 = k /\ g[k - 1] = f[k] /\ g[k] = f[k + 1]
    BY <1>2
  <2>2. QED
    BY <1>2, <1>3, <2>1
<1>7. Path(g, f[1], Tail(body), q)
  BY <1>2, <1>5, <1>6 DEF Path
<1>8. QED
  BY <1>2, <1>4, <1>7 DEF Leads

\* One sequence after another.
LEMMA LeadsOn ==
    ASSUME NEW a \in Seq(Dos), NEW b \in Seq(Dos), NEW m, NEW x, NEW q,
           Leads(m, a, x), Leads(x, b, q)
    PROVE  Leads(m, a \o b, q)
<1> DEFINE i == Len(a)
           j == Len(b)
<1>1. i \in Nat /\ j \in Nat /\ Len(a \o b) = i + j
      /\ (\A k \in 1 .. i : (a \o b)[k] = a[k]) /\ (\A k \in 1 .. j : (a \o b)[i + k] = b[k])
  OBVIOUS
<1>2. PICK f : Path(f, m, a, x)
  BY DEF Leads
<1>3. PICK g : Path(g, x, b, q)
  BY DEF Leads
<1>4. f \in [0 .. i -> Memories] /\ f[0] = m /\ f[i] = x
      /\ \A k \in 1 .. i : Harmless(f[k - 1], a[k]) /\ f[k] = After(f[k - 1], a[k])
  BY <1>2 DEF Path
<1>5. g \in [0 .. j -> Memories] /\ g[0] = x /\ g[j] = q
      /\ \A k \in 1 .. j : Harmless(g[k - 1], b[k]) /\ g[k] = After(g[k - 1], b[k])
  BY <1>3 DEF Path
<1> HIDE DEF i, j
<1> DEFINE h == [k \in 0 .. i + j |-> IF k <= i THEN f[k] ELSE g[k - i]]
<1>6. h \in [0 .. i + j -> Memories] /\ h[0] = m /\ h[i + j] = q
  BY <1>1, <1>4, <1>5
<1>7. ASSUME NEW k \in 1 .. i + j
      PROVE  Harmless(h[k - 1], (a \o b)[k]) /\ h[k] = After(h[k - 1], (a \o b)[k])
  <2>1. CASE k <= i
    <3>1. k \in 1 .. i /\ h[k] = f[k] /\ h[k - 1] = f[k - 1]
      BY <1>1, <2>1
    <3>2. QED
      BY <1>1, <1>4, <3>1
  <2>2. CASE ~(k <= i)
    <3>1. k - i \in 1 .. j /\ i + (k - i) = k /\ h[k] = g[k - i]
      BY <1>1, <2>2
    <3>2. h[k - 1] = g[(k - i) - 1]
      <4>1. CASE k - 1 = i
        BY <1>1, <1>4, <1>5, <2>2, <4>1
      <4>2. CASE k - 1 # i
        BY <1>1, <2>2, <4>2
      <4>3. QED
        BY <4>1, <4>2
    <3>3. (a \o b)[k] = b[k - i]
      BY <1>1, <3>1
    <3>4. QED
      BY <1>5, <3>1, <3>2, <3>3
  <2>3. QED
    BY <2>1, <2>2
<1>8. Path(h, m, a \o b, q)
  BY <1>1, <1>6, <1>7 DEF Path
<1>9. QED
  BY <1>8 DEF Leads

-----------------------------------------------------------------------------
(***************************************************************************)
(* Assertions on memories, and the rules of the sequences.                 *)
(***************************************************************************)

\* From a memory in P, body is harmless and leads to one in Q.
Holds(P, body, Q) == body \in Seq(Dos) /\ \A m \in P : \E q \in Q : Leads(m, body, q)

\* Nothing to do.
LEMMA HoldsNone ==
    ASSUME NEW P \in SUBSET Memories
    PROVE  Holds(P, <<>>, P)
<1>1. <<>> \in Seq(Dos) /\ Len(<<>>) = 0
  OBVIOUS
<1>2. ASSUME NEW m \in P
      PROVE  Leads(m, <<>>, m)
  <2> DEFINE f == [k \in 0 .. 0 |-> m]
  <2>1. f \in [0 .. 0 -> Memories] /\ f[0] = m
    OBVIOUS
  <2>2. 1 .. 0 = {}
    OBVIOUS
  <2> HIDE DEF f
  <2>3. Path(f, m, <<>>, m)
    BY <1>1, <2>1, <2>2 DEF Path
  <2>4. QED
    BY <2>3 DEF Leads
<1>3. QED
  BY <1>1, <1>2 DEF Holds

\* One element.
LEMMA HoldsOne ==
    ASSUME NEW P \in SUBSET Memories, NEW Q \in SUBSET Memories, NEW do \in Dos,
           \A m \in P : Harmless(m, do) /\ After(m, do) \in Q
    PROVE  Holds(P, <<do>>, Q)
<1>1. <<do>> \in Seq(Dos) /\ Len(<<do>>) = 1 /\ <<do>>[1] = do
  OBVIOUS
<1>2. ASSUME NEW m \in P
      PROVE  Leads(m, <<do>>, After(m, do))
  <2> DEFINE q == After(m, do)
             f == [k \in 0 .. 1 |-> IF k = 0 THEN m ELSE q]
  <2>1. q \in Memories /\ m \in Memories /\ Harmless(m, do)
    OBVIOUS
  <2> HIDE DEF q
  <2>2. f \in [0 .. 1 -> Memories] /\ f[0] = m /\ f[1] = q
    BY <2>1
  <2> HIDE DEF f
  <2>3. \A k \in 1 .. 1 : Harmless(f[k - 1], <<do>>[k]) /\ f[k] = After(f[k - 1], <<do>>[k])
    <3>1. \A k \in 1 .. 1 : k = 1
      OBVIOUS
    <3>2. Harmless(f[1 - 1], <<do>>[1]) /\ f[1] = After(f[1 - 1], <<do>>[1])
      BY <1>1, <2>1, <2>2 DEF q
    <3>3. QED
      BY <3>1, <3>2
  <2>4. Path(f, m, <<do>>, q)
    BY <1>1, <2>2, <2>3 DEF Path
  <2>5. QED
    BY <2>4 DEF Leads, q
<1>3. QED
  BY <1>1, <1>2 DEF Holds

\* One sequence after another.
LEMMA HoldsThen ==
    ASSUME NEW P, NEW Q, NEW R, NEW a, NEW b, Holds(P, a, Q), Holds(Q, b, R)
    PROVE  Holds(P, a \o b, R)
<1>1. a \in Seq(Dos) /\ b \in Seq(Dos) /\ a \o b \in Seq(Dos)
  BY DEF Holds
<1>2. ASSUME NEW m \in P
      PROVE  \E q \in R : Leads(m, a \o b, q)
  <2>1. PICK x \in Q : Leads(m, a, x)
    BY DEF Holds
  <2>2. PICK q \in R : Leads(x, b, q)
    BY DEF Holds
  <2>3. QED
    BY <1>1, <2>1, <2>2, LeadsOn
<1>3. QED
  BY <1>1, <1>2 DEF Holds

\* Less may be assumed and more be shown.
LEMMA HoldsWeaker ==
    ASSUME NEW P, NEW Q, NEW a, Holds(P, a, Q),
           NEW P1 \in SUBSET P, NEW Q1, Q \subseteq Q1
    PROVE  Holds(P1, a, Q1)
BY DEF Holds

\* The assertion the functions are described with.  O are the slots that own a
\* block, each its own; every block has an owner or is the lost address list; the
\* slots that are neither in O nor in D are Null.
Tame(tm, O, D) ==
    {m \in Memories :
       /\ \A s \in O : m.ptr[s] \in m.heap
       /\ \A s, u \in O : m.ptr[s] = m.ptr[u] => s = u
       /\ \A b \in m.heap : Leaked(tm, b) \/ \E s \in O : m.ptr[s] = b
       /\ \A s \in Slots \ (O \cup D) : m.ptr[s] = Null}

\* s lies in a block that is owned.
Lies(O, s) == Outermost(s) \/ Container(s) \in O

\* An assertion is a set of memories.
LEMMA TameIsMemory ==
    ASSUME NEW tm, NEW O, NEW D
    PROVE  Tame(tm, O, D) \in SUBSET Memories
BY DEF Tame

\* What lies in a block that is owned can be read and written.
LEMMA TameWithin ==
    ASSUME NEW tm, NEW O, NEW D, NEW m \in Tame(tm, O, D), NEW s, Lies(O, s)
    PROVE  Within(m, s)
BY DEF Tame, Lies, Within

\* More slots may be called dirty.
LEMMA TameWeaker ==
    ASSUME NEW tm, NEW O, NEW D, NEW D1, D \subseteq D1
    PROVE  Tame(tm, O, D) \subseteq Tame(tm, O, D1)
BY DEF Tame

\* An element of a sequence and its parts.
LEMMA DoIsDo ==
    ASSUME NEW op \in Ops, NEW s \in Slots, NEW from \in Slots
    PROVE  /\ Do(op, s, from) \in Dos
           /\ Do(op, s, from).op = op /\ Do(op, s, from).slot = s /\ Do(op, s, from).from = from
BY DEF Do, Dos

\* The block of s was allocated for s.
Named(tm, O, D, s) == {q \in Tame(tm, O, D) : q.ptr[s][1] = s}

\* Memory for s, whose children are Null then.  The block has the name of s.
LEMMA MallocNamed ==
    ASSUME NEW tm, NEW O \in SUBSET Slots, NEW D, NEW s \in Slots \ O, Lies(O, s),
           \A x \in O : Container(x) # s,
           tm => s # Local("result")
    PROVE  Holds(Tame(tm, O, D), nhr_malloc_zero(s), Named(tm, O \cup {s}, D \ {s}, s))
<1> DEFINE do == Do("malloc", s, s)
           Q == Named(tm, O \cup {s}, D \ {s}, s)
<1>1. do \in Dos /\ do.op = "malloc" /\ do.slot = s /\ do.from = s
  BY DoIsDo DEF Ops
<1> SUFFICES ASSUME NEW m \in Tame(tm, O, D)
             PROVE  Harmless(m, do) /\ After(m, do) \in Q
  <2>1. Tame(tm, O, D) \in SUBSET Memories /\ Q \in SUBSET Memories
    BY TameIsMemory DEF Named
  <2> HIDE DEF Q, do
  <2>2. QED
    BY <1>1, <2>1, HoldsOne DEF nhr_malloc_zero, do, Q
<1> HIDE DEF do
<1>2. Harmless(m, do)
  BY <1>1, TameWithin DEF Harmless
<1> DEFINE b == Fresh(m, s)
           p == [x \in Slots |-> IF x = s THEN b ELSE IF Container(x) = s THEN Null ELSE m.ptr[x]]
<1>3. After(m, do) = [heap |-> m.heap \cup {b}, ptr |-> p]
  BY <1>1 DEF After, malloc
<1>4. m \in Memories /\ m.ptr \in [Slots -> Blocks \cup {Null}] /\ m.heap \in SUBSET Blocks
  BY DEF Tame, Memories
<1>5. b \in Blocks /\ b[1] = s /\ b \notin m.heap /\ \A x \in Slots : m.ptr[x] # b
  <2>1. \A c \in m.heap : c[1] = s => \E x \in Slots : m.ptr[x] = c
    BY DEF Tame, Leaked
  <2>2. QED
    BY <1>4, <2>1, FreshBlock
<1> HIDE DEF b
<1>6. [heap |-> m.heap \cup {b}, ptr |-> p] \in Memories
  BY <1>4, <1>5 DEF Memories
<1>7. p[s] = b /\ \A x \in O : p[x] = m.ptr[x]
  OBVIOUS
<1>8. \A x \in Slots \ ((O \cup {s}) \cup (D \ {s})) : p[x] = Null
  BY DEF Tame
<1> HIDE DEF p
<1>9. After(m, do) \in Tame(tm, O \cup {s}, D \ {s})
  BY <1>3, <1>5, <1>6, <1>7, <1>8 DEF Tame
<1>10. QED
  BY <1>2, <1>3, <1>5, <1>7, <1>9 DEF Named

\* The same, where the name does not matter.
LEMMA MallocRule ==
    ASSUME NEW tm, NEW O \in SUBSET Slots, NEW D, NEW s \in Slots \ O, Lies(O, s),
           \A x \in O : Container(x) # s,
           tm => s # Local("result")
    PROVE  Holds(Tame(tm, O, D), nhr_malloc_zero(s), Tame(tm, O \cup {s}, D \ {s}))
<1> DEFINE Q == Named(tm, O \cup {s}, D \ {s}, s)
<1>1. Holds(Tame(tm, O, D), nhr_malloc_zero(s), Q)
  BY MallocNamed
<1>2. Q \subseteq Tame(tm, O \cup {s}, D \ {s})
  BY DEF Named
<1> HIDE DEF Q
<1>3. QED
  BY <1>1, <1>2, HoldsWeaker

\* What s points to is freed; s is dirty.
LEMMA FreeStep ==
    ASSUME NEW tm, NEW O \in SUBSET Slots, NEW D, NEW s \in Slots \ D, Lies(O, s),
           NEW m \in Tame(tm, O, D)
    PROVE  /\ Harmless(m, Do("free", s, s))
           /\ After(m, Do("free", s, s)) \in Tame(tm, O \ {s}, D \cup {s})
           /\ After(m, Do("free", s, s)).ptr = m.ptr
<1> DEFINE do == Do("free", s, s)
<1>1. do \in Dos /\ do.op = "free" /\ do.slot = s /\ do.from = s
  BY DoIsDo DEF Ops
<1> HIDE DEF do
<1>2. m \in Memories /\ m.ptr \in [Slots -> Blocks \cup {Null}] /\ m.heap \in SUBSET Blocks
      /\ m = [ptr |-> m.ptr, heap |-> m.heap]
  BY DEF Tame, Memories
<1>3. s \in O \/ m.ptr[s] = Null
  BY DEF Tame
<1>4. Harmless(m, do)
  BY <1>1, <1>3, TameWithin DEF Harmless, Tame
<1>5. After(m, do) = [ptr |-> m.ptr, heap |-> m.heap \ {m.ptr[s]}]
  BY <1>1, <1>2 DEF After, free
<1>6. [ptr |-> m.ptr, heap |-> m.heap \ {m.ptr[s]}] \in Memories
  BY <1>2 DEF Memories
<1>7. ASSUME NEW x \in O \ {s}
      PROVE  m.ptr[x] \in m.heap \ {m.ptr[s]}
  <2>1. m.ptr[x] \in m.heap /\ m.ptr[x] # Null
    BY <1>2, NullAssumption DEF Tame
  <2>2. QED
    BY <1>3, <2>1 DEF Tame
<1>8. ASSUME NEW b \in m.heap \ {m.ptr[s]}
      PROVE  Leaked(tm, b) \/ \E x \in O \ {s} : m.ptr[x] = b
  BY DEF Tame
<1>9. After(m, do) \in Tame(tm, O \ {s}, D \cup {s})
  BY <1>5, <1>6, <1>7, <1>8 DEF Tame
<1>10. QED
  BY <1>4, <1>5, <1>9 DEF do

\* The same as a rule of the sequences.
LEMMA FreeRule ==
    ASSUME NEW tm, NEW O \in SUBSET Slots, NEW D, NEW s \in Slots \ D, Lies(O, s)
    PROVE  Holds(Tame(tm, O, D), nhr_free(s), Tame(tm, O \ {s}, D \cup {s}))
<1>1. Do("free", s, s) \in Dos
  BY DoIsDo DEF Ops
<1>2. QED
  BY <1>1, FreeStep, HoldsOne, TameIsMemory DEF nhr_free

\* A slot that owns nothing becomes Null.
LEMMA ClearRule ==
    ASSUME NEW tm, NEW O \in SUBSET Slots, NEW D, NEW s \in Slots \ O, Lies(O, s)
    PROVE  Holds(Tame(tm, O, D), Clear(s), Tame(tm, O, D \ {s}))
<1> DEFINE do == Do("clear", s, s)
<1>1. do \in Dos /\ do.op = "clear" /\ do.slot = s /\ do.from = s
  BY DoIsDo DEF Ops
<1> SUFFICES ASSUME NEW m \in Tame(tm, O, D)
             PROVE  Harmless(m, do) /\ After(m, do) \in Tame(tm, O, D \ {s})
  BY <1>1, HoldsOne, TameIsMemory DEF Clear
<1> HIDE DEF do
<1>2. m \in Memories /\ m.ptr \in [Slots -> Blocks \cup {Null}] /\ m.heap \in SUBSET Blocks
      /\ m = [ptr |-> m.ptr, heap |-> m.heap]
  BY DEF Tame, Memories
<1>3. Harmless(m, do)
  BY <1>1, TameWithin DEF Harmless
<1> DEFINE p == [m.ptr EXCEPT ![s] = Null]
<1>4. After(m, do) = [ptr |-> p, heap |-> m.heap]
  BY <1>1, <1>2 DEF After, assign
<1>5. p \in [Slots -> Blocks \cup {Null}] /\ \A x \in Slots : p[x] = IF x = s THEN Null ELSE m.ptr[x]
  BY <1>2
<1> HIDE DEF p
<1>6. [ptr |-> p, heap |-> m.heap] \in Memories
  BY <1>2, <1>5 DEF Memories
<1>7. QED
  BY <1>3, <1>4, <1>5, <1>6 DEF Tame

\* The block of from goes to s.
LEMMA MoveRule ==
    ASSUME NEW tm, NEW O \in SUBSET Slots, NEW D, NEW s \in Slots \ O, NEW from \in O,
           Lies(O, s), Lies(O, from)
    PROVE  Holds(Tame(tm, O, D), Copy(s, from),
                 Tame(tm, (O \ {from}) \cup {s}, (D \ {s}) \cup {from}))
<1> DEFINE do == Do("copy", s, from)
<1>1. do \in Dos /\ do.op = "copy" /\ do.slot = s /\ do.from = from
  BY DoIsDo DEF Ops
<1> SUFFICES ASSUME NEW m \in Tame(tm, O, D)
             PROVE  /\ Harmless(m, do)
                    /\ After(m, do) \in Tame(tm, (O \ {from}) \cup {s}, (D \ {s}) \cup {from})
  BY <1>1, HoldsOne, TameIsMemory DEF Copy
<1> HIDE DEF do
<1>2. m \in Memories /\ m.ptr \in [Slots -> Blocks \cup {Null}] /\ m.heap \in SUBSET Blocks
      /\ m = [ptr |-> m.ptr, heap |-> m.heap]
  BY DEF Tame, Memories
<1>3. Harmless(m, do)
  BY <1>1, TameWithin DEF Harmless
<1> DEFINE p == [m.ptr EXCEPT ![s] = m.ptr[from]]
<1>4. After(m, do) = [ptr |-> p, heap |-> m.heap]
  BY <1>1, <1>2 DEF After, assign
<1>5. /\ p \in [Slots -> Blocks \cup {Null}]
      /\ \A x \in Slots : p[x] = IF x = s THEN m.ptr[from] ELSE m.ptr[x]
  BY <1>2
<1> HIDE DEF p
<1>6. [ptr |-> p, heap |-> m.heap] \in Memories
  BY <1>2, <1>5 DEF Memories
<1>7. QED
  BY <1>3, <1>4, <1>5, <1>6 DEF Tame

\* The block of s, if there is one, is replaced.
LEMMA ReallocRule ==
    ASSUME NEW tm, NEW O \in SUBSET Slots, NEW D, NEW s \in Slots \ D, Lies(O, s),
           tm => s # Local("result")
    PROVE  Holds(Tame(tm, O, D), nhr_realloc(s), Tame(tm, O \cup {s}, D))
<1> DEFINE do == Do("realloc", s, s)
<1>1. do \in Dos /\ do.op = "realloc" /\ do.slot = s /\ do.from = s
  BY DoIsDo DEF Ops
<1> SUFFICES ASSUME NEW m \in Tame(tm, O, D)
             PROVE  Harmless(m, do) /\ After(m, do) \in Tame(tm, O \cup {s}, D)
  BY <1>1, HoldsOne, TameIsMemory DEF nhr_realloc
<1> HIDE DEF do
<1>2. m \in Memories /\ m.ptr \in [Slots -> Blocks \cup {Null}] /\ m.heap \in SUBSET Blocks
  BY DEF Tame, Memories
<1>3. s \in O \/ m.ptr[s] = Null
  BY DEF Tame
<1>4. Harmless(m, do)
  BY <1>1, <1>3, TameWithin DEF Harmless, Tame
<1> DEFINE b == Fresh(m, s)
           p == [m.ptr EXCEPT ![s] = b]
           h == (m.heap \ {m.ptr[s]}) \cup {b}
<1>5. After(m, do) = [heap |-> h, ptr |-> p]
  BY <1>1 DEF After, realloc
<1>6. b \in Blocks /\ b \notin m.heap /\ \A x \in Slots : m.ptr[x] # b
  <2>1. \A c \in m.heap : c[1] = s => \E x \in Slots : m.ptr[x] = c
    BY DEF Tame, Leaked
  <2>2. QED
    BY <1>2, <2>1, FreshBlock
<1> HIDE DEF b
<1>7. p \in [Slots -> Blocks \cup {Null}] /\ \A x \in Slots : p[x] = IF x = s THEN b ELSE m.ptr[x]
  BY <1>2, <1>6
<1> HIDE DEF p
<1>8. [heap |-> h, ptr |-> p] \in Memories
  BY <1>2, <1>6, <1>7 DEF Memories
<1>9. \A x \in O \cup {s} : p[x] \in h
  <2>1. ASSUME NEW x \in O, x # s
        PROVE  m.ptr[x] \in m.heap /\ m.ptr[x] # m.ptr[s]
    <3>1. m.ptr[x] \in m.heap /\ m.ptr[x] # Null
      BY <1>2, NullAssumption DEF Tame
    <3>2. QED
      BY <1>3, <2>1, <3>1 DEF Tame
  <2>2. QED
    BY <1>7, <2>1
<1>10. \A x, y \in O \cup {s} : p[x] = p[y] => x = y
  <2>1. \A x, y \in O : m.ptr[x] = m.ptr[y] => x = y
    BY DEF Tame
  <2>2. QED
    BY <1>6, <1>7, <2>1
<1>11. \A c \in h : Leaked(tm, c) \/ \E x \in O \cup {s} : p[x] = c
  <2>1. \A c \in m.heap : Leaked(tm, c) \/ \E x \in O : m.ptr[x] = c
    BY DEF Tame
  <2>2. QED
    BY <1>7, <2>1
<1>12. \A x \in Slots \ ((O \cup {s}) \cup D) : p[x] = Null
  BY <1>7 DEF Tame
<1> HIDE DEF h
<1>13. QED
  BY <1>4, <1>5, <1>8, <1>9, <1>10, <1>11, <1>12 DEF Tame

\* A slot that is not dirty is read.
LEMMA ReadRule ==
    ASSUME NEW tm, NEW O \in SUBSET Slots, NEW D, NEW s \in Slots \ D, Lies(O, s)
    PROVE  Holds(Tame(tm, O, D), Read(s), Tame(tm, O, D))
<1> DEFINE do == Do("read", s, s)
<1>1. do \in Dos /\ do.op = "read" /\ do.slot = s /\ do.from = s
  BY DoIsDo DEF Ops
<1> SUFFICES ASSUME NEW m \in Tame(tm, O, D)
             PROVE  Harmless(m, do) /\ After(m, do) \in Tame(tm, O, D)
  BY <1>1, HoldsOne, TameIsMemory DEF Read
<1> HIDE DEF do
<1>2. m.ptr[s] \in m.heap \cup {Null}
  BY DEF Tame
<1>3. After(m, do) = m
  BY <1>1 DEF After
<1>4. QED
  BY <1>1, <1>2, <1>3, TameWithin DEF Harmless

-----------------------------------------------------------------------------
(***************************************************************************)
(* Sets of owners: every owner lies in a block that is owned.              *)
(***************************************************************************)

Closed(O) == \A s \in O : Lies(O, s)

\* The list l has n nodes.
Counts(O, l, n) == \A i \in Nodes : Node(l, i) \in O <=> i <= n

\* What the owners are between two calls at the stage st.
Shape(st, O) ==
    /\ O \in SUBSET (Slots \ Locals)
    /\ Closed(O)
    /\ Root \in O <=> st # "absent"
    /\ \A l \in Lists : \E n \in 0 .. MostNodes(st, l) : Counts(O, l, n)

\* A slot that owns nothing has no owner in its block.
LEMMA NoChild ==
    ASSUME NEW O \in SUBSET Slots, Closed(O), NEW s, s \notin O
    PROVE  \A x \in O : Container(x) # s
BY DEF Closed, Lies, Outermost

\* An owner that lies in an owned block can be added ...
LEMMA ClosedMore ==
    ASSUME NEW O \in SUBSET Slots, Closed(O), NEW s, Lies(O, s)
    PROVE  Closed(O \cup {s})
BY DEF Closed, Lies

\* ... and one that no other lies in the block of can be taken away.
LEMMA ClosedLess ==
    ASSUME NEW O \in SUBSET Slots, Closed(O), NEW s, \A x \in O : Container(x) = s => x = s
    PROVE  Closed(O \ {s})
BY DEF Closed, Lies, Outermost

\* Allocation keeps the set closed.
LEMMA MallocClosed ==
    ASSUME NEW tm, NEW O \in SUBSET Slots, NEW D, NEW s \in Slots \ O, Closed(O), Lies(O, s),
           tm => s # Local("result")
    PROVE  /\ Holds(Tame(tm, O, D), nhr_malloc_zero(s), Tame(tm, O \cup {s}, D \ {s}))
           /\ O \cup {s} \in SUBSET Slots /\ Closed(O \cup {s})
<1>1. \A x \in O : Container(x) # s
  BY NoChild
<1>2. QED
  BY <1>1, MallocRule, ClosedMore

\* Where the slots lie.
LEMMA WhereLies ==
    ASSUME NEW O
    PROVE  /\ \A x : Lies(O, Local(x))
           /\ Lies(O, Root)
           /\ Root \in O => \A x : Lies(O, Member(x))
           /\ Member("response") \in O => Lies(O, Body)
BY Containers DEF Lies, Outermost

\* Slots of blocks that contain no slots.
Plain == {Member(x) : x \in Strings \cup {"work_mutex", "command_mutex", "boundary"}}
           \cup Locals \cup {Body}

\* No other slot lies in the block of such a slot.
LEMMA PlainSlots ==
    ASSUME NEW s \in Plain
    PROVE  /\ s \in Slots
           /\ \A x \in Slots : Container(x) = s => x = s
<1> USE NodesAssumption
<1>1. s \in Slots
  BY SlotKinds DEF Plain
<1>2. s # Root /\ s # Member("response") /\ \A l \in Lists, i \in Nodes : s # Node(l, i)
  BY SlotsDiffer, NodeSlots DEF Plain, Strings, Locals, Fields
<1>3. ASSUME NEW x \in Slots, Container(x) = s
      PROVE  x = s
  <2>1. CASE x = Root \/ x = Body \/ \E y : x = Member(y)
    BY <1>2, <1>3, <2>1, Containers
  <2>2. CASE x \in Locals
    BY <1>3, <2>2, ContainerIsSlot
  <2>3. CASE \E l \in Lists, i \in Nodes, f \in Fields : x = <<l, i, f>>
    <3>1. PICK l \in Lists, i \in Nodes, f \in Fields : x = <<l, i, f>>
      BY <2>3
    <3>2. i \in Nat /\ (i # 1 => i > 1 /\ i - 1 \in Nodes)
      BY DEF Nodes
    <3>3. CASE f # "node"
      BY <1>2, <1>3, <3>1, <3>2, <3>3, Containers
    <3>4. CASE f = "node"
      <4>1. x = Node(l, i)
        BY <3>1, <3>4 DEF Node
      <4>2. CASE i = 1
        BY <1>2, <1>3, <4>1, <4>2, Containers
      <4>3. CASE i # 1
        BY <1>2, <1>3, <3>2, <4>1, <4>3, Containers
      <4>4. QED
        BY <4>2, <4>3
    <3>5. QED
      BY <3>3, <3>4
  <2>4. QED
    BY <2>1, <2>2, <2>3, SlotCases
<1>4. QED
  BY <1>1, <1>3

\* Whether such a slot owns a block makes no difference to the shape.
LEMMA PlainShape ==
    ASSUME NEW st, NEW O, Shape(st, O), NEW s \in Plain \ Locals, Lies(O, s)
    PROVE  Shape(st, O \cup {s}) /\ Shape(st, O \ {s})
<1>1. O \in SUBSET Slots /\ s \in Slots /\ s \notin Locals
  BY PlainSlots DEF Shape
<1>2. Closed(O \cup {s})
  BY <1>1, ClosedMore DEF Shape
<1>3. Closed(O \ {s})
  BY <1>1, ClosedLess, PlainSlots DEF Shape
<1>4. s # Root /\ \A l \in Lists, i \in Nodes : s # Node(l, i)
  BY SlotsDiffer, NodeSlots DEF Plain, Strings, Locals, Fields
<1>5. \A l \in Lists : \A n : Counts(O, l, n) => Counts(O \cup {s}, l, n) /\ Counts(O \ {s}, l, n)
  BY <1>4 DEF Counts
<1>6. QED
  BY <1>1, <1>2, <1>3, <1>4, <1>5 DEF Shape

\* Later stages allow no less, as long as the request exists.
LEMMA LaterShape ==
    ASSUME NEW st, NEW O, Shape(st, O), NEW st2, st # "absent", st2 # "absent",
           st \in {"receive", "inform", "end"} => st2 \in {"receive", "inform", "end"}
    PROVE  Shape(st2, O)
<1>1. \A l \in Lists : 0 .. MostNodes(st, l) \subseteq 0 .. MostNodes(st2, l)
  BY NodesAssumption DEF MostNodes
<1>2. QED
  BY <1>1 DEF Shape

\* A function begins with Null in its local variables.
LEMMA Entry ==
    ASSUME NEW st, NEW tm, NEW m \in Memories, Settled(st, tm, m)
    PROVE  /\ Shape(st, Held(m))
           /\ [ptr |-> [s \in Slots |-> IF s \in Locals THEN Null ELSE m.ptr[s]], heap |-> m.heap]
                \in Tame(tm, Held(m), {})
<1> DEFINE O == Held(m)
           p == [s \in Slots |-> IF s \in Locals THEN Null ELSE m.ptr[s]]
<1>1. m.ptr \in [Slots -> Blocks \cup {Null}] /\ m.heap \in SUBSET Blocks
  BY DEF Memories
<1>2. O \in SUBSET (Slots \ Locals) /\ \A s \in Slots \ Locals : s \in O <=> m.ptr[s] # Null
  BY DEF Held
<1>3. Closed(O)
  <2> SUFFICES ASSUME NEW s \in O
               PROVE  Lies(O, s)
    BY DEF Closed
  <2>1. Within(m, s)
    BY DEF Settled
  <2>2. CASE Outermost(s)
    BY <2>2 DEF Lies
  <2>3. CASE ~Outermost(s)
    <3>1. m.ptr[Container(s)] \in m.heap
      BY <2>1, <2>3 DEF Within
    <3>2. m.ptr[Container(s)] # Null
      BY <1>1, <3>1, NullAssumption
    <3>3. Container(s) \in Slots \ Locals
      BY <1>2, ContainerIsSlot
    <3>4. QED
      BY <1>2, <3>2, <3>3 DEF Lies
  <2>4. QED
    BY <2>2, <2>3
<1>4. Root \in O <=> st # "absent"
  BY <1>2, SlotKinds DEF Settled
<1>5. \A l \in Lists : \E n \in 0 .. MostNodes(st, l) : Counts(O, l, n)
  BY <1>2, NodeSlots DEF Settled, Counts
<1>6. Shape(st, O)
  BY <1>2, <1>3, <1>4, <1>5 DEF Shape
<1>7. [ptr |-> p, heap |-> m.heap] \in Memories
  BY <1>1 DEF Memories
<1>8. /\ \A s \in O : m.ptr[s] \in m.heap
      /\ \A s, u \in O : m.ptr[s] = m.ptr[u] => s = u
      /\ \A b \in m.heap : Leaked(tm, b) \/ \E s \in O : m.ptr[s] = b
  BY DEF Settled
<1>9. \A s \in O : p[s] = m.ptr[s]
  BY <1>2
<1>10. \A s \in Slots \ (O \cup {}) : p[s] = Null
  BY <1>2
<1> HIDE DEF O, p
<1>11. [ptr |-> p, heap |-> m.heap] \in Tame(tm, O, {})
  BY <1>7, <1>8, <1>9, <1>10 DEF Tame
<1>12. QED
  BY <1>6, <1>11 DEF O, p

\* A function ends with dirt in its local variables at most.
LEMMA Exit ==
    ASSUME NEW st, st # "released", NEW tm, NEW O, Shape(st, O), NEW D \in SUBSET Locals
    PROVE  Tame(tm, O, D) \subseteq Final(st, tm)
<1> SUFFICES ASSUME NEW m \in Tame(tm, O, D)
             PROVE  m \in Final(st, tm)
  OBVIOUS
<1>1. m \in Memories /\ m.ptr \in [Slots -> Blocks \cup {Null}] /\ m.heap \in SUBSET Blocks
  BY DEF Tame, Memories
<1>2. O \in SUBSET (Slots \ Locals)
  BY DEF Shape
<1>3. \A s \in O : m.ptr[s] \in m.heap /\ m.ptr[s] # Null
  BY <1>1, NullAssumption DEF Tame
<1>4. \A s \in Slots \ Locals : m.ptr[s] # Null <=> s \in O
  BY <1>2, <1>3 DEF Tame
<1>5. Held(m) = O
  BY <1>2, <1>4 DEF Held
<1>6. \A s \in O : Within(m, s)
  BY TameWithin DEF Shape, Closed
<1>7. m.ptr[Root] = Null <=> st = "absent"
  BY <1>4, SlotKinds DEF Shape
<1>8. \A l \in Lists : \E n \in 0 .. MostNodes(st, l) :
        \A i \in Nodes : m.ptr[Node(l, i)] # Null <=> i <= n
  BY <1>4, NodeSlots DEF Shape, Counts
<1>9. Settled(st, tm, m)
  BY <1>3, <1>5, <1>6, <1>7, <1>8 DEF Settled, Tame
<1>10. QED
  BY <1>1, <1>9 DEF Final

-----------------------------------------------------------------------------
(***************************************************************************)
(* The functions of the client.                                            *)
(***************************************************************************)

LEMMA CreateHolds ==
    ASSUME NEW O, Shape("absent", O)
    PROVE  Holds(Tame(FALSE, O, {}),
                 nhr_malloc_zero(Root) \o nhr_mutex_create_recursive(Member("work_mutex"))
                   \o nhr_mutex_create_recursive(Member("command_mutex")),
                 Final("configure", FALSE))
<1> DEFINE w == Member("work_mutex")
           c == Member("command_mutex")
           O1 == O \cup {Root}
           O2 == O1 \cup {w}
           O3 == O2 \cup {c}
<1>1. O \in SUBSET Slots /\ O \in SUBSET (Slots \ Locals) /\ Closed(O) /\ Root \notin O
  BY DEF Shape
<1>2. Root \in Slots \ Locals /\ w \in Slots \ Locals /\ c \in Slots \ Locals
  BY SlotKinds
<1>3. w \notin O /\ c \notin O /\ w # c /\ w # Root /\ c # Root
  <2>1. \A x \in O : Container(x) # Root
    BY <1>1, NoChild
  <2>2. QED
    BY <2>1, Containers, SlotsDiffer
<1> HIDE DEF w, c
<1>4. Holds(Tame(FALSE, O, {}), nhr_malloc_zero(Root), Tame(FALSE, O1, {}))
      /\ O1 \in SUBSET Slots /\ Closed(O1)
  <2>1. {} \ {Root} = {}
    OBVIOUS
  <2>2. QED
    BY <1>1, <1>2, <2>1, WhereLies, MallocClosed
<1>5. Holds(Tame(FALSE, O1, {}), nhr_malloc_zero(w), Tame(FALSE, O2, {}))
      /\ O2 \in SUBSET Slots /\ Closed(O2)
  <2>1. {} \ {w} = {} /\ w \notin O1 /\ Lies(O1, w)
    BY <1>3, WhereLies DEF w
  <2>2. QED
    BY <1>2, <1>4, <2>1, MallocClosed
<1>6. Holds(Tame(FALSE, O2, {}), nhr_malloc_zero(c), Tame(FALSE, O3, {}))
      /\ O3 \in SUBSET Slots /\ Closed(O3)
  <2>1. {} \ {c} = {} /\ c \notin O2 /\ Lies(O2, c)
    BY <1>3, WhereLies DEF c
  <2>2. QED
    BY <1>2, <1>5, <2>1, MallocClosed
<1>7. Shape("configure", O3)
  <2>1. \A l \in Lists, i \in Nodes : Node(l, i) \in O3 <=> Node(l, i) \in O
    BY NodeSlots, SlotsDiffer DEF w, c, Fields
  <2>2. \A l \in Lists : MostNodes("configure", l) = MostNodes("absent", l)
    BY DEF MostNodes
  <2>3. O3 \in SUBSET (Slots \ Locals) /\ Root \in O3
    BY <1>1, <1>2
  <2>4. QED
    BY <1>6, <2>1, <2>2, <2>3 DEF Shape, Counts
<1>8. Tame(FALSE, O3, {}) \subseteq Final("configure", FALSE)
  BY <1>7, Exit
<1> HIDE DEF O1, O2, O3
<1>9. Holds(Tame(FALSE, O, {}), nhr_malloc_zero(Root) \o nhr_malloc_zero(w), Tame(FALSE, O2, {}))
  BY <1>4, <1>5, HoldsThen
<1>10. Holds(Tame(FALSE, O, {}), nhr_malloc_zero(Root) \o nhr_malloc_zero(w) \o nhr_malloc_zero(c),
             Tame(FALSE, O3, {}))
  BY <1>6, <1>9, HoldsThen
<1>11. QED
  BY <1>8, <1>10, HoldsWeaker DEF nhr_mutex_create_recursive, w, c

\* A string is replaced, or deleted if none is given.
LEMMA SetStringHolds ==
    ASSUME NEW st, st # "absent", NEW tm, NEW O, Shape(st, O), NEW x \in Strings, NEW given
    PROVE  \E O1 : /\ Shape(st, O1)
                   /\ Holds(Tame(tm, O, {}), set_string(x, given), Tame(tm, O1, {}))
<1> DEFINE s == Member(x)
           O0 == O \ {s}
           O1 == IF given THEN O0 \cup {s} ELSE O0
<1>1. O \in SUBSET Slots /\ Root \in O /\ s \in Plain \ Locals /\ s \in Slots /\ s # Root
      /\ s # Local("result") /\ Lies(O, s)
  BY WhereLies, SlotKinds, SlotsDiffer DEF Shape, Plain
<1>2. Shape(st, O \ {s}) /\ Shape(st, O \cup {s})
  BY <1>1, PlainShape
<1>3. O0 \in SUBSET Slots /\ Closed(O0) /\ Lies(O0, s) /\ s \notin O0
  BY <1>1, <1>2, WhereLies DEF Shape
<1>4. Holds(Tame(tm, O, {}), nhr_free(s), Tame(tm, O0, {s}))
  <2>1. {} \cup {s} = {s} /\ s \notin {}
    OBVIOUS
  <2>2. QED
    BY <1>1, <2>1, FreeRule
<1>5. {s} \ {s} = {}
  OBVIOUS
<1>6. Holds(Tame(tm, O0, {s}), nhr_string_copy(s, given), Tame(tm, O1, {}))
  <2> HIDE DEF s, O0
  <2>1. CASE given
    <3>1. Holds(Tame(tm, O0, {s}), nhr_malloc_zero(s), Tame(tm, O0 \cup {s}, {}))
      BY <1>1, <1>3, <1>5, MallocClosed
    <3>2. QED
      BY <2>1, <3>1 DEF nhr_string_copy
  <2>2. CASE ~given
    <3>1. Holds(Tame(tm, O0, {s}), Clear(s), Tame(tm, O0, {}))
      BY <1>1, <1>3, <1>5, ClearRule
    <3>2. QED
      BY <2>2, <3>1 DEF nhr_string_copy
  <2>3. QED
    BY <2>1, <2>2
<1>7. Shape(st, O1)
  <2>1. O0 \cup {s} = O \cup {s}
    OBVIOUS
  <2>2. QED
    BY <1>2, <2>1
<1> HIDE DEF O0, O1, s
<1>8. Holds(Tame(tm, O, {}), nhr_free(s) \o nhr_string_copy(s, given), Tame(tm, O1, {}))
  BY <1>4, <1>6, HoldsThen
<1>9. QED
  BY <1>7, <1>8 DEF set_string, s

\* nhr_request_set_url replaces its three strings.
LEMMA SetUrlHolds ==
    ASSUME NEW st, st # "absent", st # "released", NEW tm, NEW O, Shape(st, O), NEW given \in SUBSET Strings
    PROVE  Holds(Tame(tm, O, {}),
                 set_string("scheme", "scheme" \in given) \o set_string("host", "host" \in given)
                   \o set_string("path", "path" \in given),
                 Final(st, tm))
<1>1. {"scheme", "host", "path"} = Strings
  BY DEF Strings
<1>2. PICK O1 : /\ Shape(st, O1)
                /\ Holds(Tame(tm, O, {}), set_string("scheme", "scheme" \in given), Tame(tm, O1, {}))
  BY <1>1, SetStringHolds, Zenon
<1>3. PICK O2 : /\ Shape(st, O2)
                /\ Holds(Tame(tm, O1, {}), set_string("host", "host" \in given), Tame(tm, O2, {}))
  BY <1>1, <1>2, SetStringHolds, Zenon
<1>4. PICK O3 : /\ Shape(st, O3)
                /\ Holds(Tame(tm, O2, {}), set_string("path", "path" \in given), Tame(tm, O3, {}))
  BY <1>1, <1>3, SetStringHolds, Zenon
<1>5. Tame(tm, O3, {}) \subseteq Final(st, tm)
  BY <1>4, Exit
<1>6. Holds(Tame(tm, O, {}),
            set_string("scheme", "scheme" \in given) \o set_string("host", "host" \in given),
            Tame(tm, O2, {}))
  BY <1>2, <1>3, HoldsThen
<1>7. Holds(Tame(tm, O, {}),
            set_string("scheme", "scheme" \in given) \o set_string("host", "host" \in given)
              \o set_string("path", "path" \in given),
            Tame(tm, O3, {}))
  BY <1>4, <1>6, HoldsThen
<1>8. QED
  BY <1>5, <1>7, HoldsWeaker

-----------------------------------------------------------------------------
(***************************************************************************)
(* A node behind the last one of a list.                                   *)
(***************************************************************************)

NodeAnd(l, i, F) == {Node(l, i)} \cup {<<l, i, f>> : f \in F}

\* The place behind the last node is free, and lies in the last node or the request.
LEMMA NextNode ==
    ASSUME NEW O \in SUBSET Slots, Closed(O), Root \in O, NEW l \in Lists, NEW n \in Nat,
           n + 1 \in Nodes, Counts(O, l, n)
    PROVE  /\ Node(l, n + 1) \in (Slots \ Locals) \ O /\ Lies(O, Node(l, n + 1))
           /\ \A f \in Fields \ {"node"} :
                /\ <<l, n + 1, f>> \in (Slots \ Locals) \ O
                /\ <<l, n + 1, f>> # Node(l, n + 1)
                /\ Container(<<l, n + 1, f>>) = Node(l, n + 1)
<1>1. Node(l, n + 1) \in (Slots \ Locals) \ O
  BY NodeSlots DEF Counts
<1>2. Lies(O, Node(l, n + 1))
  <2>1. CASE n = 0
    BY <2>1, Containers DEF Lies
  <2>2. CASE n # 0
    <3>1. n \in Nodes /\ n + 1 > 1 /\ (n + 1) - 1 = n /\ n + 1 \in Nat
      BY <2>2, NodesAssumption DEF Nodes
    <3>2. QED
      BY <3>1, Containers DEF Lies, Counts
  <2>3. QED
    BY <2>1, <2>2
<1>3. \A x \in O : Container(x) # Node(l, n + 1)
  BY <1>1, NoChild
<1>4. ASSUME NEW f \in Fields \ {"node"}
      PROVE  /\ <<l, n + 1, f>> \in (Slots \ Locals) \ O
             /\ <<l, n + 1, f>> # Node(l, n + 1)
             /\ Container(<<l, n + 1, f>>) = Node(l, n + 1)
  <2>1. <<l, n + 1, f>> \in Slots \ Locals
    BY SlotKinds
  <2>2. Container(<<l, n + 1, f>>) = Node(l, n + 1)
    BY Containers
  <2>3. QED
    BY <1>3, <2>1, <2>2 DEF Node
<1>5. QED
  BY <1>1, <1>2, <1>4

\* With the new node the list has one more; the other list is as it was.
LEMMA OneMore ==
    ASSUME NEW O \in SUBSET Slots, NEW l \in Lists, NEW n \in Nat, n + 1 \in Nodes, Counts(O, l, n),
           NEW F \in SUBSET (Fields \ {"node"}), NEW X, \A k \in Lists, i \in Nodes : Node(k, i) \notin X,
           NEW Y, \A k \in Lists, i \in Nodes : Node(k, i) \notin Y
    PROVE  LET O1 == ((O \cup NodeAnd(l, n + 1, F)) \ X) \cup Y
           IN /\ Counts(O1, l, n + 1)
              /\ \A k \in Lists \ {l} : \A j : Counts(O, k, j) => Counts(O1, k, j)
<1> DEFINE O1 == ((O \cup NodeAnd(l, n + 1, F)) \ X) \cup Y
<1>1. \A k \in Lists, i \in Nodes : Node(k, i) \in NodeAnd(l, n + 1, F) <=> k = l /\ i = n + 1
  BY SlotsDiffer, NodeSlots DEF NodeAnd, Fields
<1>2. \A k \in Lists, i \in Nodes : Node(k, i) \in O1 <=> Node(k, i) \in O \/ (k = l /\ i = n + 1)
  BY <1>1
<1> HIDE DEF O1
<1>3. Counts(O1, l, n + 1)
  BY <1>2 DEF Counts, Nodes
<1>4. \A k \in Lists \ {l} : \A j : Counts(O, k, j) => Counts(O1, k, j)
  BY <1>2 DEF Counts
<1>5. QED
  BY <1>3, <1>4 DEF O1

\* A node with its name and its value is put behind the last.
LEMMA AddStringsHolds ==
    ASSUME NEW tm, NEW O \in SUBSET Slots, Closed(O), Root \in O, NEW l \in Lists, NEW n \in Nat,
           n + 1 \in Nodes, Counts(O, l, n), NEW D \in SUBSET Locals
    PROVE  LET O1 == O \cup NodeAnd(l, n + 1, {"key", "value"})
           IN /\ Holds(Tame(tm, O, D), add_strings(l, n + 1), Tame(tm, O1, D))
              /\ O1 \in SUBSET Slots /\ Closed(O1) /\ Root \in O1
              /\ O1 \cap Locals = O \cap Locals
              /\ Counts(O1, l, n + 1)
              /\ \A k \in Lists \ {l} : \A j : Counts(O, k, j) => Counts(O1, k, j)
<1> DEFINE a == Node(l, n + 1)
           k == <<l, n + 1, "key">>
           v == <<l, n + 1, "value">>
           O1 == O \cup {a}
           O2 == O1 \cup {k}
           O3 == O2 \cup {v}
<1>1. /\ a \in (Slots \ Locals) \ O /\ Lies(O, a)
      /\ k \in (Slots \ Locals) \ O /\ k # a /\ Container(k) = a
      /\ v \in (Slots \ Locals) \ O /\ v # a /\ Container(v) = a
  BY NextNode DEF Fields
<1>2. k # v /\ Local("result") \in Locals
  BY DEF Locals
<1>3. D \ {a} = D /\ D \ {k} = D /\ D \ {v} = D
  BY <1>1
<1>4. O3 = O \cup NodeAnd(l, n + 1, {"key", "value"})
  BY DEF NodeAnd
<1> HIDE DEF a, k, v
<1>5. Holds(Tame(tm, O, D), nhr_malloc_zero(a), Tame(tm, O1, D)) /\ O1 \in SUBSET Slots /\ Closed(O1)
  BY <1>1, <1>2, <1>3, MallocClosed
<1>6. Holds(Tame(tm, O1, D), nhr_malloc_zero(k), Tame(tm, O2, D)) /\ O2 \in SUBSET Slots /\ Closed(O2)
  <2>1. k \notin O1 /\ Lies(O1, k)
    BY <1>1 DEF Lies
  <2>2. QED
    BY <1>1, <1>2, <1>3, <1>5, <2>1, MallocClosed
<1>7. Holds(Tame(tm, O2, D), nhr_malloc_zero(v), Tame(tm, O3, D)) /\ O3 \in SUBSET Slots /\ Closed(O3)
  <2>1. v \notin O2 /\ Lies(O2, v)
    BY <1>1, <1>2 DEF Lies
  <2>2. QED
    BY <1>1, <1>2, <1>3, <1>6, <2>1, MallocClosed
<1>8. O3 \cap Locals = O \cap Locals /\ Root \in O3
  BY <1>1
<1>9. /\ Counts(O3, l, n + 1)
      /\ \A i \in Lists \ {l} : \A j : Counts(O, i, j) => Counts(O3, i, j)
  <2>1. ((O \cup NodeAnd(l, n + 1, {"key", "value"})) \ {}) \cup {} = O3
    BY <1>4
  <2>2. {"key", "value"} \in SUBSET (Fields \ {"node"})
    BY DEF Fields
  <2> HIDE DEF O3
  <2>3. QED
    BY <2>1, <2>2, OneMore
<1> HIDE DEF O1, O2, O3
<1>10. Holds(Tame(tm, O, D), nhr_malloc_zero(a) \o nhr_malloc_zero(k), Tame(tm, O2, D))
  BY <1>5, <1>6, HoldsThen
<1>11. Holds(Tame(tm, O, D), nhr_malloc_zero(a) \o nhr_malloc_zero(k) \o nhr_malloc_zero(v),
             Tame(tm, O3, D))
  BY <1>7, <1>10, HoldsThen
<1>12. Holds(Tame(tm, O, D), add_strings(l, n + 1), Tame(tm, O3, D))
  BY <1>11 DEF add_strings, a, k, v
<1>13. QED
  BY <1>4, <1>7, <1>8, <1>9, <1>12

\* The shape with one more node.
LEMMA GrownShape ==
    ASSUME NEW O, Shape("configure", O), NEW l \in Lists, NEW n \in 0 .. MaxNodes - 1, Counts(O, l, n),
           NEW O1 \in SUBSET (Slots \ Locals), Closed(O1), Root \in O1, Counts(O1, l, n + 1),
           \A k \in Lists \ {l} : \A j : Counts(O, k, j) => Counts(O1, k, j)
    PROVE  Shape("configure", O1)
<1>1. \A k \in Lists : MostNodes("configure", k) = MaxNodes
  BY DEF MostNodes
<1>2. ASSUME NEW k \in Lists
      PROVE  \E j \in 0 .. MostNodes("configure", k) : Counts(O1, k, j)
  <2>1. CASE k = l
    <3>1. n + 1 \in 0 .. MaxNodes
      BY NodesAssumption
    <3>2. QED
      BY <1>1, <2>1, <3>1
  <2>2. CASE k # l
    BY <2>2 DEF Shape
  <2>3. QED
    BY <2>1, <2>2
<1>3. QED
  BY <1>2 DEF Shape

\* nhr_request_add_header_field and nhr_request_add_parameter.
LEMMA AddHolds ==
    ASSUME NEW tm, NEW O, Shape("configure", O), NEW l \in Lists, NEW n \in 0 .. MaxNodes - 1,
           Counts(O, l, n)
    PROVE  Holds(Tame(tm, O, {}), add_strings(l, n + 1), Final("configure", tm))
<1> DEFINE O1 == O \cup NodeAnd(l, n + 1, {"key", "value"})
<1>1. O \in SUBSET Slots /\ O \cap Locals = {} /\ Closed(O) /\ Root \in O
  BY DEF Shape
<1>2. n \in Nat /\ n + 1 \in Nodes
  BY NodesAssumption DEF Nodes
<1>3. /\ Holds(Tame(tm, O, {}), add_strings(l, n + 1), Tame(tm, O1, {}))
      /\ O1 \in SUBSET Slots /\ Closed(O1) /\ Root \in O1
      /\ O1 \cap Locals = {}
      /\ Counts(O1, l, n + 1)
      /\ \A k \in Lists \ {l} : \A j : Counts(O, k, j) => Counts(O1, k, j)
  BY <1>1, <1>2, AddStringsHolds
<1> HIDE DEF O1
<1>4. Shape("configure", O1)
  BY <1>3, GrownShape
<1>5. Tame(tm, O1, {}) \subseteq Final("configure", tm)
  BY <1>4, Exit
<1>6. QED
  BY <1>3, <1>5, HoldsWeaker

\* A new boundary for a request that has none.
LEMMA BoundaryHolds ==
    ASSUME NEW tm, NEW O, Shape("configure", O), Member("boundary") \notin O, NEW D \in SUBSET Locals
    PROVE  /\ Shape("configure", O \cup {Member("boundary")})
           /\ Holds(Tame(tm, O, D), nhr_request_generate_new_boundary,
                    Tame(tm, O \cup {Member("boundary")}, D))
<1> DEFINE s == Member("boundary")
<1>1. O \in SUBSET Slots /\ Closed(O) /\ s \in Slots \ O /\ s \in Plain \ Locals /\ Lies(O, s)
      /\ s # Local("result") /\ s \notin D
  BY WhereLies, SlotKinds, SlotsDiffer DEF Shape, Plain
<1> HIDE DEF s
<1>2. O \ {s} = O /\ (D \cup {s}) \ {s} = D /\ D \ {s} = D
  BY <1>1
<1>3. Holds(Tame(tm, O, D), nhr_free(s), Tame(tm, O, D \cup {s}))
  BY <1>1, <1>2, FreeRule
<1>4. Holds(Tame(tm, O, D \cup {s}), Clear(s), Tame(tm, O, D))
  BY <1>1, <1>2, ClearRule
<1>5. Holds(Tame(tm, O, D), nhr_malloc_zero(s), Tame(tm, O \cup {s}, D))
  BY <1>1, <1>2, MallocClosed
<1>6. Holds(Tame(tm, O, D), nhr_free(s) \o Clear(s), Tame(tm, O, D))
  BY <1>3, <1>4, HoldsThen
<1>7. Holds(Tame(tm, O, D), (nhr_free(s) \o Clear(s)) \o nhr_malloc_zero(s), Tame(tm, O \cup {s}, D))
  BY <1>5, <1>6, HoldsThen
<1>8. Shape("configure", O \cup {s})
  BY <1>1, PlainShape
<1>9. QED
  BY <1>7, <1>8 DEF nhr_request_generate_new_boundary, nhr_string_delete_clean, s

\* The data are copied first, and then become the value of the node.
LEMMA AddDataHolds ==
    ASSUME NEW tm, NEW O, Shape("configure", O), NEW n \in 0 .. MaxNodes - 1,
           Counts(O, "parameters", n)
    PROVE  Holds(Tame(tm, O, {}),
                 nhr_malloc_zero(Local("_data")) \o nhr_malloc_zero(Node("parameters", n + 1))
                   \o nhr_malloc_zero(<<"parameters", n + 1, "key">>)
                   \o nhr_malloc_zero(<<"parameters", n + 1, "reserved">>)
                   \o Copy(<<"parameters", n + 1, "value">>, Local("_data"))
                   \o IF Member("boundary") \notin O THEN nhr_request_generate_new_boundary ELSE <<>>,
                 Final("configure", tm))
<1> DEFINE d == Local("_data")
           l == "parameters"
           a == Node(l, n + 1)
           k == <<l, n + 1, "key">>
           r == <<l, n + 1, "reserved">>
           v == <<l, n + 1, "value">>
           O1 == O \cup {d}
           O2 == O1 \cup {a}
           O3 == O2 \cup {k}
           O4 == O3 \cup {r}
           O5 == (O4 \ {d}) \cup {v}
<1>1. O \in SUBSET Slots /\ O \in SUBSET (Slots \ Locals) /\ O \cap Locals = {} /\ Closed(O) /\ Root \in O
  BY DEF Shape
<1>2. n \in Nat /\ n + 1 \in Nodes /\ l \in Lists
  BY NodesAssumption DEF Nodes, Lists
<1>3. d \in Locals /\ d \in Slots /\ Local("result") \in Locals /\ d # Local("result") /\ Container(d) = d
  BY SlotKinds, SlotsDiffer, Containers DEF Locals
<1>4. /\ a \in (Slots \ Locals) \ O /\ Lies(O, a)
      /\ k \in (Slots \ Locals) \ O /\ k # a /\ Container(k) = a
      /\ r \in (Slots \ Locals) \ O /\ r # a /\ Container(r) = a
      /\ v \in (Slots \ Locals) \ O /\ v # a /\ Container(v) = a
  BY <1>1, <1>2, NextNode DEF Fields
<1>5. k # v /\ k # r /\ r # v
  OBVIOUS
<1>6. O5 = ((O \cup NodeAnd(l, n + 1, {"key", "reserved"})) \ {d}) \cup {v}
  BY <1>3, <1>4 DEF NodeAnd
<1>7. Member("boundary") \in O5 <=> Member("boundary") \in O
  BY <1>2, SlotsDiffer, NodeSlots DEF Fields
<1>8. \A i \in Lists, j \in Nodes : Node(i, j) \notin {d} /\ Node(i, j) \notin {v}
  BY <1>2, <1>3, SlotsDiffer, NodeSlots DEF Fields
<1>9. {} \ {d} = {} /\ {} \ {a} = {} /\ {} \ {k} = {} /\ {} \ {r} = {} /\ ({} \ {v}) \cup {d} = {d}
  OBVIOUS
<1> HIDE DEF d, l, a, k, r, v
<1>10. Holds(Tame(tm, O, {}), nhr_malloc_zero(d), Tame(tm, O1, {})) /\ O1 \in SUBSET Slots /\ Closed(O1)
  <2>1. Lies(O, d)
    BY <1>3 DEF Lies, Outermost
  <2>2. QED
    BY <1>1, <1>3, <1>9, <2>1, MallocClosed
<1>11. Holds(Tame(tm, O1, {}), nhr_malloc_zero(a), Tame(tm, O2, {})) /\ O2 \in SUBSET Slots /\ Closed(O2)
  <2>1. a \notin O1 /\ Lies(O1, a)
    BY <1>3, <1>4 DEF Lies
  <2>2. QED
    BY <1>3, <1>4, <1>9, <1>10, <2>1, MallocClosed
<1>12. Holds(Tame(tm, O2, {}), nhr_malloc_zero(k), Tame(tm, O3, {})) /\ O3 \in SUBSET Slots /\ Closed(O3)
  <2>1. k \notin O2 /\ Lies(O2, k)
    BY <1>3, <1>4 DEF Lies
  <2>2. QED
    BY <1>3, <1>4, <1>9, <1>11, <2>1, MallocClosed
<1>13. Holds(Tame(tm, O3, {}), nhr_malloc_zero(r), Tame(tm, O4, {})) /\ O4 \in SUBSET Slots /\ Closed(O4)
  <2>1. r \notin O3 /\ Lies(O3, r)
    BY <1>3, <1>4, <1>5 DEF Lies
  <2>2. QED
    BY <1>3, <1>4, <1>9, <1>12, <2>1, MallocClosed
<1>14. Holds(Tame(tm, O4, {}), Copy(v, d), Tame(tm, O5, {d}))
  <2>1. v \in Slots \ O4 /\ Lies(O4, v) /\ Lies(O4, d) /\ d \in O4
    BY <1>3, <1>4, <1>5 DEF Lies, Outermost
  <2>2. QED
    BY <1>9, <1>13, <2>1, MoveRule
<1>15. O5 \in SUBSET (Slots \ Locals) /\ Root \in O5
  BY <1>1, <1>3, <1>4
<1>16. Closed(O5)
  <2>1. d \in Plain
    BY <1>3 DEF Plain
  <2>2. Closed(O4 \ {d})
    BY <1>13, <2>1, PlainSlots, ClosedLess
  <2>3. Lies(O4 \ {d}, v)
    BY <1>3, <1>4 DEF Lies
  <2>4. QED
    BY <1>13, <2>2, <2>3, ClosedMore
<1>17. /\ Counts(O5, l, n + 1)
       /\ \A i \in Lists \ {l} : \A j : Counts(O, i, j) => Counts(O5, i, j)
  <2>1. {"key", "reserved"} \in SUBSET (Fields \ {"node"}) /\ Counts(O, l, n)
    BY DEF Fields, l
  <2> HIDE DEF O5
  <2>2. QED
    BY <1>1, <1>2, <1>6, <1>8, <2>1, OneMore
<1> HIDE DEF O1, O2, O3, O4, O5
<1>18. Shape("configure", O5)
  BY <1>2, <1>15, <1>16, <1>17, GrownShape DEF l
<1> DEFINE B == IF Member("boundary") \notin O THEN nhr_request_generate_new_boundary ELSE <<>>
<1>19. Holds(Tame(tm, O5, {d}), B, Final("configure", tm))
  <2>1. {d} \in SUBSET Locals
    BY <1>3
  <2>2. CASE Member("boundary") \notin O
    <3>1. /\ Shape("configure", O5 \cup {Member("boundary")})
          /\ Holds(Tame(tm, O5, {d}), nhr_request_generate_new_boundary,
                   Tame(tm, O5 \cup {Member("boundary")}, {d}))
      BY <1>7, <1>18, <2>1, <2>2, BoundaryHolds
    <3>2. Tame(tm, O5 \cup {Member("boundary")}, {d}) \subseteq Final("configure", tm)
      BY <2>1, <3>1, Exit
    <3>3. QED
      BY <2>2, <3>1, <3>2, HoldsWeaker
  <2>3. CASE Member("boundary") \in O
    <3>1. Tame(tm, O5, {d}) \subseteq Final("configure", tm)
      BY <1>18, <2>1, Exit
    <3>2. Holds(Tame(tm, O5, {d}), <<>>, Tame(tm, O5, {d}))
      BY TameIsMemory, HoldsNone
    <3>3. QED
      BY <2>3, <3>1, <3>2, HoldsWeaker
  <2>4. QED
    BY <2>2, <2>3
<1> HIDE DEF B
<1>20. Holds(Tame(tm, O, {}), nhr_malloc_zero(d) \o nhr_malloc_zero(a), Tame(tm, O2, {}))
  BY <1>10, <1>11, HoldsThen
<1>21. Holds(Tame(tm, O, {}), nhr_malloc_zero(d) \o nhr_malloc_zero(a) \o nhr_malloc_zero(k),
             Tame(tm, O3, {}))
  BY <1>12, <1>20, HoldsThen
<1>22. Holds(Tame(tm, O, {}), nhr_malloc_zero(d) \o nhr_malloc_zero(a) \o nhr_malloc_zero(k)
                                \o nhr_malloc_zero(r),
             Tame(tm, O4, {}))
  BY <1>13, <1>21, HoldsThen
<1>23. Holds(Tame(tm, O, {}), nhr_malloc_zero(d) \o nhr_malloc_zero(a) \o nhr_malloc_zero(k)
                                \o nhr_malloc_zero(r) \o Copy(v, d),
             Tame(tm, O5, {d}))
  BY <1>14, <1>22, HoldsThen
<1>24. Holds(Tame(tm, O, {}), nhr_malloc_zero(d) \o nhr_malloc_zero(a) \o nhr_malloc_zero(k)
                                \o nhr_malloc_zero(r) \o Copy(v, d) \o B,
             Final("configure", tm))
  BY <1>19, <1>23, HoldsThen
<1>25. QED
  BY <1>24 DEF d, a, k, r, v, l, B

-----------------------------------------------------------------------------
(***************************************************************************)
(* The handlers of the work thread.                                        *)
(***************************************************************************)

\* Nothing is done, and the stage changes.
LEMMA IdleHolds ==
    ASSUME NEW tm, NEW O, NEW st2, st2 # "released", Shape(st2, O)
    PROVE  Holds(Tame(tm, O, {}), <<>>, Final(st2, tm))
<1>1. Tame(tm, O, {}) \subseteq Final(st2, tm)
  BY Exit
<1>2. QED
  BY <1>1, HoldsNone, HoldsWeaker, TameIsMemory

\* The address list is allocated; no list was lost before.
LEMMA AddressList ==
    ASSUME NEW O, Shape("connect", O)
    PROVE  LET r == Local("result")
           IN /\ Holds(Tame(FALSE, O, {}), nhr_malloc_zero(r), Named(FALSE, O \cup {r}, {}, r))
              /\ O \cup {r} \in SUBSET Slots /\ r \in Locals /\ r \notin O
              /\ Lies(O \cup {r}, r)
<1> DEFINE r == Local("result")
<1>1. O \in SUBSET Slots /\ Closed(O) /\ r \in Locals /\ r \in Slots \ O
  BY SlotKinds DEF Shape, Locals
<1>2. \A x \in O : Container(x) # r
  BY <1>1, NoChild
<1>3. {} \ {r} = {} /\ Lies(O, r) /\ Lies(O \cup {r}, r)
  BY WhereLies
<1> HIDE DEF r
<1>4. Holds(Tame(FALSE, O, {}), nhr_malloc_zero(r), Named(FALSE, O \cup {r}, {} \ {r}, r))
  BY <1>1, <1>2, <1>3, MallocNamed
<1>5. QED
  BY <1>1, <1>3, <1>4 DEF r

\* nhr_request_connect_to_host when no timeout ends it: its list is freed.
LEMMA ConnectHolds ==
    ASSUME NEW O, Shape("connect", O), NEW st2 \in {"send", "inform"}
    PROVE  Holds(Tame(FALSE, O, {}), connect_body, Final(st2, FALSE))
<1> DEFINE r == Local("result")
           Q == Named(FALSE, O \cup {r}, {}, r)
<1>1. /\ Holds(Tame(FALSE, O, {}), nhr_malloc_zero(r), Q)
      /\ O \cup {r} \in SUBSET Slots /\ r \in Locals /\ r \notin O /\ r \in Slots
      /\ Lies(O \cup {r}, r)
  BY AddressList, SlotKinds
<1>2. Q \subseteq Tame(FALSE, O \cup {r}, {})
  BY DEF Named
<1> HIDE DEF Q, r
<1>3. Holds(Tame(FALSE, O \cup {r}, {}), nhr_free(r), Tame(FALSE, O, {r}))
  <2>1. (O \cup {r}) \ {r} = O /\ {} \cup {r} = {r} /\ r \notin {}
    BY <1>1
  <2>2. QED
    BY <1>1, <2>1, FreeRule
<1>4. Holds(Tame(FALSE, O, {}), nhr_malloc_zero(r), Tame(FALSE, O \cup {r}, {}))
  BY <1>1, <1>2, HoldsWeaker
<1>5. Holds(Tame(FALSE, O, {}), nhr_malloc_zero(r) \o nhr_free(r), Tame(FALSE, O, {r}))
  BY <1>3, <1>4, HoldsThen
<1>6. Tame(FALSE, O, {r}) \subseteq Final(st2, FALSE)
  <2>1. Shape(st2, O) /\ st2 # "released" /\ {r} \in SUBSET Locals
    BY <1>1, LaterShape
  <2>2. QED
    BY <2>1, Exit
<1>7. QED
  BY <1>5, <1>6, HoldsWeaker DEF connect_body, r

\* The address list that nobody frees is the one that may be lost.
LEMMA TimeoutHolds ==
    ASSUME NEW O, Shape("connect", O)
    PROVE  Holds(Tame(FALSE, O, {}), nhr_malloc_zero(Local("result")), Final("inform", TRUE))
<1> DEFINE r == Local("result")
           Q == Named(FALSE, O \cup {r}, {}, r)
<1>1. Holds(Tame(FALSE, O, {}), nhr_malloc_zero(r), Q) /\ r \in Locals
  BY AddressList
<1>2. Q \subseteq Tame(TRUE, O, {r})
  BY DEF Named, Tame, Leaked
<1>3. Tame(TRUE, O, {r}) \subseteq Final("inform", TRUE)
  BY <1>1, LaterShape, Exit
<1> HIDE DEF Q
<1>4. QED
  BY <1>1, <1>2, <1>3, HoldsWeaker

\* The local variables that hold what a message is built from.
Parts == {Local("headers"), Local("parameters")}

\* What the local variables of the encoders are, and which are different.
LEMMA PartSlots ==
    /\ Parts \subseteq Locals /\ Local("buff") \in Locals /\ Local("zgip_parameters") \in Locals
    /\ Local("decompressed") \in Locals
    /\ Local("buff") \notin Parts /\ Local("zgip_parameters") \notin Parts
    /\ Local("buff") # Local("zgip_parameters") /\ Local("headers") # Local("parameters")
    /\ Local("result") \notin Parts /\ Local("result") # Local("buff")
    /\ Local("result") # Local("zgip_parameters") /\ Local("result") # Local("decompressed")
    /\ Locals \subseteq Plain /\ Locals \subseteq Slots
BY SlotKinds DEF Parts, Locals, Local, Plain

\* Memory for a local variable.
LEMMA LocalHolds ==
    ASSUME NEW tm, NEW O \in SUBSET Slots, NEW s \in Locals \ O, s # Local("result"), NEW D, s \notin D
    PROVE  Holds(Tame(tm, O, D), nhr_malloc_zero(s), Tame(tm, O \cup {s}, D))
<1>1. s \in Slots \ O /\ \A x \in O : Container(x) # s
  BY PartSlots, PlainSlots
<1>2. Lies(O, s)
  BY WhereLies DEF Locals
<1>3. D \ {s} = D
  OBVIOUS
<1>4. QED
  BY <1>1, <1>2, <1>3, MallocRule

\* The message is sent and the parts are freed.
LEMMA SendHolds ==
    ASSUME NEW tm, NEW O \in SUBSET (Slots \ Locals), Root \in O, NEW L \in SUBSET Parts,
           NEW D \in SUBSET {Local("zgip_parameters")}
    PROVE  Holds(Tame(tm, O \cup L, D), send_message, Tame(tm, O, Locals))
<1> DEFINE p == Member("path")
           o == Member("host")
           b == Local("buff")
           h == Local("headers")
           r == Local("parameters")
           O0 == O \cup L
           O1 == O0 \cup {b}
           O2 == O1 \ {h}
           O3 == O2 \ {r}
           D1 == D \cup {h}
           D2 == D1 \cup {r}
           D3 == D2 \cup {b}
<1>1. /\ p \in Slots /\ o \in Slots /\ p \notin Locals /\ o \notin Locals
      /\ b \in Locals /\ h \in Locals /\ r \in Locals /\ Locals \subseteq Slots
      /\ b # h /\ b # r /\ h # r /\ b \notin D /\ h \notin D /\ r \notin D /\ D \subseteq Locals
      /\ b \notin L /\ b # Local("result") /\ L \subseteq {h, r} /\ L \subseteq Locals
  BY PartSlots, SlotKinds DEF Parts, Strings
<1>2. /\ \A S : Lies(S, b) /\ Lies(S, h) /\ Lies(S, r)
      /\ Lies(O0, p) /\ Lies(O0, o)
  BY WhereLies
<1> HIDE DEF p, o, b, h, r
<1>3. O0 \in SUBSET Slots /\ O1 \in SUBSET Slots /\ O2 \in SUBSET Slots /\ O3 \in SUBSET Slots
  BY <1>1
<1>4. Holds(Tame(tm, O0, D), Read(p), Tame(tm, O0, D)) /\ Holds(Tame(tm, O0, D), Read(o), Tame(tm, O0, D))
  BY <1>1, <1>2, <1>3, ReadRule
<1>5. Holds(Tame(tm, O0, D), nhr_malloc_zero(b), Tame(tm, O1, D))
  <2>1. b \in Locals \ O0
    BY <1>1
  <2>2. QED
    BY <1>1, <1>3, <2>1, LocalHolds
<1>6. Holds(Tame(tm, O1, D), nhr_free(h), Tame(tm, O2, D1))
  BY <1>1, <1>2, <1>3, FreeRule
<1>7. Holds(Tame(tm, O2, D1), nhr_free(r), Tame(tm, O3, D2))
  <2>1. r \in Slots \ D1
    BY <1>1
  <2>2. QED
    BY <1>2, <1>3, <2>1, FreeRule
<1>8. Holds(Tame(tm, O3, D2), nhr_free(b), Tame(tm, O, D3))
  <2>1. b \in Slots \ D2 /\ O3 \ {b} = O
    BY <1>1
  <2>2. QED
    BY <1>2, <1>3, <2>1, FreeRule
<1>9. Tame(tm, O, D3) \subseteq Tame(tm, O, Locals)
  <2>1. D3 \subseteq Locals
    BY <1>1
  <2>2. QED
    BY <2>1, TameWeaker
<1> HIDE DEF O0, O1, O2, O3, D1, D2, D3
<1>10. Holds(Tame(tm, O0, D), Read(p) \o Read(o), Tame(tm, O0, D))
  BY <1>4, HoldsThen
<1>11. Holds(Tame(tm, O0, D), Read(p) \o Read(o) \o nhr_malloc_zero(b), Tame(tm, O1, D))
  BY <1>5, <1>10, HoldsThen
<1>12. Holds(Tame(tm, O0, D), Read(p) \o Read(o) \o nhr_malloc_zero(b) \o nhr_free(h), Tame(tm, O2, D1))
  BY <1>6, <1>11, HoldsThen
<1>13. Holds(Tame(tm, O0, D), Read(p) \o Read(o) \o nhr_malloc_zero(b) \o nhr_free(h) \o nhr_free(r),
             Tame(tm, O3, D2))
  BY <1>7, <1>12, HoldsThen
<1>14. Holds(Tame(tm, O0, D), Read(p) \o Read(o) \o nhr_malloc_zero(b) \o nhr_free(h) \o nhr_free(r)
                                \o nhr_free(b),
             Tame(tm, O, D3))
  BY <1>8, <1>13, HoldsThen
<1>15. QED
  BY <1>9, <1>14, HoldsWeaker DEF send_message, p, o, b, h, r, O0

\* A part is made.
LEMMA PartHolds ==
    ASSUME NEW tm, NEW O \in SUBSET (Slots \ Locals), NEW L \in SUBSET Parts, NEW s \in Parts \ L
    PROVE  Holds(Tame(tm, O \cup L, {}), nhr_malloc_zero(s), Tame(tm, O \cup (L \cup {s}), {}))
<1>1. O \cup L \in SUBSET Slots /\ s \in Locals \ (O \cup L) /\ s # Local("result") /\ s \notin {}
  BY PartSlots
<1>2. (O \cup L) \cup {s} = O \cup (L \cup {s})
  OBVIOUS
<1>3. QED
  BY <1>1, <1>2, LocalHolds

\* The header fields as a part, if there are any.
LEMMA FieldsHold ==
    ASSUME NEW tm, NEW O \in SUBSET (Slots \ Locals), NEW given
    PROVE  \E L \in SUBSET {Local("headers")} :
             Holds(Tame(tm, O, {}), http_headers(given), Tame(tm, O \cup L, {}))
<1> DEFINE h == Local("headers")
<1>1. h \in Parts \ {} /\ {} \in SUBSET Parts
  BY DEF Parts
<1> HIDE DEF h
<1>2. O \cup {} = O /\ O \cup ({} \cup {h}) = O \cup {h} /\ {h} \in SUBSET {h} /\ {} \in SUBSET {h}
  OBVIOUS
<1>3. CASE given
  <2>1. Holds(Tame(tm, O, {}), nhr_malloc_zero(h), Tame(tm, O \cup {h}, {}))
    BY <1>1, <1>2, PartHolds
  <2>2. http_headers(given) = nhr_malloc_zero(h)
    BY <1>3 DEF http_headers, h
  <2>3. QED
    BY <1>2, <2>1, <2>2 DEF h
<1>4. CASE ~given
  <2>1. Holds(Tame(tm, O, {}), <<>>, Tame(tm, O, {}))
    BY HoldsNone, TameIsMemory
  <2>2. http_headers(given) = <<>>
    BY <1>4 DEF http_headers
  <2>3. QED
    BY <1>2, <2>1, <2>2 DEF h
<1>5. QED
  BY <1>3, <1>4

\* nhr_request_create_header_GET and the send that follows it.
LEMMA GetHolds ==
    ASSUME NEW tm, NEW O, Shape("send", O), NEW fields, NEW params
    PROVE  Holds(Tame(tm, O, {}),
                 http_headers(fields)
                   \o (IF params THEN nhr_malloc_zero(Local("parameters")) ELSE <<>>) \o send_message,
                 Final("receive", tm))
<1> DEFINE a == http_headers(fields)
           b == IF params THEN nhr_malloc_zero(Local("parameters")) ELSE <<>>
           r == Local("parameters")
<1>1. O \in SUBSET (Slots \ Locals) /\ Root \in O
  BY DEF Shape
<1>2. PICK L1 \in SUBSET {Local("headers")} : Holds(Tame(tm, O, {}), a, Tame(tm, O \cup L1, {}))
  BY <1>1, FieldsHold
<1>3. r \in Parts \ L1 /\ L1 \in SUBSET Parts /\ L1 \cup {r} \in SUBSET Parts
  BY PartSlots DEF Parts
<1>4. PICK L2 \in SUBSET Parts : Holds(Tame(tm, O \cup L1, {}), b, Tame(tm, O \cup L2, {}))
  <2>1. CASE params
    <3>1. Holds(Tame(tm, O \cup L1, {}), nhr_malloc_zero(r), Tame(tm, O \cup (L1 \cup {r}), {}))
      BY <1>1, <1>3, PartHolds
    <3>2. QED
      BY <1>3, <2>1, <3>1
  <2>2. CASE ~params
    <3>1. Holds(Tame(tm, O \cup L1, {}), <<>>, Tame(tm, O \cup L1, {}))
      BY HoldsNone, TameIsMemory
    <3>2. QED
      BY <1>3, <2>2, <3>1
  <2>3. QED
    BY <2>1, <2>2
<1>5. Holds(Tame(tm, O \cup L2, {}), send_message, Tame(tm, O, Locals))
  BY <1>1, SendHolds
<1>6. Tame(tm, O, Locals) \subseteq Final("receive", tm)
  <2>1. Shape("receive", O)
    BY LaterShape
  <2>2. QED
    BY <2>1, Exit
<1> HIDE DEF a, b
<1>7. Holds(Tame(tm, O, {}), a \o b, Tame(tm, O \cup L2, {}))
  BY <1>2, <1>4, HoldsThen
<1>8. Holds(Tame(tm, O, {}), a \o b \o send_message, Tame(tm, O, Locals))
  BY <1>5, <1>7, HoldsThen
<1>9. QED
  BY <1>6, <1>8, HoldsWeaker DEF a, b

\* A POST without parameters.
LEMMA PlainPostHolds ==
    ASSUME NEW tm, NEW O, Shape("send", O), NEW fields
    PROVE  Holds(Tame(tm, O, {}), http_headers(fields) \o send_message, Final("receive", tm))
<1> DEFINE a == http_headers(fields)
<1>1. O \in SUBSET (Slots \ Locals) /\ Root \in O
  BY DEF Shape
<1>2. PICK L1 \in SUBSET {Local("headers")} : Holds(Tame(tm, O, {}), a, Tame(tm, O \cup L1, {}))
  BY <1>1, FieldsHold
<1>3. Holds(Tame(tm, O \cup L1, {}), send_message, Tame(tm, O, Locals))
  <2>1. L1 \in SUBSET Parts
    BY DEF Parts
  <2>2. QED
    BY <1>1, <2>1, SendHolds
<1>4. Tame(tm, O, Locals) \subseteq Final("receive", tm)
  <2>1. Shape("receive", O)
    BY LaterShape
  <2>2. QED
    BY <2>1, Exit
<1> HIDE DEF a
<1>5. Holds(Tame(tm, O, {}), a \o send_message, Tame(tm, O, Locals))
  BY <1>2, <1>3, HoldsThen
<1>6. QED
  BY <1>4, <1>5, HoldsWeaker DEF a

\* The compressed parameters take the place of the plain ones.
LEMMA CompressedHolds ==
    ASSUME NEW tm, NEW O \in SUBSET (Slots \ Locals)
    PROVE  Holds(Tame(tm, O \cup {Local("parameters")}, {}), compressed,
                 Tame(tm, O \cup {Local("parameters")}, {Local("zgip_parameters")}))
<1> DEFINE r == Local("parameters")
           z == Local("zgip_parameters")
           O0 == O \cup {r}
           O1 == O0 \cup {z}
           O2 == O1 \ {r}
<1>1. r \in Locals /\ z \in Locals /\ r # z /\ z # Local("result") /\ r \in Slots /\ z \in Slots
  BY PartSlots DEF Parts
<1>2. \A S : Lies(S, r) /\ Lies(S, z)
  BY WhereLies
<1> HIDE DEF r, z
<1>3. O0 \in SUBSET Slots /\ O1 \in SUBSET Slots /\ O2 \in SUBSET Slots
  BY <1>1
<1>4. Holds(Tame(tm, O0, {}), nhr_malloc_zero(z), Tame(tm, O1, {}))
  <2>1. z \in Locals \ O0
    BY <1>1
  <2>2. QED
    BY <1>1, <1>3, <2>1, LocalHolds
<1>5. Holds(Tame(tm, O1, {}), nhr_free(r), Tame(tm, O2, {r}))
  <2>1. {} \cup {r} = {r} /\ r \notin {}
    OBVIOUS
  <2>2. QED
    BY <1>1, <1>2, <1>3, <2>1, FreeRule
<1>6. Holds(Tame(tm, O2, {r}), Copy(r, z), Tame(tm, O0, {z}))
  <2>1. (O2 \ {z}) \cup {r} = O0 /\ ({r} \ {r}) \cup {z} = {z} /\ r \in Slots \ O2 /\ z \in O2
    BY <1>1
  <2>2. QED
    BY <1>2, <1>3, <2>1, MoveRule
<1> HIDE DEF O0, O1, O2
<1>7. Holds(Tame(tm, O0, {}), nhr_malloc_zero(z) \o nhr_free(r), Tame(tm, O2, {r}))
  BY <1>4, <1>5, HoldsThen
<1>8. Holds(Tame(tm, O0, {}), nhr_malloc_zero(z) \o nhr_free(r) \o Copy(r, z), Tame(tm, O0, {z}))
  BY <1>6, <1>7, HoldsThen
<1>9. QED
  BY <1>8 DEF compressed, r, z, O0

\* A POST with parameters adds two fields to its own request.
LEMMA PostHolds ==
    ASSUME NEW tm, NEW O, Shape("send", O), NEW n \in 0 .. MaxNodes, Counts(O, "http_headers", n),
           NEW packed
    PROVE  Holds(Tame(tm, O, {}),
                 nhr_malloc_zero(Local("parameters")) \o (IF packed THEN compressed ELSE <<>>)
                   \o (add_strings("http_headers", n + 1) \o add_strings("http_headers", n + 2))
                   \o http_headers(TRUE) \o send_message,
                 Final("receive", tm))
<1> DEFINE l == "http_headers"
           r == Local("parameters")
           h == Local("headers")
           z == Local("zgip_parameters")
           O0 == O \cup {r}
           O1 == O0 \cup NodeAnd(l, n + 1, {"key", "value"})
           O2 == O1 \cup NodeAnd(l, (n + 1) + 1, {"key", "value"})
           P2 == O2 \ {r}
<1>1. O \in SUBSET (Slots \ Locals) /\ O \in SUBSET Slots /\ Root \in O /\ Closed(O) /\ l \in Lists
  BY DEF Shape, Lists
<1>2. r \in Locals /\ z \in Locals /\ h \in Locals /\ r # z /\ r # h /\ r # Local("result") /\ r \in Slots
      /\ r \in Plain /\ h \in Parts /\ r \in Parts /\ Parts = {h, r} /\ z \notin Parts
  BY PartSlots DEF Parts
<1>3. n \in Nat /\ n + 1 \in Nat /\ n + 1 \in Nodes /\ (n + 1) + 1 \in Nodes /\ (n + 1) + 1 = n + 2
  BY NodesAssumption DEF Nodes
<1>4. O0 \in SUBSET Slots /\ Closed(O0) /\ Root \in O0 /\ O0 \cap Locals = {r}
  <2>1. Lies(O, r)
    BY WhereLies
  <2>2. QED
    BY <1>1, <1>2, <2>1, ClosedMore
<1>5. \A k \in Lists : \A j : Counts(O, k, j) => Counts(O0, k, j)
  BY SlotsDiffer, NodeSlots DEF Counts, Fields
<1>6. /\ Counts(O0, l, n) /\ {z} \in SUBSET Locals /\ {} \in SUBSET Locals /\ {} \in SUBSET {z}
      /\ {z} \in SUBSET {z}
  BY <1>1, <1>2, <1>5
<1>7. \A D \in SUBSET Locals : Holds(Tame(tm, O0, D), add_strings(l, n + 1), Tame(tm, O1, D))
  BY <1>1, <1>3, <1>4, <1>6, AddStringsHolds
<1>8. /\ O1 \in SUBSET Slots /\ Closed(O1) /\ Root \in O1
      /\ O1 \cap Locals = {r}
      /\ Counts(O1, l, n + 1)
      /\ \A k \in Lists \ {l} : \A j : Counts(O0, k, j) => Counts(O1, k, j)
  BY <1>1, <1>3, <1>4, <1>6, AddStringsHolds
<1> HIDE DEF O1
<1>9. \A D \in SUBSET Locals : Holds(Tame(tm, O1, D), add_strings(l, (n + 1) + 1), Tame(tm, O2, D))
  BY <1>1, <1>3, <1>8, AddStringsHolds
<1>10. /\ O2 \in SUBSET Slots /\ Closed(O2) /\ Root \in O2
       /\ O2 \cap Locals = {r}
       /\ Counts(O2, l, (n + 1) + 1)
       /\ \A k \in Lists \ {l} : \A j : Counts(O1, k, j) => Counts(O2, k, j)
  BY <1>1, <1>3, <1>6, <1>8, AddStringsHolds
<1> HIDE DEF O2, l, r, h, z
<1>11. P2 \in SUBSET (Slots \ Locals) /\ Root \in P2 /\ P2 \cup {r} = O2 /\ Closed(P2)
  <2>1. Root \notin Locals
    BY SlotKinds
  <2>2. Closed(P2)
    BY <1>2, <1>10, PlainSlots, ClosedLess
  <2>3. QED
    BY <1>2, <1>10, <2>1, <2>2
<1>12. Shape("receive", P2)
  <2>1. \A k \in Lists, i \in Nodes : Node(k, i) \in P2 <=> Node(k, i) \in O2
    BY <1>2, NodeSlots
  <2>2. \A k \in Lists : \A j : Counts(O2, k, j) => Counts(P2, k, j)
    BY <2>1 DEF Counts
  <2>3. ASSUME NEW k \in Lists
        PROVE  \E j \in 0 .. MostNodes("receive", k) : Counts(P2, k, j)
    <3>1. CASE k = l
      <4>1. (n + 1) + 1 \in 0 .. MostNodes("receive", l)
        BY NodesAssumption DEF MostNodes, l
      <4>2. QED
        BY <1>10, <2>2, <3>1, <4>1
    <3>2. CASE k # l
      <4>1. PICK j \in 0 .. MostNodes("send", k) : Counts(O, k, j)
        BY DEF Shape
      <4>2. j \in 0 .. MostNodes("receive", k)
        BY NodesAssumption DEF MostNodes
      <4>3. QED
        BY <1>5, <1>8, <1>10, <2>2, <3>2, <4>1, <4>2
    <3>3. QED
      BY <3>1, <3>2
  <2>4. QED
    BY <1>11, <2>3 DEF Shape
<1> HIDE DEF P2
<1> DEFINE a == nhr_malloc_zero(r)
           b == IF packed THEN compressed ELSE <<>>
           c == add_strings(l, n + 1) \o add_strings(l, n + 2)
           d == http_headers(TRUE)
<1>13. Holds(Tame(tm, O, {}), a, Tame(tm, O0, {}))
  BY <1>1, <1>2, LocalHolds
<1>14. PICK D \in SUBSET {z} : Holds(Tame(tm, O0, {}), b, Tame(tm, O0, D))
  <2>1. CASE packed
    <3>1. Holds(Tame(tm, O0, {}), compressed, Tame(tm, O0, {z}))
      BY <1>1, CompressedHolds DEF r, z
    <3>2. QED
      BY <1>6, <2>1, <3>1
  <2>2. CASE ~packed
    <3>1. Holds(Tame(tm, O0, {}), <<>>, Tame(tm, O0, {}))
      BY HoldsNone, TameIsMemory
    <3>2. QED
      BY <1>6, <2>2, <3>1
  <2>3. QED
    BY <2>1, <2>2
<1>15. Holds(Tame(tm, O0, D), c, Tame(tm, O2, D))
  <2>1. D \in SUBSET Locals
    BY <1>2
  <2>2. Holds(Tame(tm, O0, D), add_strings(l, n + 1), Tame(tm, O1, D))
    BY <1>7, <2>1
  <2>3. Holds(Tame(tm, O1, D), add_strings(l, n + 2), Tame(tm, O2, D))
    BY <1>3, <1>9, <2>1
  <2>4. QED
    BY <2>2, <2>3, HoldsThen
<1>16. Holds(Tame(tm, O2, D), d, Tame(tm, O2 \cup {h}, D))
  <2>1. h \in Locals \ O2 /\ h \notin D /\ h # Local("result")
    BY <1>2, <1>10, PartSlots
  <2>2. QED
    BY <1>10, <2>1, LocalHolds DEF http_headers, h
<1>17. Holds(Tame(tm, O2 \cup {h}, D), send_message, Tame(tm, P2, Locals))
  <2>1. O2 \cup {h} = P2 \cup {h, r} /\ {h, r} \in SUBSET Parts
    BY <1>2, <1>11
  <2>2. D \in SUBSET {Local("zgip_parameters")}
    BY DEF z
  <2>3. QED
    BY <1>11, <2>1, <2>2, SendHolds
<1>18. Tame(tm, P2, Locals) \subseteq Final("receive", tm)
  BY <1>12, Exit
<1> HIDE DEF O0, a, b, c, d
<1>19. Holds(Tame(tm, O, {}), a \o b, Tame(tm, O0, D))
  BY <1>13, <1>14, HoldsThen
<1>20. Holds(Tame(tm, O, {}), a \o b \o c, Tame(tm, O2, D))
  BY <1>15, <1>19, HoldsThen
<1>21. Holds(Tame(tm, O, {}), a \o b \o c \o d, Tame(tm, O2 \cup {h}, D))
  BY <1>16, <1>20, HoldsThen
<1>22. Holds(Tame(tm, O, {}), a \o b \o c \o d \o send_message, Tame(tm, P2, Locals))
  BY <1>17, <1>21, HoldsThen
<1>23. QED
  BY <1>18, <1>22, HoldsWeaker DEF a, b, c, d, l, r

\* The body of a response is inflated into a new block.
LEMMA UngzipHolds ==
    ASSUME NEW tm, NEW O, Shape("receive", O), Body \in O
    PROVE  Holds(Tame(tm, O, {}), ungzip, Tame(tm, O, {Local("decompressed")}))
<1> DEFINE d == Local("decompressed")
           O1 == O \cup {d}
           O2 == O1 \ {Body}
<1>1. O \in SUBSET (Slots \ Locals) /\ O \in SUBSET Slots /\ Closed(O)
  BY DEF Shape
<1>2. Body # Member("response") /\ Member("response") \in O /\ Body \in Slots /\ Body \notin Locals
      /\ Member("response") \notin Locals
  BY <1>1, Containers, SlotsDiffer, SlotKinds DEF Closed, Lies, Outermost
<1>3. d \in Locals /\ d \in Slots /\ d # Local("result") /\ \A S : Lies(S, d)
  BY PartSlots, WhereLies
<1> HIDE DEF d
<1>4. O1 \in SUBSET Slots /\ O2 \in SUBSET Slots /\ Lies(O1, Body) /\ Lies(O2, Body)
  BY <1>1, <1>2, <1>3, WhereLies
<1>5. Holds(Tame(tm, O, {}), nhr_malloc_zero(d), Tame(tm, O1, {}))
  <2>1. d \in Locals \ O /\ d \notin {}
    BY <1>1, <1>3
  <2>2. QED
    BY <1>1, <1>3, <2>1, LocalHolds
<1>6. Holds(Tame(tm, O1, {}), nhr_free(Body), Tame(tm, O2, {Body}))
  <2>1. {} \cup {Body} = {Body} /\ Body \notin {}
    OBVIOUS
  <2>2. QED
    BY <1>2, <1>4, <2>1, FreeRule
<1>7. Holds(Tame(tm, O2, {Body}), Copy(Body, d), Tame(tm, O, {d}))
  <2>1. (O2 \ {d}) \cup {Body} = O /\ ({Body} \ {Body}) \cup {d} = {d} /\ Body \in Slots \ O2 /\ d \in O2
    BY <1>1, <1>2, <1>3
  <2>2. QED
    BY <1>3, <1>4, <2>1, MoveRule
<1> HIDE DEF O1, O2
<1>8. Holds(Tame(tm, O, {}), nhr_malloc_zero(d) \o nhr_free(Body), Tame(tm, O2, {Body}))
  BY <1>5, <1>6, HoldsThen
<1>9. Holds(Tame(tm, O, {}), nhr_malloc_zero(d) \o nhr_free(Body) \o Copy(Body, d), Tame(tm, O, {d}))
  BY <1>7, <1>8, HoldsThen
<1>10. QED
  BY <1>9 DEF ungzip, d

\* nhr_response_check_is_finished, where there is a body to decompress.
LEMMA FinishHolds ==
    ASSUME NEW tm, NEW O, Shape("receive", O), NEW unzip, unzip => Body \in O
    PROVE  Holds(Tame(tm, O, {}), check_is_finished(unzip), Final("receive", tm))
<1>1. CASE unzip
  <2>1. Holds(Tame(tm, O, {}), ungzip, Tame(tm, O, {Local("decompressed")}))
    BY <1>1, UngzipHolds
  <2>2. Tame(tm, O, {Local("decompressed")}) \subseteq Final("receive", tm)
    <3>1. {Local("decompressed")} \in SUBSET Locals
      BY PartSlots
    <3>2. QED
      BY <3>1, Exit
  <2>3. QED
    BY <1>1, <2>1, <2>2, HoldsWeaker DEF check_is_finished
<1>2. CASE ~unzip
  BY <1>2, IdleHolds DEF check_is_finished
<1>3. QED
  BY <1>1, <1>2

\* The first segment of a response.
LEMMA ResponseCreateHolds ==
    ASSUME NEW tm, NEW O, Shape("receive", O), Member("response") \notin O,
           NEW body, NEW unzip, unzip => body
    PROVE  Holds(Tame(tm, O, {}),
                 nhr_malloc_zero(Member("response")) \o (IF body THEN nhr_malloc_zero(Body) ELSE <<>>)
                   \o check_is_finished(unzip),
                 Final("receive", tm))
<1> DEFINE r == Member("response")
           b == IF body THEN nhr_malloc_zero(Body) ELSE <<>>
           c == check_is_finished(unzip)
           O1 == O \cup {r}
<1>1. O \in SUBSET (Slots \ Locals) /\ O \in SUBSET Slots /\ Closed(O) /\ Root \in O
  BY DEF Shape
<1>2. r \in Slots /\ r \notin Locals /\ r # Body /\ Body \in Slots /\ Body \in Plain \ Locals
      /\ r # Local("result") /\ Body # Local("result") /\ Lies(O, r) /\ Lies(O1, Body)
  BY <1>1, SlotKinds, SlotsDiffer, WhereLies DEF Plain
<1>3. Body \notin O
  <2>1. \A x \in O : Container(x) # r
    BY <1>1, NoChild
  <2>2. QED
    BY <2>1, Containers
<1>4. Shape("receive", O1)
  <2>1. \A l \in Lists, i \in Nodes : Node(l, i) \in O1 <=> Node(l, i) \in O
    BY NodeSlots, SlotsDiffer DEF Fields
  <2>2. Closed(O1)
    BY <1>1, <1>2, ClosedMore
  <2>3. QED
    BY <1>1, <1>2, <2>1, <2>2 DEF Shape, Counts
<1> HIDE DEF r
<1>5. {} \ {r} = {} /\ {} \ {Body} = {}
  OBVIOUS
<1>6. Holds(Tame(tm, O, {}), nhr_malloc_zero(r), Tame(tm, O1, {})) /\ O1 \in SUBSET Slots /\ Closed(O1)
  BY <1>1, <1>2, <1>5, MallocClosed DEF r
<1>7. PICK O2 : Shape("receive", O2) /\ (body => Body \in O2) /\ Holds(Tame(tm, O1, {}), b, Tame(tm, O2, {}))
  <2>1. CASE body
    <3>1. Holds(Tame(tm, O1, {}), nhr_malloc_zero(Body), Tame(tm, O1 \cup {Body}, {}))
      BY <1>2, <1>3, <1>5, <1>6, MallocClosed
    <3>2. Shape("receive", O1 \cup {Body})
      BY <1>2, <1>4, PlainShape
    <3>3. Body \in O1 \cup {Body}
      OBVIOUS
    <3>4. QED
      BY <2>1, <3>1, <3>2, <3>3
  <2>2. CASE ~body
    <3>1. Holds(Tame(tm, O1, {}), <<>>, Tame(tm, O1, {}))
      BY HoldsNone, TameIsMemory
    <3>2. QED
      BY <1>4, <2>2, <3>1
  <2>3. QED
    BY <2>1, <2>2
<1>8. Holds(Tame(tm, O2, {}), c, Final("receive", tm))
  BY <1>7, FinishHolds
<1> HIDE DEF b, c, O1
<1>9. Holds(Tame(tm, O, {}), nhr_malloc_zero(r) \o b, Tame(tm, O2, {}))
  BY <1>6, <1>7, HoldsThen
<1>10. Holds(Tame(tm, O, {}), nhr_malloc_zero(r) \o b \o c, Final("receive", tm))
  BY <1>8, <1>9, HoldsThen
<1>11. QED
  BY <1>10 DEF r, b, c

\* The later segments of a response.
LEMMA ResponseAppendHolds ==
    ASSUME NEW tm, NEW O, Shape("receive", O), Member("response") \in O,
           NEW grows, NEW unzip, unzip => grows \/ Body \in O
    PROVE  Holds(Tame(tm, O, {}),
                 (IF grows THEN nhr_realloc(Body) ELSE Read(Body)) \o check_is_finished(unzip),
                 Final("receive", tm))
<1> DEFINE b == IF grows THEN nhr_realloc(Body) ELSE Read(Body)
           c == check_is_finished(unzip)
<1>1. O \in SUBSET Slots /\ Body \in Slots /\ Body \notin {} /\ Body \in Plain \ Locals
      /\ Body # Local("result") /\ Lies(O, Body)
  BY SlotKinds, SlotsDiffer, WhereLies DEF Shape, Plain
<1>2. PICK O1 : Shape("receive", O1) /\ (unzip => Body \in O1) /\ Holds(Tame(tm, O, {}), b, Tame(tm, O1, {}))
  <2>1. CASE grows
    <3>1. Holds(Tame(tm, O, {}), nhr_realloc(Body), Tame(tm, O \cup {Body}, {}))
      BY <1>1, ReallocRule
    <3>2. Shape("receive", O \cup {Body}) /\ Body \in O \cup {Body}
      BY <1>1, PlainShape
    <3>3. QED
      BY <2>1, <3>1, <3>2
  <2>2. CASE ~grows
    <3>1. Holds(Tame(tm, O, {}), Read(Body), Tame(tm, O, {}))
      BY <1>1, ReadRule
    <3>2. QED
      BY <2>2, <3>1
  <2>3. QED
    BY <2>1, <2>2
<1>3. Holds(Tame(tm, O1, {}), c, Final("receive", tm))
  BY <1>2, FinishHolds
<1> HIDE DEF b, c
<1>4. Holds(Tame(tm, O, {}), b \o c, Final("receive", tm))
  BY <1>2, <1>3, HoldsThen
<1>5. QED
  BY <1>4 DEF b, c

\* The callback that reads the response, if there is one.
LEMMA CallbackHolds ==
    ASSUME NEW tm, NEW O, Shape("inform", O)
    PROVE  Holds(Tame(tm, O, {}), IF Member("response") \notin O THEN <<>> ELSE Read(Body),
                 Final("end", tm))
<1>1. Shape("end", O)
  BY LaterShape
<1>2. Tame(tm, O, {}) \subseteq Final("end", tm)
  BY <1>1, Exit
<1>3. CASE Member("response") \notin O
  BY <1>1, <1>3, IdleHolds
<1>4. CASE Member("response") \in O
  <2>1. O \in SUBSET Slots /\ Body \in Slots /\ Body \notin {} /\ Lies(O, Body)
    BY <1>4, SlotKinds, WhereLies DEF Shape
  <2>2. Holds(Tame(tm, O, {}), Read(Body), Tame(tm, O, {}))
    BY <2>1, ReadRule
  <2>3. QED
    BY <1>2, <1>4, <2>2, HoldsWeaker
<1>5. QED
  BY <1>3, <1>4

-----------------------------------------------------------------------------
(***************************************************************************)
(* The deletion of a list.  Two local variables point to nodes that their  *)
(* predecessors own.                                                       *)
(***************************************************************************)

\* c points to the block of a and u to that of v.
Aliases(tm, O, D, c, a, u, v) ==
    {m \in Tame(tm, O, D) : m.ptr[c] = m.ptr[a] /\ m.ptr[u] = m.ptr[v]}

\* c points to the block of a.
Pointing(tm, O, D, c, a) == {m \in Tame(tm, O, D) : m.ptr[c] = m.ptr[a]}

\* The memory q is m after c was set to what s holds.
Assigned(m, q, c, s) ==
    /\ q.ptr[c] = m.ptr[s]
    /\ \A x \in Slots \ {c} : q.ptr[x] = m.ptr[x]

\* The block of s goes to c as well.
LEMMA CopyStep ==
    ASSUME NEW tm, NEW O \in SUBSET Slots, NEW D, NEW c \in Slots \ O, NEW s \in Slots,
           Lies(O, c), Lies(O, s), NEW m \in Tame(tm, O, D)
    PROVE  /\ Do("copy", c, s) \in Dos
           /\ Harmless(m, Do("copy", c, s))
           /\ After(m, Do("copy", c, s)) \in Tame(tm, O, D \cup {c})
           /\ Assigned(m, After(m, Do("copy", c, s)), c, s)
<1> DEFINE do == Do("copy", c, s)
<1>1. do \in Dos /\ do.op = "copy" /\ do.slot = c /\ do.from = s
  BY DoIsDo DEF Ops
<1> HIDE DEF do
<1>2. m \in Memories /\ m.ptr \in [Slots -> Blocks \cup {Null}] /\ m.heap \in SUBSET Blocks
      /\ m = [ptr |-> m.ptr, heap |-> m.heap]
  BY DEF Tame, Memories
<1>3. Harmless(m, do)
  BY <1>1, TameWithin DEF Harmless
<1> DEFINE p == [m.ptr EXCEPT ![c] = m.ptr[s]]
<1>4. After(m, do) = [ptr |-> p, heap |-> m.heap]
  BY <1>1, <1>2 DEF After, assign
<1>5. /\ p \in [Slots -> Blocks \cup {Null}]
      /\ \A x \in Slots : p[x] = IF x = c THEN m.ptr[s] ELSE m.ptr[x]
  BY <1>2
<1> HIDE DEF p
<1>6. [ptr |-> p, heap |-> m.heap] \in Memories
  BY <1>2, <1>5 DEF Memories
<1>7. After(m, do) \in Tame(tm, O, D \cup {c})
  BY <1>4, <1>5, <1>6 DEF Tame
<1>8. QED
  BY <1>1, <1>3, <1>4, <1>5, <1>7 DEF do, Assigned

\* A block is freed through the slot t that points to the block of its owner s.
LEMMA FreeAlias ==
    ASSUME NEW tm, NEW O \in SUBSET Slots, NEW D, NEW s \in O, NEW t \in Slots, Lies(O, t),
           NEW c \in Slots, NEW a \in Slots
    PROVE  Holds(Aliases(tm, O, D, c, a, t, s), nhr_free(t), Pointing(tm, O \ {s}, D \cup {s}, c, a))
<1> DEFINE do == Do("free", t, t)
           P == Aliases(tm, O, D, c, a, t, s)
           Q == Pointing(tm, O \ {s}, D \cup {s}, c, a)
<1>1. do \in Dos /\ do.op = "free" /\ do.slot = t /\ do.from = t
  BY DoIsDo DEF Ops
<1>2. P \in SUBSET Memories /\ Q \in SUBSET Memories
  BY TameIsMemory DEF Aliases, Pointing
<1>3. ASSUME NEW m \in P
      PROVE  Harmless(m, do) /\ After(m, do) \in Q
  <2>1. m \in Tame(tm, O, D) /\ m.ptr[c] = m.ptr[a] /\ m.ptr[t] = m.ptr[s]
    BY DEF Aliases
  <2>2. m \in Memories /\ m.ptr \in [Slots -> Blocks \cup {Null}] /\ m.heap \in SUBSET Blocks
        /\ m = [ptr |-> m.ptr, heap |-> m.heap] /\ m.ptr[s] \in m.heap
    BY <2>1 DEF Tame, Memories
  <2> HIDE DEF do, P, Q
  <2>3. Harmless(m, do)
    BY <1>1, <2>1, <2>2, TameWithin DEF Harmless
  <2>4. After(m, do) = [ptr |-> m.ptr, heap |-> m.heap \ {m.ptr[s]}]
    BY <1>1, <2>1, <2>2 DEF After, free
  <2>5. [ptr |-> m.ptr, heap |-> m.heap \ {m.ptr[s]}] \in Memories
    BY <2>2 DEF Memories
  <2>6. \A x \in O \ {s} : m.ptr[x] \in m.heap \ {m.ptr[s]}
    BY <2>1 DEF Tame
  <2>7. \A b \in m.heap \ {m.ptr[s]} : Leaked(tm, b) \/ \E x \in O \ {s} : m.ptr[x] = b
    BY <2>1 DEF Tame
  <2>8. After(m, do) \in Tame(tm, O \ {s}, D \cup {s})
    BY <2>1, <2>4, <2>5, <2>6, <2>7 DEF Tame
  <2>9. QED
    BY <2>1, <2>3, <2>4, <2>8 DEF Q, Pointing
<1> HIDE DEF do, P, Q
<1>4. QED
  BY <1>1, <1>2, <1>3, HoldsOne DEF nhr_free, do, P, Q

\* Another block is freed.
LEMMA FreeBeside ==
    ASSUME NEW tm, NEW O \in SUBSET Slots, NEW D, NEW s \in Slots \ D, Lies(O, s),
           NEW c, NEW a, NEW u, NEW v
    PROVE  Holds(Aliases(tm, O, D, c, a, u, v), nhr_free(s), Aliases(tm, O \ {s}, D \cup {s}, c, a, u, v))
<1> DEFINE do == Do("free", s, s)
           P == Aliases(tm, O, D, c, a, u, v)
           Q == Aliases(tm, O \ {s}, D \cup {s}, c, a, u, v)
<1>1. do \in Dos /\ P \in SUBSET Memories /\ Q \in SUBSET Memories
  BY DoIsDo, TameIsMemory DEF Ops, Aliases
<1>2. ASSUME NEW m \in P
      PROVE  Harmless(m, do) /\ After(m, do) \in Q
  <2>1. m \in Tame(tm, O, D) /\ m.ptr[c] = m.ptr[a] /\ m.ptr[u] = m.ptr[v]
    BY DEF Aliases
  <2>2. /\ Harmless(m, do) /\ After(m, do) \in Tame(tm, O \ {s}, D \cup {s})
        /\ After(m, do).ptr = m.ptr
    BY <2>1, FreeStep
  <2> HIDE DEF do
  <2>3. QED
    BY <2>1, <2>2 DEF Aliases
<1> HIDE DEF do, P, Q
<1>3. QED
  BY <1>1, <1>2, HoldsOne DEF nhr_free, do, P, Q

\* The slots of one node, of the nodes before it, and of all.
Of(l, i) == {<<l, i, f>> : f \in Fields}
Before(l, i) == {s \in Slots : \E j \in Nodes, f \in Fields : j < i /\ s = <<l, j, f>>}
AllOf(l) == {s \in Slots : \E j \in Nodes, f \in Fields : s = <<l, j, f>>}

\* One turn of the loop of nhr_map_delete.
LEMMA TurnHolds ==
    ASSUME NEW tm, NEW O \in SUBSET Slots, NEW D, NEW l \in Lists, NEW i \in Nodes, i + 1 \in Nodes,
           Node(l, i) \in O, Local("cur") \in D \ O, Local("last") \in D \ O,
           \A f \in Fields : <<l, i, f>> \notin D
    PROVE  Holds(Pointing(tm, O, D, Local("cur"), Node(l, i)), delete_node(l, i),
                 Pointing(tm, O \ Of(l, i), D \cup Of(l, i), Local("cur"), Node(l, i + 1)))
<1> DEFINE c == Local("cur")
           t == Local("last")
           a == Node(l, i)
           b == Node(l, i + 1)
           k == <<l, i, "key">>
           v == <<l, i, "value">>
           r == <<l, i, "reserved">>
           O1 == O \ {k}
           O2 == O1 \ {v}
           O3 == O2 \ {r}
           D1 == D \cup {k}
           D2 == D1 \cup {v}
           D3 == D2 \cup {r}
<1>1. /\ c \in Slots \ O /\ t \in Slots \ O /\ c # t /\ \A S : Lies(S, c) /\ Lies(S, t)
      /\ D \cup {c} = D /\ D \cup {t} = D
  BY SlotKinds, SlotsDiffer, WhereLies DEF Locals
<1>2. i \in Nat /\ i + 1 > 1 /\ (i + 1) - 1 = i /\ i + 1 \in Nat
  BY DEF Nodes
<1>3. /\ a \in Slots /\ b \in Slots /\ k \in Slots \ D /\ v \in Slots \ D /\ r \in Slots \ D
      /\ a \notin D /\ k # a /\ v # a /\ r # a /\ k # v /\ k # r /\ v # r
  BY NodeSlots, SlotKinds DEF Fields
<1>4. Container(k) = a /\ Container(v) = a /\ Container(r) = a /\ Container(b) = a
  BY <1>2, Containers DEF Fields
<1>5. /\ a # c /\ a # t /\ b # c /\ b # t
  BY SlotsDiffer, NodeSlots DEF Fields
<1>6. Of(l, i) = {a, k, v, r}
  BY NodeSlots DEF Of, Fields
<1> HIDE DEF c, t, a, b, k, v, r
<1>7. Holds(Pointing(tm, O, D, c, a), Copy(t, c), Aliases(tm, O, D, c, a, t, a))
  <2> DEFINE do == Do("copy", t, c)
             P == Pointing(tm, O, D, c, a)
             Q == Aliases(tm, O, D, c, a, t, a)
  <2>1. do \in Dos /\ P \in SUBSET Memories /\ Q \in SUBSET Memories
    BY <1>1, DoIsDo, TameIsMemory DEF Ops, Pointing, Aliases
  <2>2. ASSUME NEW m \in P
        PROVE  Harmless(m, do) /\ After(m, do) \in Q
    <3>1. m \in Tame(tm, O, D) /\ m.ptr[c] = m.ptr[a]
      BY DEF Pointing
    <3>2. /\ Harmless(m, do) /\ After(m, do) \in Tame(tm, O, D \cup {t})
          /\ Assigned(m, After(m, do), t, c)
      <4>1. t \in Slots \ O /\ c \in Slots /\ Lies(O, t) /\ Lies(O, c)
        BY <1>1
      <4>2. QED
        BY <3>1, <4>1, CopyStep
    <3> HIDE DEF do
    <3>3. After(m, do) \in Tame(tm, O, D)
      BY <1>1, <3>2
    <3>4. QED
      BY <1>1, <1>3, <1>5, <3>1, <3>2, <3>3 DEF Aliases, Assigned
  <2> HIDE DEF do, P, Q
  <2>3. QED
    BY <2>1, <2>2, HoldsOne DEF Copy, do, P, Q
<1>8. Holds(Aliases(tm, O, D, c, a, t, a), Copy(c, b), Aliases(tm, O, D, c, b, t, a))
  <2> DEFINE do == Do("copy", c, b)
             P == Aliases(tm, O, D, c, a, t, a)
             Q == Aliases(tm, O, D, c, b, t, a)
  <2>1. do \in Dos /\ P \in SUBSET Memories /\ Q \in SUBSET Memories
    BY <1>1, <1>3, DoIsDo, TameIsMemory DEF Ops, Aliases
  <2>2. Lies(O, b)
    BY <1>4 DEF Lies, a
  <2>3. ASSUME NEW m \in P
        PROVE  Harmless(m, do) /\ After(m, do) \in Q
    <3>1. m \in Tame(tm, O, D) /\ m.ptr[t] = m.ptr[a]
      BY DEF Aliases
    <3>2. /\ Harmless(m, do) /\ After(m, do) \in Tame(tm, O, D \cup {c})
          /\ Assigned(m, After(m, do), c, b)
      <4>1. c \in Slots \ O /\ b \in Slots /\ Lies(O, c)
        BY <1>1, <1>3
      <4>2. QED
        BY <2>2, <3>1, <4>1, CopyStep
    <3> HIDE DEF do
    <3>3. After(m, do) \in Tame(tm, O, D)
      BY <1>1, <3>2
    <3>4. QED
      BY <1>1, <1>3, <1>5, <3>1, <3>2, <3>3 DEF Aliases, Assigned
  <2> HIDE DEF do, P, Q
  <2>4. QED
    BY <2>1, <2>3, HoldsOne DEF Copy, do, P, Q
<1>9. a \in O /\ a \in O1 /\ a \in O2 /\ a \in O3
  BY <1>3 DEF a
<1>10. Lies(O, k) /\ Lies(O1, v) /\ Lies(O2, r)
  BY <1>4, <1>9 DEF Lies
<1>11. O1 \in SUBSET Slots /\ O2 \in SUBSET Slots /\ O3 \in SUBSET Slots
       /\ v \in Slots \ D1 /\ r \in Slots \ D2
  BY <1>3
<1>12. Holds(Aliases(tm, O, D, c, b, t, a), nhr_free(k), Aliases(tm, O1, D1, c, b, t, a))
  BY <1>3, <1>10, FreeBeside
<1>13. Holds(Aliases(tm, O1, D1, c, b, t, a), nhr_free(v), Aliases(tm, O2, D2, c, b, t, a))
  BY <1>10, <1>11, FreeBeside
<1>14. Holds(Aliases(tm, O2, D2, c, b, t, a), nhr_free(r), Aliases(tm, O3, D3, c, b, t, a))
  BY <1>10, <1>11, FreeBeside
<1>15. Holds(Aliases(tm, O3, D3, c, b, t, a), nhr_free(t), Pointing(tm, O \ Of(l, i), D \cup Of(l, i), c, b))
  <2>1. O3 \ {a} = O \ Of(l, i) /\ D3 \cup {a} = D \cup Of(l, i)
    BY <1>6
  <2>2. QED
    BY <1>1, <1>3, <1>9, <1>11, <2>1, FreeAlias
<1> HIDE DEF O1, O2, O3, D1, D2, D3
<1>16. Holds(Pointing(tm, O, D, c, a), Copy(t, c) \o Copy(c, b), Aliases(tm, O, D, c, b, t, a))
  BY <1>7, <1>8, HoldsThen
<1>17. Holds(Pointing(tm, O, D, c, a), Copy(t, c) \o Copy(c, b) \o nhr_free(k),
             Aliases(tm, O1, D1, c, b, t, a))
  BY <1>12, <1>16, HoldsThen
<1>18. Holds(Pointing(tm, O, D, c, a), Copy(t, c) \o Copy(c, b) \o nhr_free(k) \o nhr_free(v),
             Aliases(tm, O2, D2, c, b, t, a))
  BY <1>13, <1>17, HoldsThen
<1>19. Holds(Pointing(tm, O, D, c, a),
             Copy(t, c) \o Copy(c, b) \o nhr_free(k) \o nhr_free(v) \o nhr_free(r),
             Aliases(tm, O3, D3, c, b, t, a))
  BY <1>14, <1>18, HoldsThen
<1>20. Holds(Pointing(tm, O, D, c, a),
             Copy(t, c) \o Copy(c, b) \o nhr_free(k) \o nhr_free(v) \o nhr_free(r) \o nhr_free(t),
             Pointing(tm, O \ Of(l, i), D \cup Of(l, i), c, b))
  BY <1>15, <1>19, HoldsThen
<1>21. QED
  BY <1>20 DEF delete_node, c, t, a, b, k, v, r

\* The turns of the loop, one after the other.
Turns(l, n) == [i \in 1 .. n |-> delete_node(l, i)]

\* Where the loop is before turn i.
At(tm, O, D, l, i) ==
    Pointing(tm, O \ Before(l, i), (D \cup {Local("cur"), Local("last")}) \cup Before(l, i),
             Local("cur"), Node(l, i))

\* All turns of the loop, by induction on their number.
LEMMA LoopHolds ==
    ASSUME NEW tm, NEW O \in SUBSET Slots, NEW D, NEW l \in Lists, NEW n \in Nat, n + 1 \in Nodes,
           Counts(O, l, n), Local("cur") \notin O, Local("last") \notin O, D \cap AllOf(l) = {}
    PROVE  Holds(At(tm, O, D, l, 1), FlattenSeq(Turns(l, n)), At(tm, O, D, l, n + 1))
<1> DEFINE s == Turns(l, n)
           G == {j \in Nat : j <= n =>
                   Holds(At(tm, O, D, l, 1), FlattenSeq(SubSeq(s, 1, j)), At(tm, O, D, l, j + 1))}
<1>1. ASSUME NEW i \in 1 .. n
      PROVE  Holds(At(tm, O, D, l, i), delete_node(l, i), At(tm, O, D, l, i + 1))
  <2> DEFINE B == Before(l, i)
             E == D \cup {Local("cur"), Local("last")}
  <2>1. i \in Nodes /\ i + 1 \in Nodes /\ i \in Nat
    BY NodesAssumption DEF Nodes
  <2>2. Before(l, i + 1) = B \cup Of(l, i)
    <3>1. \A f \in Fields : <<l, i, f>> \in Slots
      BY <2>1, SlotKinds
    <3>2. \A j \in Nodes : j < i + 1 <=> j < i \/ j = i
      BY <2>1 DEF Nodes
    <3>3. ASSUME NEW x \in Before(l, i + 1)
          PROVE  x \in B \cup Of(l, i)
      BY <3>2 DEF Before, Of
    <3>4. ASSUME NEW x \in B
          PROVE  x \in Before(l, i + 1)
      BY <3>2 DEF Before
    <3>5. ASSUME NEW x \in Of(l, i)
          PROVE  x \in Before(l, i + 1)
      BY <2>1, <3>1, <3>2 DEF Before, Of
    <3>6. QED
      BY <3>3, <3>4, <3>5
  <2>3. Node(l, i) \in O \ B /\ \A f \in Fields : <<l, i, f>> \notin E \cup B
    <3>1. \A f \in Fields : <<l, i, f>> \notin B
      BY <2>1, SlotsDiffer DEF Before, Nodes
    <3>2. \A f \in Fields : <<l, i, f>> \in AllOf(l)
      BY <2>1, SlotKinds DEF AllOf
    <3>3. \A f \in Fields : <<l, i, f>> \notin E
      BY <2>1, <3>2, SlotsDiffer
    <3>4. Node(l, i) \in O
      BY <2>1 DEF Counts
    <3>5. QED
      BY <3>1, <3>3, <3>4 DEF Node, Fields
  <2>4. O \ B \in SUBSET Slots /\ Local("cur") \in (E \cup B) \ (O \ B)
        /\ Local("last") \in (E \cup B) \ (O \ B)
    OBVIOUS
  <2> HIDE DEF B, E
  <2>5. Holds(Pointing(tm, O \ B, E \cup B, Local("cur"), Node(l, i)), delete_node(l, i),
              Pointing(tm, (O \ B) \ Of(l, i), (E \cup B) \cup Of(l, i), Local("cur"), Node(l, i + 1)))
    BY <2>1, <2>3, <2>4, TurnHolds
  <2>6. (O \ B) \ Of(l, i) = O \ Before(l, i + 1) /\ (E \cup B) \cup Of(l, i) = E \cup Before(l, i + 1)
    BY <2>2
  <2>7. QED
    BY <2>5, <2>6 DEF At, B, E
<1>2. \A i \in 1 .. n : delete_node(l, i) \in Seq(Dos)
  BY <1>1 DEF Holds
<1>3. s \in Seq(Seq(Dos)) /\ Len(s) = n /\ \A i \in 1 .. n : s[i] = delete_node(l, i)
  BY <1>2 DEF Turns
<1> HIDE DEF s
<1>4. /\ FlattenSeq(SubSeq(s, 1, 0)) = <<>>
      /\ \A k \in 1 .. n : FlattenSeq(SubSeq(s, 1, k)) = FlattenSeq(SubSeq(s, 1, k - 1)) \o s[k]
      /\ FlattenSeq(SubSeq(s, 1, n)) = FlattenSeq(s)
  <2>1. /\ FlattenSeq(SubSeq(s, 1, 0)) = <<>>
        /\ \A k \in 1 .. Len(s) :
             FlattenSeq(SubSeq(s, 1, k)) = FlattenSeq(SubSeq(s, 1, k - 1)) \o s[k]
        /\ FlattenSeq(SubSeq(s, 1, Len(s))) = FlattenSeq(s)
    BY <1>3, FlattenFirst
  <2>2. QED
    BY <1>3, <2>1
<1>5. 0 \in G
  <2>1. At(tm, O, D, l, 1) \in SUBSET Memories
    BY TameIsMemory DEF At, Pointing
  <2>2. Holds(At(tm, O, D, l, 1), FlattenSeq(SubSeq(s, 1, 0)), At(tm, O, D, l, 1))
    BY <1>4, <2>1, HoldsNone
  <2>3. 0 + 1 = 1
    OBVIOUS
  <2>4. QED
    BY <2>2, <2>3
<1>6. ASSUME NEW j \in G
      PROVE  j + 1 \in G
  <2> SUFFICES ASSUME j + 1 <= n
               PROVE  Holds(At(tm, O, D, l, 1), FlattenSeq(SubSeq(s, 1, j + 1)), At(tm, O, D, l, (j + 1) + 1))
    OBVIOUS
  <2>1. j + 1 \in 1 .. n /\ (j + 1) - 1 = j /\ j <= n
    OBVIOUS
  <2>2. Holds(At(tm, O, D, l, 1), FlattenSeq(SubSeq(s, 1, j)), At(tm, O, D, l, j + 1))
    BY <2>1
  <2>3. Holds(At(tm, O, D, l, j + 1), s[j + 1], At(tm, O, D, l, (j + 1) + 1))
    BY <1>1, <1>3, <2>1
  <2>4. FlattenSeq(SubSeq(s, 1, j + 1)) = FlattenSeq(SubSeq(s, 1, j)) \o s[j + 1]
    BY <1>4, <2>1
  <2>5. QED
    BY <2>2, <2>3, <2>4, HoldsThen
<1>7. n \in G
  BY <1>5, <1>6, SetInduction
<1>8. QED
  BY <1>4, <1>7 DEF s

\* The list l has n nodes, and nothing of it lies behind the last.
Ends(O, l, n) == Counts(O, l, n) /\ \A j \in Nodes, f \in Fields : <<l, j, f>> \in O => j <= n

\* nhr_map_delete_clean frees all of a list.
LEMMA DeleteListHolds ==
    ASSUME NEW tm, NEW O \in SUBSET Slots, NEW D, NEW l \in Lists, NEW n \in Nat, n + 1 \in Nodes,
           Ends(O, l, n), Root \in O, Local("cur") \notin O, Local("last") \notin O,
           D \cap AllOf(l) = {}
    PROVE  Holds(Tame(tm, O, D),
                 Copy(Local("cur"), Node(l, 1)) \o FlattenSeq(Turns(l, n)) \o Clear(Node(l, 1)),
                 Tame(tm, O \ AllOf(l), (D \cup Locals) \cup AllOf(l)))
<1> DEFINE c == Local("cur")
           a == Node(l, 1)
           E == D \cup {c, Local("last")}
           B == Before(l, n + 1)
           O1 == O \ B
           D1 == E \cup B
<1>1. c \in Slots \ O /\ Lies(O, c) /\ {c, Local("last")} \subseteq Locals
  BY SlotKinds, WhereLies DEF Locals
<1>2. 1 \in Nodes /\ a \in Slots /\ a = <<l, 1, "node">> /\ "node" \in Fields
  BY NodesAssumption, NodeSlots DEF Nodes, Fields
<1>3. Container(a) = Root
  BY Containers
<1>4. O1 = O \ AllOf(l) /\ B \subseteq AllOf(l)
  <2>1. \A j \in Nodes : j < n + 1 <=> j <= n
    BY DEF Nodes
  <2>2. QED
    BY <2>1 DEF Ends, Before, AllOf
<1>5. a \notin O1 /\ Root \in O1
  <2>1. a \in AllOf(l)
    BY <1>2 DEF AllOf
  <2>2. Root \notin AllOf(l)
    BY SlotsDiffer DEF AllOf
  <2>3. QED
    BY <1>4, <2>1, <2>2
<1>6. Lies(O, a) /\ Lies(O1, a)
  BY <1>3, <1>5 DEF Lies
<1>7. Holds(Tame(tm, O, D), Copy(c, a), At(tm, O, D, l, 1))
  <2> DEFINE do == Do("copy", c, a)
             P == Tame(tm, O, D)
             Q == Pointing(tm, O, E, c, a)
  <2>1. do \in Dos /\ P \in SUBSET Memories /\ Q \in SUBSET Memories
    BY <1>1, <1>2, DoIsDo, TameIsMemory DEF Ops, Pointing
  <2> HIDE DEF a, c, E
  <2>2. ASSUME NEW m \in P
        PROVE  Harmless(m, do) /\ After(m, do) \in Q
    <3>1. m \in Tame(tm, O, D)
      OBVIOUS
    <3>2. /\ Harmless(m, do) /\ After(m, do) \in Tame(tm, O, D \cup {c})
          /\ Assigned(m, After(m, do), c, a)
      BY <1>1, <1>2, <1>6, <3>1, CopyStep
    <3> HIDE DEF do
    <3>3. After(m, do) \in Tame(tm, O, E)
      BY <3>2, TameWeaker DEF E
    <3>4. a # c
      BY <1>2, SlotsDiffer DEF a, c
    <3>5. QED
      BY <1>2, <3>2, <3>3, <3>4 DEF Assigned, Pointing
  <2> HIDE DEF do, P, Q
  <2>3. Holds(P, Copy(c, a), Q)
    BY <2>1, <2>2, HoldsOne DEF Copy, do
  <2>4. Before(l, 1) = {}
    BY DEF Before, Nodes
  <2>5. O \ Before(l, 1) = O /\ E \cup Before(l, 1) = E
    BY <2>4
  <2>6. Q = At(tm, O, D, l, 1)
    BY <2>5 DEF Q, At, a, c, E
  <2>7. QED
    BY <2>3, <2>6 DEF P
<1>8. Holds(At(tm, O, D, l, 1), FlattenSeq(Turns(l, n)), Tame(tm, O1, D1))
  <2>1. Holds(At(tm, O, D, l, 1), FlattenSeq(Turns(l, n)), At(tm, O, D, l, n + 1))
    BY LoopHolds DEF Ends
  <2>2. At(tm, O, D, l, n + 1) \subseteq Tame(tm, O1, D1)
    BY DEF At, Pointing
  <2> HIDE DEF O1, D1
  <2>3. QED
    BY <2>1, <2>2, HoldsWeaker
<1>9. Holds(Tame(tm, O1, D1), Clear(a), Tame(tm, O \ AllOf(l), (D \cup Locals) \cup AllOf(l)))
  <2>1. Holds(Tame(tm, O1, D1), Clear(a), Tame(tm, O1, D1 \ {a}))
    BY <1>2, <1>5, <1>6, ClearRule
  <2>2. D1 \ {a} \subseteq (D \cup Locals) \cup AllOf(l)
    BY <1>1, <1>4
  <2> HIDE DEF O1, D1, a
  <2>3. Tame(tm, O1, D1 \ {a}) \subseteq Tame(tm, O1, (D \cup Locals) \cup AllOf(l))
    BY <2>2, TameWeaker
  <2>4. QED
    BY <1>4, <2>1, <2>3, HoldsWeaker
<1> HIDE DEF O1, D1, a, c
<1>10. Holds(Tame(tm, O, D), Copy(c, a) \o FlattenSeq(Turns(l, n)), Tame(tm, O1, D1))
  BY <1>7, <1>8, HoldsThen
<1>11. QED
  BY <1>9, <1>10, HoldsThen DEF a, c

\* The list that a shape has ends with its last node.
LEMMA ShapeEnds ==
    ASSUME NEW st, NEW O, Shape(st, O), NEW l \in Lists, NEW n \in 0 .. MostNodes(st, l), Counts(O, l, n),
           NEW X, \A i \in Nodes, f \in Fields : <<l, i, f>> \notin X
    PROVE  Ends(O \ X, l, n) /\ n \in Nat /\ n + 1 \in Nodes
<1>1. n \in Nat /\ n + 1 \in Nodes
  BY NodesAssumption DEF MostNodes, Nodes
<1>2. \A i \in Nodes : Node(l, i) \in O \ X <=> i <= n
  BY NodeSlots DEF Counts, Fields
<1>3. ASSUME NEW j \in Nodes, NEW f \in Fields, <<l, j, f>> \in O
      PROVE  j <= n
  <2>1. CASE f = "node"
    BY <1>3, <2>1, NodeSlots DEF Counts
  <2>2. CASE f # "node"
    <3>1. j \in Nat /\ Container(<<l, j, f>>) = Node(l, j)
      BY <2>2, Containers DEF Nodes
    <3>2. <<l, j, f>> # Node(l, j)
      BY <2>2 DEF Node
    <3>3. Node(l, j) \in O
      BY <1>3, <3>1, <3>2 DEF Shape, Closed, Lies, Outermost
    <3>4. QED
      BY <3>3 DEF Counts
  <2>3. QED
    BY <2>1, <2>2
<1>4. QED
  BY <1>1, <1>2, <1>3 DEF Ends, Counts

\* A member of the request is freed, and, for a string, cleared.
LEMMA MemberHolds ==
    ASSUME NEW tm, NEW O \in SUBSET Slots, NEW X, NEW D, NEW x, Member(x) \in Slots \ D, Root \in O \ X
    PROVE  /\ Holds(Tame(tm, O \ X, D), nhr_free(Member(x)),
                    Tame(tm, O \ (X \cup {Member(x)}), D \cup {Member(x)}))
           /\ Holds(Tame(tm, O \ X, D), nhr_string_delete_clean(Member(x)),
                    Tame(tm, O \ (X \cup {Member(x)}), D))
<1> DEFINE s == Member(x)
           O0 == O \ X
           O1 == O0 \ {s}
<1>1. O0 \in SUBSET Slots /\ O1 \in SUBSET Slots /\ s \in Slots \ O1 /\ s \in Slots \ D
  OBVIOUS
<1>2. O1 = O \ (X \cup {s}) /\ (D \cup {s}) \ {s} = D
  OBVIOUS
<1>3. Root \in O0 /\ Root \in O1
  BY SlotsDiffer
<1>4. Lies(O0, s) /\ Lies(O1, s)
  BY <1>3, WhereLies
<1> HIDE DEF s, O0, O1
<1>5. Holds(Tame(tm, O0, D), nhr_free(s), Tame(tm, O1, D \cup {s}))
  BY <1>1, <1>4, FreeRule DEF O1
<1>6. Holds(Tame(tm, O1, D \cup {s}), Clear(s), Tame(tm, O1, D))
  BY <1>1, <1>2, <1>4, ClearRule
<1>7. Holds(Tame(tm, O0, D), nhr_free(s) \o Clear(s), Tame(tm, O1, D))
  BY <1>5, <1>6, HoldsThen
<1>8. QED
  BY <1>2, <1>5, <1>7 DEF nhr_string_delete_clean, s, O0

\* The response with its body is deleted, if there is one.
LEMMA ResponseDeleteHolds ==
    ASSUME NEW tm, NEW st, NEW O, Shape(st, O), NEW X, Root \in O \ X, Member("response") \notin X,
           NEW D, Body \notin D, Member("response") \notin D
    PROVE  Holds(Tame(tm, O \ X, D),
                 (IF Member("response") \notin O THEN <<>> ELSE nhr_free(Body))
                   \o nhr_free(Member("response")),
                 Tame(tm, O \ ((X \cup {Body}) \cup {Member("response")}),
                          (D \cup {Body}) \cup {Member("response")}))
<1> DEFINE r == Member("response")
           a == IF r \notin O THEN <<>> ELSE nhr_free(Body)
           X1 == X \cup {Body}
           D1 == D \cup {Body}
<1>1. O \in SUBSET Slots /\ O \ X \in SUBSET Slots /\ Body \in Slots /\ r \in Slots
  BY SlotKinds DEF Shape
<1>2. r # Body /\ Root # Body /\ Container(Body) = r
  BY SlotsDiffer, Containers
<1>3. (O \ X) \ {Body} = O \ X1
  OBVIOUS
<1>4. Holds(Tame(tm, O \ X, D), a, Tame(tm, O \ X1, D1))
  <2>1. CASE r \notin O
    <3>1. Body \notin O
      BY <1>1, <1>2, <2>1, NoChild DEF Shape
    <3>2. O \ X1 = O \ X
      BY <3>1
    <3>3. Holds(Tame(tm, O \ X, D), <<>>, Tame(tm, O \ X, D))
      BY HoldsNone, TameIsMemory
    <3>4. Tame(tm, O \ X, D) \subseteq Tame(tm, O \ X, D1)
      BY TameWeaker
    <3> HIDE DEF r, X1, D1
    <3>5. QED
      BY <2>1, <3>2, <3>3, <3>4, HoldsWeaker
  <2>2. CASE r \in O
    <3>1. Lies(O \ X, Body)
      BY <1>2, <2>2 DEF Lies
    <3>2. Body \in Slots \ D
      BY <1>1
    <3> HIDE DEF r
    <3>3. Holds(Tame(tm, O \ X, D), nhr_free(Body), Tame(tm, (O \ X) \ {Body}, D1))
      BY <1>1, <3>1, <3>2, FreeRule
    <3>4. QED
      BY <1>3, <2>2, <3>3
  <2>3. QED
    BY <2>1, <2>2
<1>5. Holds(Tame(tm, O \ X1, D1), nhr_free(r), Tame(tm, O \ (X1 \cup {r}), D1 \cup {r}))
  <2>1. r \in Slots \ D1 /\ Root \in O \ X1
    BY <1>1, <1>2
  <2> HIDE DEF X1, D1
  <2>2. QED
    BY <1>1, <2>1, MemberHolds DEF r
<1> HIDE DEF a, X1, D1, r
<1>6. Holds(Tame(tm, O \ X, D), a \o nhr_free(r), Tame(tm, O \ (X1 \cup {r}), D1 \cup {r}))
  BY <1>4, <1>5, HoldsThen
<1>7. QED
  BY <1>6 DEF a, X1, D1, r

\* What nhr_map_delete_clean does to a list of n nodes.
DeleteList(l, n) == Copy(Local("cur"), Node(l, 1)) \o FlattenSeq(Turns(l, n)) \o Clear(Node(l, 1))

\* What nhr_request_delete does first: it frees strings and lists.
LEMMA DeleteFirstHolds ==
    ASSUME NEW tm, NEW st, st # "absent", NEW O, Shape(st, O),
           NEW i \in 0 .. MostNodes(st, "http_headers"), Counts(O, "http_headers", i),
           NEW j \in 0 .. MostNodes(st, "parameters"), Counts(O, "parameters", j)
    PROVE  Holds(Tame(tm, O, {}),
                 nhr_string_delete_clean(Member("scheme")) \o nhr_string_delete_clean(Member("host"))
                   \o nhr_string_delete_clean(Member("path"))
                   \o DeleteList("http_headers", i) \o DeleteList("parameters", j),
                 Tame(tm, O \ ((({Member("scheme"), Member("host"), Member("path")})
                                  \cup AllOf("http_headers")) \cup AllOf("parameters")),
                          (Locals \cup AllOf("http_headers")) \cup AllOf("parameters")))
<1> DEFINE a == Member("scheme")
           b == Member("host")
           c == Member("path")
           H == AllOf("http_headers")
           P == AllOf("parameters")
           X1 == {a}
           X2 == X1 \cup {b}
           X3 == X2 \cup {c}
           X4 == X3 \cup H
           X5 == X4 \cup P
           L1 == DeleteList("http_headers", i)
           L2 == DeleteList("parameters", j)
<1>1. O \in SUBSET Slots /\ O \in SUBSET (Slots \ Locals) /\ Root \in O
  BY DEF Shape
<1>2. a \in Slots /\ b \in Slots /\ c \in Slots /\ Root # a /\ Root # b /\ Root # c
  BY SlotKinds, SlotsDiffer DEF Strings
<1>3. Root \notin H /\ Root \notin P
  BY SlotsDiffer DEF AllOf, Lists
<1>4. "http_headers" \in Lists /\ "parameters" \in Lists
  BY DEF Lists
<1>5. /\ \A k \in Nodes, f \in Fields : <<"http_headers", k, f>> \notin X3
      /\ \A k \in Nodes, f \in Fields : <<"parameters", k, f>> \notin X4
  BY <1>4, SlotsDiffer DEF AllOf
<1>6. Local("cur") \notin O /\ Local("last") \notin O /\ Locals \cap H = {} /\ Locals \cap P = {}
      /\ H \cap P = {}
  BY <1>1, <1>4, SlotsDiffer, SlotKinds DEF AllOf, Locals
<1> HIDE DEF a, b, c, H, P, L1, L2
<1>7. Holds(Tame(tm, O, {}), nhr_string_delete_clean(a), Tame(tm, O \ X1, {}))
  <2>1. O \ {} = O /\ {} \cup {a} = {a} /\ a \in Slots \ {} /\ Root \in O \ {}
    BY <1>1, <1>2
  <2>2. Holds(Tame(tm, O \ {}, {}), nhr_string_delete_clean(a), Tame(tm, O \ ({} \cup {a}), {}))
    BY <1>1, <2>1, MemberHolds DEF a
  <2>3. QED
    BY <2>1, <2>2
<1>8. Holds(Tame(tm, O \ X1, {}), nhr_string_delete_clean(b), Tame(tm, O \ X2, {}))
  <2>1. b \in Slots \ {} /\ Root \in O \ X1
    BY <1>1, <1>2
  <2> HIDE DEF X1
  <2>2. QED
    BY <1>1, <2>1, MemberHolds DEF b
<1>9. Holds(Tame(tm, O \ X2, {}), nhr_string_delete_clean(c), Tame(tm, O \ X3, {}))
  <2>1. c \in Slots \ {} /\ Root \in O \ X2
    BY <1>1, <1>2
  <2> HIDE DEF X2
  <2>2. QED
    BY <1>1, <2>1, MemberHolds DEF c
<1>10. Holds(Tame(tm, O \ X3, {}), L1, Tame(tm, O \ X4, Locals \cup H))
  <2>1. Ends(O \ X3, "http_headers", i) /\ i \in Nat /\ i + 1 \in Nodes
    <3> HIDE DEF X3
    <3>1. QED
      BY <1>4, <1>5, ShapeEnds
  <2>2. /\ O \ X3 \in SUBSET Slots /\ Root \in O \ X3 /\ Local("cur") \notin O \ X3
        /\ Local("last") \notin O \ X3 /\ {} \cap H = {}
    BY <1>1, <1>2, <1>6
  <2>3. (O \ X3) \ H = O \ X4 /\ ({} \cup Locals) \cup H = Locals \cup H
    OBVIOUS
  <2> HIDE DEF X3, X4
  <2>4. Holds(Tame(tm, O \ X3, {}), L1, Tame(tm, (O \ X3) \ H, ({} \cup Locals) \cup H))
    BY <1>4, <2>1, <2>2, DeleteListHolds DEF H, L1, DeleteList
  <2>5. QED
    BY <2>3, <2>4
<1>11. Holds(Tame(tm, O \ X4, Locals \cup H), L2, Tame(tm, O \ X5, (Locals \cup H) \cup P))
  <2>1. Ends(O \ X4, "parameters", j) /\ j \in Nat /\ j + 1 \in Nodes
    <3> HIDE DEF X4
    <3>1. QED
      BY <1>4, <1>5, ShapeEnds
  <2>2. /\ O \ X4 \in SUBSET Slots /\ Root \in O \ X4 /\ Local("cur") \notin O \ X4
        /\ Local("last") \notin O \ X4 /\ (Locals \cup H) \cap P = {}
    BY <1>1, <1>2, <1>3, <1>6
  <2>3. (O \ X4) \ P = O \ X5 /\ ((Locals \cup H) \cup Locals) \cup P = (Locals \cup H) \cup P
    OBVIOUS
  <2> HIDE DEF X4, X5
  <2> DEFINE D == Locals \cup H
  <2> HIDE DEF D
  <2>4. Holds(Tame(tm, O \ X4, D), L2, Tame(tm, (O \ X4) \ P, (D \cup Locals) \cup P))
    BY <1>4, <2>1, <2>2, DeleteListHolds DEF P, L2, D, DeleteList
  <2>5. QED
    BY <2>3, <2>4 DEF D
<1>12. X5 = (({a, b, c}) \cup H) \cup P
  OBVIOUS
<1> HIDE DEF X1, X2, X3, X4, X5
<1>13. Holds(Tame(tm, O, {}), nhr_string_delete_clean(a) \o nhr_string_delete_clean(b), Tame(tm, O \ X2, {}))
  BY <1>7, <1>8, HoldsThen
<1>14. Holds(Tame(tm, O, {}), nhr_string_delete_clean(a) \o nhr_string_delete_clean(b)
                                \o nhr_string_delete_clean(c),
             Tame(tm, O \ X3, {}))
  BY <1>9, <1>13, HoldsThen
<1>15. Holds(Tame(tm, O, {}), nhr_string_delete_clean(a) \o nhr_string_delete_clean(b)
                                \o nhr_string_delete_clean(c) \o L1,
             Tame(tm, O \ X4, Locals \cup H))
  BY <1>10, <1>14, HoldsThen
<1>16. Holds(Tame(tm, O, {}), nhr_string_delete_clean(a) \o nhr_string_delete_clean(b)
                                \o nhr_string_delete_clean(c) \o L1 \o L2,
             Tame(tm, O \ X5, (Locals \cup H) \cup P))
  BY <1>11, <1>15, HoldsThen
<1>17. QED
  BY <1>12, <1>16 DEF a, b, c, H, P, L1, L2

\* The whole of nhr_request_delete: nothing is left.
LEMMA DeleteHolds ==
    ASSUME NEW tm, NEW st, st # "absent", NEW O, Shape(st, O),
           NEW i \in 0 .. MostNodes(st, "http_headers"), Counts(O, "http_headers", i),
           NEW j \in 0 .. MostNodes(st, "parameters"), Counts(O, "parameters", j)
    PROVE  Holds(Tame(tm, O, {}),
                 nhr_string_delete_clean(Member("scheme")) \o nhr_string_delete_clean(Member("host"))
                   \o nhr_string_delete_clean(Member("path"))
                   \o DeleteList("http_headers", i) \o DeleteList("parameters", j)
                   \o nhr_mutex_delete(Member("work_mutex")) \o nhr_mutex_delete(Member("command_mutex"))
                   \o ((IF Member("response") \notin O THEN <<>> ELSE nhr_free(Body))
                         \o nhr_free(Member("response")))
                   \o nhr_string_delete_clean(Member("boundary")) \o nhr_free(Root),
                 Final("released", tm))
<1> DEFINE first == nhr_string_delete_clean(Member("scheme")) \o nhr_string_delete_clean(Member("host"))
                      \o nhr_string_delete_clean(Member("path"))
                      \o DeleteList("http_headers", i) \o DeleteList("parameters", j)
           R == (IF Member("response") \notin O THEN <<>> ELSE nhr_free(Body))
                  \o nhr_free(Member("response"))
           H == AllOf("http_headers")
           P == AllOf("parameters")
           w == Member("work_mutex")
           c == Member("command_mutex")
           r == Member("response")
           b == Member("boundary")
           X1 == ({Member("scheme"), Member("host"), Member("path")} \cup H) \cup P
           D1 == (Locals \cup H) \cup P
           X2 == X1 \cup {w}
           D2 == D1 \cup {w}
           X3 == X2 \cup {c}
           D3 == D2 \cup {c}
           X4 == (X3 \cup {Body}) \cup {r}
           D4 == (D3 \cup {Body}) \cup {r}
           X5 == X4 \cup {b}
           X6 == X5 \cup {Root}
<1>1. O \in SUBSET Slots /\ O \in SUBSET (Slots \ Locals) /\ Root \in O
  BY DEF Shape
<1>2. /\ w \in Slots /\ c \in Slots /\ r \in Slots /\ b \in Slots /\ Root \in Slots
      /\ w # c /\ w # r /\ w # b /\ c # r /\ c # b /\ r # b
      /\ Root \notin {w, c, r, b, Body} /\ Body \notin {w, c, r, b}
  BY SlotKinds, SlotsDiffer
<1>3. \A x : Member(x) \notin H /\ Member(x) \notin P /\ Member(x) \notin Locals
  BY SlotsDiffer DEF AllOf, Lists, Locals
<1>4. /\ Root \notin H /\ Root \notin P /\ Root \notin Locals
      /\ Body \notin H /\ Body \notin P /\ Body \notin Locals
  BY SlotsDiffer DEF AllOf, Lists, Locals
<1>5. /\ Root \notin {Member("scheme"), Member("host"), Member("path")}
      /\ r \notin {Member("scheme"), Member("host"), Member("path")}
  BY SlotsDiffer
<1>6. Holds(Tame(tm, O, {}), first, Tame(tm, O \ X1, D1))
  BY DeleteFirstHolds
<1>7. Root \notin X1 /\ r \notin X1
  BY <1>3, <1>4, <1>5
<1>8. O \subseteq X6
  <2> SUFFICES ASSUME NEW s \in O
               PROVE  s \in X6
    OBVIOUS
  <2>1. s \in Slots /\ s \notin Locals
    BY <1>1
  <2>2. CASE \E x \in Strings \cup {"work_mutex", "command_mutex", "response", "boundary"} : s = Member(x)
    BY <2>2 DEF Strings
  <2>3. CASE \E l \in Lists, k \in Nodes, f \in Fields : s = <<l, k, f>>
    <3>1. s \in H \cup P
      BY <2>1, <2>3 DEF AllOf, Lists
    <3>2. QED
      BY <3>1
  <2>4. QED
    BY <2>1, <2>2, <2>3, SlotCases
<1> HIDE DEF first, R, H, P, X1, D1
<1>9. w \notin D1 /\ c \notin D1 /\ r \notin D1 /\ b \notin D1 /\ Root \notin D1 /\ Body \notin D1
  BY <1>3, <1>4 DEF D1
<1> HIDE DEF w, c, r, b
<1>10. Holds(Tame(tm, O \ X1, D1), nhr_mutex_delete(w), Tame(tm, O \ X2, D2))
  <2>1. w \in Slots \ D1 /\ Root \in O \ X1
    BY <1>1, <1>2, <1>7, <1>9
  <2>2. QED
    BY <1>1, <2>1, MemberHolds DEF w, nhr_mutex_delete
<1>11. Holds(Tame(tm, O \ X2, D2), nhr_mutex_delete(c), Tame(tm, O \ X3, D3))
  <2>1. c \in Slots \ D2 /\ Root \in O \ X2
    BY <1>1, <1>2, <1>7, <1>9
  <2> HIDE DEF X2, D2
  <2>2. QED
    BY <1>1, <2>1, MemberHolds DEF c, nhr_mutex_delete
<1>12. Holds(Tame(tm, O \ X3, D3), R, Tame(tm, O \ X4, D4))
  <2>1. Root \in O \ X3 /\ r \notin X3 /\ Body \notin D3 /\ r \notin D3
    BY <1>1, <1>2, <1>7, <1>9
  <2> HIDE DEF X3, D3
  <2>2. QED
    BY <2>1, ResponseDeleteHolds DEF r, R
<1>13. Holds(Tame(tm, O \ X4, D4), nhr_string_delete_clean(b), Tame(tm, O \ X5, D4))
  <2>1. b \in Slots \ D4 /\ Root \in O \ X4
    BY <1>1, <1>2, <1>7, <1>9
  <2> HIDE DEF X4, D4
  <2>2. QED
    BY <1>1, <2>1, MemberHolds DEF b
<1>14. Holds(Tame(tm, O \ X5, D4), nhr_free(Root), Final("released", tm))
  <2>1. Root \in Slots \ D4 /\ O \ X5 \in SUBSET Slots /\ (O \ X5) \ {Root} = {}
    BY <1>1, <1>2, <1>8, <1>9
  <2> HIDE DEF X5, D4
  <2>2. Holds(Tame(tm, O \ X5, D4), nhr_free(Root), Tame(tm, {}, D4 \cup {Root}))
    BY <2>1, WhereLies, FreeRule
  <2>3. Tame(tm, {}, D4 \cup {Root}) \subseteq Final("released", tm)
    BY DEF Tame, Final
  <2>4. QED
    BY <2>2, <2>3, HoldsWeaker
<1> HIDE DEF X2, X3, X4, X5, X6, D2, D3, D4
<1>15. Holds(Tame(tm, O, {}), first \o nhr_mutex_delete(w), Tame(tm, O \ X2, D2))
  BY <1>6, <1>10, HoldsThen
<1>16. Holds(Tame(tm, O, {}), first \o nhr_mutex_delete(w) \o nhr_mutex_delete(c), Tame(tm, O \ X3, D3))
  BY <1>11, <1>15, HoldsThen
<1>17. Holds(Tame(tm, O, {}), first \o nhr_mutex_delete(w) \o nhr_mutex_delete(c) \o R,
             Tame(tm, O \ X4, D4))
  BY <1>12, <1>16, HoldsThen
<1>18. Holds(Tame(tm, O, {}), first \o nhr_mutex_delete(w) \o nhr_mutex_delete(c) \o R
                                \o nhr_string_delete_clean(b),
             Tame(tm, O \ X5, D4))
  BY <1>13, <1>17, HoldsThen
<1>19. Holds(Tame(tm, O, {}), first \o nhr_mutex_delete(w) \o nhr_mutex_delete(c) \o R
                                \o nhr_string_delete_clean(b) \o nhr_free(Root),
             Final("released", tm))
  BY <1>14, <1>18, HoldsThen
<1>20. QED
  BY <1>19 DEF first, R, w, c, b

-----------------------------------------------------------------------------
(***************************************************************************)
(* From the functions to the steps of the specification.                   *)
(***************************************************************************)

LEMMA LengthIs ==
    ASSUME NEW l, NEW n \in 0 .. MaxNodes + 3, \A i \in Nodes : ptr[Node(l, i)] # Null <=> i <= n
    PROVE  Length(l) = n
<1>1. n \in Nat /\ MaxNodes \in Nat
  BY NodesAssumption
<1>2. {i \in Nodes : ptr[Node(l, i)] # Null} = 1 .. n
  <2>1. \A i \in Nodes : i \in 1 .. n <=> i <= n
    BY <1>1 DEF Nodes
  <2>2. 1 .. n \subseteq Nodes
    BY <1>1 DEF Nodes
  <2>3. QED
    BY <2>1, <2>2
<1>3. Cardinality(1 .. n) = n
  <2>1. Cardinality(1 .. n) = IF 1 > n THEN 0 ELSE n - 1 + 1
    BY <1>1, FS_Interval
  <2>2. QED
    BY <1>1, <2>1
<1>4. QED
  BY <1>2, <1>3 DEF Length

\* Between two calls the memory is final.
LEMMA Between ==
    ASSUME TypeOK, IInv, todo = <<>>
    PROVE  Memory \in Memories /\ Memory \in Final(stage, timed)
<1>1. Memory \in Memories
  BY DEF Memory, Memories, TypeOK
<1>2. PICK q : q \in Outcomes(Memory, todo) /\ q \in Final(stage, timed)
  BY DEF IInv
<1>3. <<>> \in Seq(Dos) /\ Len(<<>>) = 0
  OBVIOUS
<1>4. Leads(Memory, <<>>, q)
  BY <1>2, <1>3, OutcomesArePaths
<1>5. q = Memory
  BY <1>3, <1>4 DEF Leads, Path
<1>6. QED
  BY <1>1, <1>2, <1>5

\* What a function finds when it is called.
LEMMA Found ==
    ASSUME TypeOK, IInv, todo = <<>>, stage # "released"
    PROVE  /\ Shape(stage, Held(Memory))
           /\ [ptr |-> [s \in Slots |-> IF s \in Locals THEN Null ELSE ptr[s]], heap |-> heap]
                \in Tame(timed, Held(Memory), {})
           /\ \A s \in Slots \ Locals : ptr[s] = Null <=> s \notin Held(Memory)
           /\ \A l \in Lists : /\ Length(l) \in 0 .. MostNodes(stage, l)
                               /\ Counts(Held(Memory), l, Length(l))
<1>1. Memory \in Memories /\ Settled(stage, timed, Memory)
  BY Between DEF Final
<1>2. Memory.ptr = ptr /\ Memory.heap = heap
  BY DEF Memory
<1>3. /\ Shape(stage, Held(Memory))
      /\ [ptr |-> [s \in Slots |-> IF s \in Locals THEN Null ELSE Memory.ptr[s]], heap |-> Memory.heap]
           \in Tame(timed, Held(Memory), {})
  BY <1>1, Entry
<1>4. \A s \in Slots \ Locals : ptr[s] = Null <=> s \notin Held(Memory)
  BY <1>2 DEF Held
<1>5. ASSUME NEW l \in Lists
      PROVE  Length(l) \in 0 .. MostNodes(stage, l) /\ Counts(Held(Memory), l, Length(l))
  <2>1. PICK n \in 0 .. MostNodes(stage, l) : Counts(Held(Memory), l, n)
    BY <1>3 DEF Shape
  <2>2. n \in 0 .. MaxNodes + 3
    BY NodesAssumption DEF MostNodes
  <2>3. \A i \in Nodes : ptr[Node(l, i)] # Null <=> i <= n
    BY <1>4, <2>1, NodeSlots DEF Counts
  <2>4. Length(l) = n
    BY <2>2, <2>3, LengthIs
  <2>5. QED
    BY <2>1, <2>4
<1>6. QED
  BY <1>2, <1>3, <1>4, <1>5

\* A function is called whose body holds what the invariant asks for.
LEMMA EnterKeeps ==
    ASSUME TypeOK, IInv, stage # "released", NEW STATE from, NEW to \in Stages, NEW STATE body,
           Enter(from, to, body), timed' \in BOOLEAN,
           timed' => to \in {"inform", "end", "released"},
           Holds(Tame(timed, Held(Memory), {}), body, Final(to, timed'))
    PROVE  TypeOK' /\ IInv'
<1>1. todo = <<>> /\ stage' = to /\ todo' = body /\ heap' = heap
      /\ ptr' = [s \in Slots |-> IF s \in Locals THEN Null ELSE ptr[s]]
  BY DEF Enter
<1>2. body \in Seq(Dos)
  BY DEF Holds
<1>3. TypeOK'
  BY <1>1, <1>2 DEF TypeOK
<1>4. Memory' \in Tame(timed, Held(Memory), {})
  <2>1. Memory' = [ptr |-> [s \in Slots |-> IF s \in Locals THEN Null ELSE ptr[s]], heap |-> heap]
    BY <1>1 DEF Memory
  <2>2. QED
    BY <1>1, <2>1, Found
<1>5. PICK q \in Final(to, timed') : Leads(Memory', body, q)
  BY <1>4 DEF Holds
<1>6. q \in Outcomes(Memory', body)
  BY <1>2, <1>5, OutcomesArePaths
<1>7. q \in Outcomes(Memory', todo') /\ q \in Final(stage', timed')
  BY <1>1, <1>5, <1>6
<1>8. QED
  BY <1>1, <1>3, <1>7 DEF IInv

\* The same when the timeout is not at stake.
LEMMA CallKeeps ==
    ASSUME TypeOK, IInv, stage # "released", NEW STATE from, NEW to \in Stages, NEW STATE body,
           Call(from, to, body), timed => to \in {"inform", "end", "released"},
           Holds(Tame(timed, Held(Memory), {}), body, Final(to, timed))
    PROVE  TypeOK' /\ IInv'
<1>1. Enter(from, to, body) /\ timed' = timed /\ timed \in BOOLEAN
  BY DEF Call, TypeOK
<1>2. Holds(Tame(timed, Held(Memory), {}), body, Final(to, timed'))
  BY <1>1
<1>3. QED
  BY <1>1, <1>2, EnterKeeps

\* The running function goes on.
LEMMA RunKeeps ==
    ASSUME TypeOK, IInv, Run
    PROVE  TypeOK' /\ IInv'
<1>1. todo \in Seq(Dos) /\ todo # <<>> /\ todo' = Tail(todo) /\ stage' = stage /\ timed' = timed
  BY DEF Run, TypeOK
<1>2. PICK q : q \in Outcomes(Memory, todo) /\ q \in Final(stage, timed)
  BY DEF IInv
<1>3. Leads(Memory, todo, q)
  BY <1>1, <1>2, OutcomesArePaths
<1> DEFINE m == After(Memory, Head(todo))
<1>4. m \in Memories /\ Tail(todo) \in Seq(Dos) /\ Leads(m, Tail(todo), q)
  BY <1>1, <1>3, LeadsFirst
<1>5. ptr' = m.ptr /\ heap' = m.heap
  BY DEF Run
<1> HIDE DEF m
<1>6. Memory' = m
  BY <1>4, <1>5 DEF Memory, Memories
<1>7. TypeOK'
  BY <1>1, <1>4, <1>5 DEF TypeOK, Memories
<1>8. q \in Outcomes(m, Tail(todo))
  BY <1>4, OutcomesArePaths
<1>9. q \in Outcomes(Memory', todo') /\ q \in Final(stage', timed')
  BY <1>1, <1>2, <1>6, <1>8
<1>10. QED
  BY <1>1, <1>7, <1>9 DEF IInv

-----------------------------------------------------------------------------
(***************************************************************************)
(* The inductive invariant.                                                *)
(***************************************************************************)

LEMMA InitInvariant ==
    ASSUME Init
    PROVE  TypeOK /\ IInv
<1>1. /\ stage = "absent" /\ timed = FALSE /\ heap = {} /\ todo = <<>>
      /\ ptr = [s \in Slots |-> Null]
  BY DEF Init
<1>2. TypeOK
  <2>1. stage \in Stages /\ heap \in SUBSET Blocks /\ ptr \in [Slots -> Blocks \cup {Null}]
    BY <1>1 DEF Stages
  <2>2. <<>> \in Seq(Dos)
    OBVIOUS
  <2>3. timed \in BOOLEAN
    BY <1>1
  <2>4. QED
    BY <1>1, <2>1, <2>2, <2>3 DEF TypeOK
<1>3. Memory \in Memories /\ Memory.ptr = ptr /\ Memory.heap = {}
  BY <1>1 DEF Memory, Memories
<1>4. Held(Memory) = {}
  BY <1>1, <1>3 DEF Held
<1>5. ASSUME NEW l \in Lists
      PROVE  \E n \in 0 .. MostNodes("absent", l) :
               \A i \in Nodes : Memory.ptr[Node(l, i)] # Null <=> i <= n
  <2>1. 0 \in 0 .. MostNodes("absent", l)
    BY NodesAssumption DEF MostNodes
  <2>2. \A i \in Nodes : ~(i <= 0)
    BY DEF Nodes
  <2>3. \A i \in Nodes : Memory.ptr[Node(l, i)] = Null
    BY <1>1, <1>3, NodeSlots
  <2>4. QED
    BY <2>1, <2>2, <2>3
<1>6. Memory.ptr[Root] = Null
  BY <1>1, <1>3, SlotKinds
<1>7. Settled("absent", FALSE, Memory)
  BY <1>3, <1>4, <1>5, <1>6 DEF Settled
<1>8. Memory \in Final(stage, timed)
  BY <1>1, <1>3, <1>7 DEF Final
<1>9. {Memory} \in SUBSET Memories
  BY <1>3
<1>10. Holds({Memory}, <<>>, {Memory})
  BY <1>9, HoldsNone
<1>11. <<>> \in Seq(Dos) /\ Leads(Memory, <<>>, Memory)
  BY <1>10 DEF Holds
<1>12. Memory \in Outcomes(Memory, todo)
  BY <1>1, <1>11, OutcomesArePaths
<1>13. QED
  BY <1>1, <1>2, <1>8, <1>12 DEF IInv

\* The functions that the client calls before it sends the request.
LEMMA ConfiguringKeeps ==
    ASSUME TypeOK, IInv, Configuring
    PROVE  TypeOK' /\ IInv'
<1> DEFINE O == Held(Memory)
<1>1. stage \in {"absent", "configure"} /\ todo = <<>> /\ stage # "released" /\ timed = FALSE
  BY DEF Configuring, nhr_request_create, nhr_request_set_url, nhr_request_add_header_field,
         nhr_request_add_parameter, nhr_request_add_data_parameter, nhr_request_send, Call, Enter,
         TypeOK, IInv
<1>2. /\ Shape(stage, O)
      /\ \A s \in Slots \ Locals : ptr[s] = Null <=> s \notin O
      /\ \A l \in Lists : Length(l) \in 0 .. MostNodes(stage, l) /\ Counts(O, l, Length(l))
  BY <1>1, Found
<1> HIDE DEF O
<1>3. CASE nhr_request_create
  <2> DEFINE body == nhr_malloc_zero(Root) \o nhr_mutex_create_recursive(Member("work_mutex"))
                       \o nhr_mutex_create_recursive(Member("command_mutex"))
  <2>1. Call("absent", "configure", body) /\ stage = "absent" /\ "configure" \in Stages
    BY <1>3 DEF nhr_request_create, Call, Enter, Stages
  <2>2. Holds(Tame(timed, O, {}), body, Final("configure", timed))
    BY <1>1, <1>2, <2>1, CreateHolds
  <2> HIDE DEF body
  <2>3. QED
    BY <1>1, <2>1, <2>2, CallKeeps DEF O
<1>4. CASE nhr_request_set_url
  <2>1. PICK given \in SUBSET Strings :
          Call("configure", "configure",
               set_string("scheme", "scheme" \in given) \o set_string("host", "host" \in given)
                 \o set_string("path", "path" \in given))
    BY <1>4 DEF nhr_request_set_url
  <2> DEFINE body == set_string("scheme", "scheme" \in given) \o set_string("host", "host" \in given)
                       \o set_string("path", "path" \in given)
  <2>2. Call("configure", "configure", body) /\ stage = "configure" /\ "configure" \in Stages
    BY <2>1 DEF Call, Enter, Stages
  <2>3. Holds(Tame(timed, O, {}), body, Final("configure", timed))
    BY <1>1, <1>2, <2>2, SetUrlHolds
  <2> HIDE DEF body
  <2>4. QED
    BY <1>1, <2>2, <2>3, CallKeeps DEF O
<1>5. ASSUME NEW l \in Lists, Length(l) < MaxNodes,
             Call("configure", "configure", add_strings(l, Length(l) + 1))
      PROVE  TypeOK' /\ IInv'
  <2>1. stage = "configure" /\ "configure" \in Stages
    BY <1>5 DEF Call, Enter, Stages
  <2>2. Length(l) \in 0 .. MaxNodes - 1 /\ Counts(O, l, Length(l))
    BY <1>2, <1>5, NodesAssumption DEF MostNodes
  <2>3. Holds(Tame(timed, O, {}), add_strings(l, Length(l) + 1), Final("configure", timed))
    BY <1>2, <2>1, <2>2, AddHolds
  <2>4. QED
    BY <1>1, <1>5, <2>1, <2>3, CallKeeps DEF O
<1>6. CASE nhr_request_add_header_field
  BY <1>5, <1>6 DEF nhr_request_add_header_field, Lists
<1>7. CASE nhr_request_add_parameter
  BY <1>5, <1>7 DEF nhr_request_add_parameter, Lists
<1>8. CASE nhr_request_add_data_parameter
  <2> DEFINE n == Length("parameters")
             body == nhr_malloc_zero(Local("_data")) \o nhr_malloc_zero(Node("parameters", n + 1))
                       \o nhr_malloc_zero(<<"parameters", n + 1, "key">>)
                       \o nhr_malloc_zero(<<"parameters", n + 1, "reserved">>)
                       \o Copy(<<"parameters", n + 1, "value">>, Local("_data"))
                       \o IF Member("boundary") \notin O THEN nhr_request_generate_new_boundary ELSE <<>>
  <2>1. Member("boundary") \in Slots \ Locals /\ "parameters" \in Lists
    BY SlotKinds DEF Lists
  <2>2. ptr[Member("boundary")] = Null <=> Member("boundary") \notin O
    BY <1>2, <2>1
  <2>3. n < MaxNodes /\ Call("configure", "configure", body)
    BY <1>8, <2>2 DEF nhr_request_add_data_parameter
  <2>4. stage = "configure" /\ "configure" \in Stages
    BY <2>3 DEF Call, Enter, Stages
  <2>5. n \in 0 .. MaxNodes - 1 /\ Counts(O, "parameters", n)
    BY <1>2, <2>1, <2>3, NodesAssumption DEF MostNodes
  <2>6. Holds(Tame(timed, O, {}), body, Final("configure", timed))
    BY <1>2, <2>4, <2>5, AddDataHolds
  <2> HIDE DEF body
  <2>7. QED
    BY <1>1, <2>3, <2>4, <2>6, CallKeeps DEF O
<1>9. CASE nhr_request_send
  <2>1. Call("configure", "connect", <<>>) /\ stage = "configure" /\ "connect" \in Stages
    BY <1>9 DEF nhr_request_send, Call, Enter, Stages
  <2>2. Shape("connect", O)
    BY <1>2, <2>1, LaterShape
  <2>3. Holds(Tame(timed, O, {}), <<>>, Final("connect", timed))
    BY <2>2, IdleHolds
  <2>4. QED
    BY <1>1, <2>1, <2>3, CallKeeps DEF O
<1>10. QED
  BY <1>3, <1>4, <1>6, <1>7, <1>8, <1>9 DEF Configuring

\* The handlers of the work thread.
LEMMA WorkingKeeps ==
    ASSUME TypeOK, IInv, Working
    PROVE  TypeOK' /\ IInv'
<1> DEFINE O == Held(Memory)
<1>1. todo = <<>> /\ stage # "released" /\ stage \in {"connect", "send", "receive", "inform"}
  BY DEF Working, connect_unresolved, nhr_request_connect_to_host, connect_timeout,
         nhr_request_create_header_GET, nhr_request_create_header_POST, nhr_response_create,
         nhr_response_append, wait_ends, callback, Call, Enter
<1>2. /\ Shape(stage, O)
      /\ \A s \in Slots \ Locals : ptr[s] = Null <=> s \notin O
      /\ \A l \in Lists : Length(l) \in 0 .. MostNodes(stage, l) /\ Counts(O, l, Length(l))
  BY <1>1, Found
<1>3. timed \in BOOLEAN /\ (stage \in {"connect", "send", "receive"} => timed = FALSE)
  BY DEF TypeOK, IInv
<1>4. Stages = {"absent", "configure", "connect", "send", "receive", "inform", "end", "released"}
  BY DEF Stages
<1>5. Member("response") \in Slots \ Locals /\ Body \in Slots \ Locals
  BY SlotKinds
<1> HIDE DEF O
<1>6. CASE connect_unresolved \/ wait_ends
  <2>1. stage \in {"connect", "receive"} /\ Call(stage, "inform", <<>>)
    BY <1>6 DEF connect_unresolved, wait_ends, Call, Enter
  <2>2. Shape("inform", O)
    BY <1>2, <2>1, LaterShape
  <2>3. Holds(Tame(timed, O, {}), <<>>, Final("inform", timed))
    BY <2>2, IdleHolds
  <2>4. QED
    BY <1>1, <1>4, <2>1, <2>3, CallKeeps DEF O
<1>7. CASE nhr_request_connect_to_host
  <2>1. stage = "connect" /\ timed = FALSE
    BY <1>3, <1>7 DEF nhr_request_connect_to_host, Call, Enter
  <2>2. Holds(Tame(timed, O, {}), connect_body, Final("send", timed))
        /\ Holds(Tame(timed, O, {}), connect_body, Final("inform", timed))
    BY <1>2, <2>1, ConnectHolds
  <2>3. CASE Call("connect", "send", connect_body)
    BY <1>1, <1>4, <2>1, <2>2, <2>3, CallKeeps DEF O
  <2>4. CASE Call("connect", "inform", connect_body)
    BY <1>1, <1>4, <2>1, <2>2, <2>4, CallKeeps DEF O
  <2>5. QED
    BY <1>7, <2>3, <2>4 DEF nhr_request_connect_to_host
<1>8. CASE connect_timeout
  <2>1. stage = "connect" /\ timed = FALSE /\ timed' = TRUE
        /\ Enter("connect", "inform", nhr_malloc_zero(Local("result")))
    BY <1>3, <1>8 DEF connect_timeout, Enter
  <2>2. Holds(Tame(timed, O, {}), nhr_malloc_zero(Local("result")), Final("inform", timed'))
    BY <1>2, <2>1, TimeoutHolds
  <2>3. timed' \in BOOLEAN
    BY <2>1
  <2>4. QED
    BY <1>1, <1>4, <2>1, <2>2, <2>3, EnterKeeps DEF O
<1>9. CASE nhr_request_create_header_GET
  <2> DEFINE fields == Length("http_headers") > 0
             params == Length("parameters") > 0
             body == http_headers(fields)
                       \o (IF params THEN nhr_malloc_zero(Local("parameters")) ELSE <<>>)
                       \o send_message
  <2>1. stage = "send" /\ timed = FALSE /\ Call("send", "receive", body)
    BY <1>3, <1>9 DEF nhr_request_create_header_GET, Call, Enter
  <2>2. Shape("send", O)
    BY <1>2, <2>1
  <2> HIDE DEF fields, params
  <2>3. Holds(Tame(timed, O, {}), body, Final("receive", timed))
    BY <2>2, GetHolds
  <2> HIDE DEF body
  <2>4. QED
    BY <1>1, <1>4, <2>1, <2>3, CallKeeps DEF O
<1>10. CASE nhr_request_create_header_POST
  <2> DEFINE n == Length("http_headers")
             fields == n > 0
             plain == http_headers(fields) \o send_message
             full(packed) == nhr_malloc_zero(Local("parameters"))
                               \o (IF packed THEN compressed ELSE <<>>)
                               \o (add_strings("http_headers", n + 1) \o add_strings("http_headers", n + 2))
                               \o http_headers(TRUE) \o send_message
  <2>1. PICK packed \in BOOLEAN :
          Call("send", "receive", IF Length("parameters") = 0 THEN plain ELSE full(packed))
    BY <1>10 DEF nhr_request_create_header_POST
  <2>2. stage = "send" /\ timed = FALSE
    BY <1>3, <2>1 DEF Call, Enter
  <2>3. Shape("send", O) /\ n \in 0 .. MaxNodes /\ Counts(O, "http_headers", n)
    BY <1>2, <2>2 DEF Lists, MostNodes
  <2> HIDE DEF n
  <2>4. CASE Length("parameters") = 0
    <3>1. Call("send", "receive", plain)
      BY <2>1, <2>4
    <3> HIDE DEF fields
    <3>2. Holds(Tame(timed, O, {}), plain, Final("receive", timed))
      BY <2>3, PlainPostHolds
    <3> HIDE DEF plain
    <3>3. QED
      BY <1>1, <1>4, <2>2, <3>1, <3>2, CallKeeps DEF O
  <2>5. CASE Length("parameters") # 0
    <3>1. Call("send", "receive", full(packed))
      BY <2>1, <2>5
    <3>2. Holds(Tame(timed, O, {}), full(packed), Final("receive", timed))
      BY <2>3, PostHolds
    <3> DEFINE body == full(packed)
    <3> HIDE DEF body
    <3>3. Call("send", "receive", body) /\ Holds(Tame(timed, O, {}), body, Final("receive", timed))
      BY <3>1, <3>2 DEF body
    <3>4. QED
      BY <1>1, <1>4, <2>2, <3>3, CallKeeps DEF O
  <2>6. QED
    BY <2>4, <2>5
<1>11. CASE nhr_response_create
  <2>1. PICK full \in BOOLEAN, unzip \in BOOLEAN :
          /\ unzip => full
          /\ Call("receive", "receive",
                  nhr_malloc_zero(Member("response")) \o (IF full THEN nhr_malloc_zero(Body) ELSE <<>>)
                    \o check_is_finished(unzip))
    BY <1>11 DEF nhr_response_create
  <2> DEFINE body == nhr_malloc_zero(Member("response"))
                       \o (IF full THEN nhr_malloc_zero(Body) ELSE <<>>) \o check_is_finished(unzip)
  <2>2. stage = "receive" /\ timed = FALSE /\ Call("receive", "receive", body)
    BY <1>3, <2>1 DEF Call, Enter
  <2>3. Shape("receive", O) /\ Member("response") \notin O
    BY <1>2, <1>5, <1>11, <2>2 DEF nhr_response_create
  <2>4. Holds(Tame(timed, O, {}), body, Final("receive", timed))
    BY <2>1, <2>3, ResponseCreateHolds
  <2> HIDE DEF body
  <2>5. QED
    BY <1>1, <1>4, <2>2, <2>4, CallKeeps DEF O
<1>12. CASE nhr_response_append
  <2>1. PICK grows \in BOOLEAN, unzip \in BOOLEAN :
          /\ unzip => grows \/ ptr[Body] # Null
          /\ Call("receive", "receive",
                  (IF grows THEN nhr_realloc(Body) ELSE Read(Body)) \o check_is_finished(unzip))
    BY <1>12 DEF nhr_response_append
  <2> DEFINE body == (IF grows THEN nhr_realloc(Body) ELSE Read(Body)) \o check_is_finished(unzip)
  <2>2. stage = "receive" /\ timed = FALSE /\ Call("receive", "receive", body)
    BY <1>3, <2>1 DEF Call, Enter
  <2>3. Shape("receive", O) /\ Member("response") \in O /\ (unzip => grows \/ Body \in O)
    BY <1>2, <1>5, <1>12, <2>1, <2>2 DEF nhr_response_append
  <2>4. Holds(Tame(timed, O, {}), body, Final("receive", timed))
    BY <2>3, ResponseAppendHolds
  <2> HIDE DEF body
  <2>5. QED
    BY <1>1, <1>4, <2>2, <2>4, CallKeeps DEF O
<1>13. CASE callback
  <2> DEFINE body == IF Member("response") \notin O THEN <<>> ELSE Read(Body)
  <2>1. ptr[Member("response")] = Null <=> Member("response") \notin O
    BY <1>2, <1>5
  <2>2. stage = "inform" /\ Call("inform", "end", body)
    BY <1>13, <2>1 DEF callback, Call, Enter
  <2>3. Holds(Tame(timed, O, {}), body, Final("end", timed))
    BY <1>2, <2>2, CallbackHolds
  <2> HIDE DEF body
  <2>4. QED
    BY <1>1, <1>4, <2>2, <2>3, CallKeeps DEF O
<1>14. QED
  BY <1>6, <1>7, <1>8, <1>9, <1>10, <1>11, <1>12, <1>13 DEF Working

\* nhr_request_delete, at whichever stage.
LEMMA DeleteKeeps ==
    ASSUME TypeOK, IInv, nhr_request_delete
    PROVE  TypeOK' /\ IInv'
<1> DEFINE O == Held(Memory)
           i == Length("http_headers")
           j == Length("parameters")
           body == nhr_string_delete_clean(Member("scheme")) \o nhr_string_delete_clean(Member("host"))
                     \o nhr_string_delete_clean(Member("path"))
                     \o DeleteList("http_headers", i) \o DeleteList("parameters", j)
                     \o nhr_mutex_delete(Member("work_mutex")) \o nhr_mutex_delete(Member("command_mutex"))
                     \o ((IF Member("response") \notin O THEN <<>> ELSE nhr_free(Body))
                           \o nhr_free(Member("response")))
                     \o nhr_string_delete_clean(Member("boundary")) \o nhr_free(Root)
<1>1. todo = <<>> /\ stage # "released" /\ stage # "absent" /\ "released" \in Stages
  BY DEF nhr_request_delete, Call, Enter, Stages
<1>2. /\ Shape(stage, O)
      /\ \A s \in Slots \ Locals : ptr[s] = Null <=> s \notin O
      /\ \A l \in Lists : Length(l) \in 0 .. MostNodes(stage, l) /\ Counts(O, l, Length(l))
  BY <1>1, Found
<1>3. Member("response") \in Slots \ Locals
  BY SlotKinds
<1> HIDE DEF O
<1>4. nhr_response_delete = (IF Member("response") \notin O THEN <<>> ELSE nhr_free(Body))
                              \o nhr_free(Member("response"))
  BY <1>2, <1>3 DEF nhr_response_delete
<1>5. nhr_map_delete_clean("http_headers") = DeleteList("http_headers", i)
      /\ nhr_map_delete_clean("parameters") = DeleteList("parameters", j)
  BY DEF nhr_map_delete_clean, DeleteList, Turns
<1>6. Call(stage, "released", body)
  BY <1>4, <1>5 DEF nhr_request_delete
<1>7. i \in 0 .. MostNodes(stage, "http_headers") /\ Counts(O, "http_headers", i)
      /\ j \in 0 .. MostNodes(stage, "parameters") /\ Counts(O, "parameters", j)
  BY <1>2 DEF Lists
<1> HIDE DEF i, j
<1>8. Holds(Tame(timed, O, {}), body, Final("released", timed))
  BY <1>1, <1>2, <1>7, DeleteHolds
<1> HIDE DEF body
<1>9. QED
  BY <1>1, <1>6, <1>8, CallKeeps DEF O

\* The invariant is inductive: every call starts a function that is harmless to
\* its end, and every step of a function leaves the rest of it so.
THEOREM Invariance == Spec => [](TypeOK /\ IInv)
<1>1. Init => TypeOK /\ IInv
  BY InitInvariant
<1>2. (TypeOK /\ IInv) /\ [Next]_vars => (TypeOK /\ IInv)'
  <2> SUFFICES ASSUME TypeOK, IInv, [Next]_vars
               PROVE  TypeOK' /\ IInv'
    OBVIOUS
  <2>1. CASE Run
    BY <2>1, RunKeeps
  <2>2. CASE Configuring
    BY <2>2, ConfiguringKeeps
  <2>3. CASE Working
    BY <2>3, WorkingKeeps
  <2>4. CASE nhr_request_delete
    BY <2>4, DeleteKeeps
  <2>5. CASE UNCHANGED vars \/ Terminating
    <3>1. UNCHANGED <<stage, timed, ptr, heap, todo>>
      BY <2>5 DEF vars, Terminating
    <3>2. Memory' = Memory
      BY <3>1 DEF Memory
    <3>3. QED
      BY <3>1, <3>2 DEF TypeOK, IInv
  <2>6. QED
    BY <2>1, <2>2, <2>3, <2>4, <2>5 DEF Next
<1>3. QED
  BY <1>1, <1>2, PTL DEF Spec

-----------------------------------------------------------------------------
(***************************************************************************)
(* What follows from it.                                                   *)
(***************************************************************************)

\* The names of the blocks never run out, and a function only does what the model
\* knows to slots that there are: the types of all that NhrMemory keeps.
THEOREM TypeCorrect == Spec => []TypeOK
<1>1. TypeOK /\ IInv => TypeOK
  OBVIOUS
<1>2. QED
  BY <1>1, Invariance, PTL

\* What is left of a function is harmless to its end, and leaves a settled memory.
THEOREM Completion == Spec => []IInv
<1>1. TypeOK /\ IInv => IInv
  OBVIOUS
<1>2. QED
  BY <1>1, Invariance, PTL

\* No block is freed twice, read after it was freed or reached through one that is
\* gone, in whichever stage nhr_request_delete finds the request and however long
\* its lists are.
THEOREM MemorySafety == Spec => []NoDanglingAccess
<1>1. TypeOK /\ IInv => NoDanglingAccess
  <2> SUFFICES ASSUME TypeOK, IInv, todo # <<>>
               PROVE  Harmless(Memory, Head(todo))
    BY DEF NoDanglingAccess
  <2>1. todo \in Seq(Dos)
    BY DEF TypeOK
  <2>2. PICK q : q \in Outcomes(Memory, todo)
    BY DEF IInv
  <2>3. Leads(Memory, todo, q)
    BY <2>1, <2>2, OutcomesArePaths
  <2>4. QED
    BY <2>1, <2>3, LeadsFirst
<1>2. QED
  BY <1>1, Invariance, PTL

\* Between two calls a pointer of the request, its lists or its response is NULL or
\* the only one to a live block.
THEOREM Ownership == Spec => []OneOwner
<1>1. TypeOK /\ IInv => OneOwner
  <2> SUFFICES ASSUME TypeOK, IInv, todo = <<>>, stage # "released"
               PROVE  /\ \A b \in heap : Cardinality(Owners(b)) <= 1
                      /\ \A s \in Slots \ Locals : Reachable(s) => ptr[s] \in heap \cup {Null}
    BY DEF OneOwner
  <2>1. Settled(stage, timed, Memory)
    BY Between DEF Final
  <2>2. Memory.ptr = ptr /\ Memory.heap = heap
    BY DEF Memory
  <2>3. \A s \in Slots \ Locals : s \in Held(Memory) <=> ptr[s] # Null
    BY <2>2 DEF Held
  <2>4. \A s \in Held(Memory) : ptr[s] \in heap /\ \A u \in Held(Memory) : ptr[u] = ptr[s] => u = s
    BY <2>1, <2>2 DEF Settled
  <2>5. ASSUME NEW b \in heap
        PROVE  Cardinality(Owners(b)) <= 1
    <3>1. b # Null
      BY NullAssumption DEF TypeOK
    <3>2. Owners(b) \subseteq Held(Memory) /\ \A s \in Owners(b) : ptr[s] = b
      BY <2>3, <3>1 DEF Owners
    <3>3. \A s, u \in Owners(b) : s = u
      BY <2>4, <3>2
    <3>4. CASE Owners(b) = {}
      BY <3>4, FS_EmptySet
    <3>5. CASE Owners(b) # {}
      <4>1. PICK s : s \in Owners(b)
        BY <3>5
      <4>2. Owners(b) = {s}
        BY <3>3, <4>1
      <4>3. Cardinality({s}) = 1
        BY FS_Singleton
      <4>4. QED
        BY <4>2, <4>3
    <3>6. QED
      BY <3>4, <3>5
  <2>6. QED
    BY <2>3, <2>4, <2>5
<1>2. QED
  BY <1>1, Invariance, PTL

\* When a function returns, every block has an owner, and after nhr_request_delete
\* there is none left, but for the address list of a connection that timed out.
THEOREM NoLeaks == Spec => []NothingLost
<1>1. TypeOK /\ IInv => NothingLost
  <2> SUFFICES ASSUME TypeOK, IInv, todo = <<>>, NEW b \in heap
               PROVE  Owners(b) # {} \/ Leaked(timed, b)
    BY DEF NothingLost
  <2>1. Memory \in Final(stage, timed) /\ Memory.ptr = ptr /\ Memory.heap = heap
    BY Between DEF Memory
  <2>2. CASE stage = "released"
    BY <2>1, <2>2 DEF Final
  <2>3. CASE stage # "released"
    <3>1. Settled(stage, timed, Memory)
      BY <2>1, <2>3 DEF Final
    <3>2. CASE ~Leaked(timed, b)
      <4>1. PICK s \in Held(Memory) : Memory.ptr[s] = b
        BY <2>1, <3>1, <3>2 DEF Settled
      <4>2. Within(Memory, s) /\ s \in Slots \ Locals
        BY <3>1 DEF Settled, Held
      <4>3. s \in Owners(b)
        BY <2>1, <4>1, <4>2 DEF Owners, Reachable
      <4>4. QED
        BY <4>3
    <3>3. QED
      BY <3>2
  <2>4. QED
    BY <2>2, <2>3
<1>2. QED
  BY <1>1, Invariance, PTL
=============================================================================
