--------------------------- MODULE NhrResponseProofs ---------------------------
(***************************************************************************)
(* Theorems about the assembly of a response: types and the block of the   *)
(* body for every message, every cut and anything left in the buffer, and  *)
(* the content for messages of any size, any number of chunks and any way  *)
(* to cut them into segments that Setting allows.                          *)
(***************************************************************************)
EXTENDS NhrResponse, ListLemmas

USE DEF MessageType

-----------------------------------------------------------------------------
(***************************************************************************)
(* The message on the wire.                                                *)
(***************************************************************************)

\* The literals of the message.
LEMMA Literals ==
    /\ CRLF \in Seq(Octets) /\ Len(CRLF) = 2 /\ CRLF[1] = "cr" /\ CRLF[2] = "lf"
    /\ Header \in Seq(Octets) /\ Len(Header) = 3 /\ Header[2] = "fields" /\ Header[3] = "blank"
<1>1. {"cr", "lf", "status", "fields", "blank"} \subseteq Octets
  BY DEF Octets
<1>2. ASSUME NEW a \in Octets, NEW b \in Octets, NEW c \in Octets
      PROVE  <<a, b>> \in Seq(Octets) /\ <<a, b, c>> \in Seq(Octets)
  OBVIOUS
<1>3. <<"cr", "lf">> \in Seq(Octets) /\ <<"status", "fields", "blank">> \in Seq(Octets)
  BY <1>1, <1>2, Zenon
<1>4. Len(<<"cr", "lf">>) = 2 /\ <<"cr", "lf">>[1] = "cr" /\ <<"cr", "lf">>[2] = "lf"
  OBVIOUS
<1>5. /\ Len(<<"status", "fields", "blank">>) = 3
      /\ <<"status", "fields", "blank">>[2] = "fields"
      /\ <<"status", "fields", "blank">>[3] = "blank"
  OBVIOUS
<1>6. QED
  BY <1>3, <1>4, <1>5 DEF CRLF, Header

\* The two line ends that the parser looks for behind the last chunk.
LEMMA EndOfChunks == CRLF \o CRLF = <<"cr", "lf", "cr", "lf">>
<1> DEFINE w == CRLF \o CRLF
           t == <<"cr", "lf", "cr", "lf">>
<1>1. CRLF \in Seq(Octets) /\ Len(CRLF) = 2 /\ CRLF[1] = "cr" /\ CRLF[2] = "lf"
  BY Literals
<1>2. w \in Seq(Octets) /\ Len(w) = 4 /\ w[1] = "cr" /\ w[2] = "lf" /\ w[3] = "cr" /\ w[4] = "lf"
  <2>1. w = CRLF \o CRLF
    OBVIOUS
  <2> HIDE DEF w
  <2>2. /\ w \in Seq(Octets) /\ Len(w) = Len(CRLF) + Len(CRLF)
        /\ \A i \in 1 .. Len(CRLF) : w[i] = CRLF[i]
        /\ \A i \in 1 .. Len(CRLF) : w[Len(CRLF) + i] = CRLF[i]
    <3>1. CRLF \in Seq(Octets)
      BY <1>1
    <3>2. QED
      BY <2>1, <3>1, ConcatMembers
  <2>3. QED
    BY <1>1, <2>2
<1>3. t \in Seq(Octets) /\ Len(t) = 4 /\ t[1] = "cr" /\ t[2] = "lf" /\ t[3] = "cr" /\ t[4] = "lf"
  BY DEF Octets
<1> HIDE DEF w, t
<1>4. \A i \in 1 .. 4 : i = 1 \/ i = 2 \/ i = 3 \/ i = 4
  OBVIOUS
<1>5. w = t
  BY <1>2, <1>3, <1>4, SameMembers
<1>6. QED
  BY <1>5 DEF w, t

\* The parts of a message are sequences of bytes.
LEMMA FrameTypes ==
    ASSUME NEW m \in MessageType
    PROVE  /\ Len(m.frames) \in Nat
           /\ FrameBytes(m) \in Seq(Seq(Octets)) /\ Len(FrameBytes(m)) = Len(m.frames)
           /\ FrameData(m) \in Seq(Seq(Octets)) /\ Len(FrameData(m)) = Len(m.frames)
           /\ \A i \in 1 .. Len(m.frames) :
                /\ m.frames[i].size \in Seq(Octets) /\ m.frames[i].data \in Seq(Octets)
                /\ FrameBytes(m)[i] = IF m.chunked
                                      THEN m.frames[i].size \o CRLF \o m.frames[i].data \o CRLF
                                      ELSE m.frames[i].data
                /\ FrameData(m)[i] = m.frames[i].data
<1>1. m.frames \in Seq([size : Seq(Octets), data : Seq(Octets)])
  OBVIOUS
<1>2. Len(m.frames) \in Nat
  BY <1>1
<1>3. \A i \in 1 .. Len(m.frames) :
        m.frames[i].size \in Seq(Octets) /\ m.frames[i].data \in Seq(Octets)
  <2>1. ASSUME NEW i \in 1 .. Len(m.frames)
        PROVE  m.frames[i] \in [size : Seq(Octets), data : Seq(Octets)]
    BY <1>1, MemberOf
  <2>2. QED
    BY <2>1
<1>4. CRLF \in Seq(Octets)
  BY Literals
<1>5. \A i \in 1 .. Len(m.frames) :
        m.frames[i].size \o CRLF \o m.frames[i].data \o CRLF \in Seq(Octets)
  BY <1>3, <1>4
<1>6. FrameBytes(m) \in Seq(Seq(Octets)) /\ Len(FrameBytes(m)) = Len(m.frames)
  <2>1. \A i \in 1 .. Len(m.frames) :
          (IF m.chunked THEN m.frames[i].size \o CRLF \o m.frames[i].data \o CRLF
           ELSE m.frames[i].data) \in Seq(Octets)
    BY <1>3, <1>5
  <2>2. QED
    BY <1>2, <2>1 DEF FrameBytes
<1>7. FrameData(m) \in Seq(Seq(Octets)) /\ Len(FrameData(m)) = Len(m.frames)
  BY <1>2, <1>3 DEF FrameData
<1>8. QED
  BY <1>2, <1>3, <1>6, <1>7 DEF FrameBytes, FrameData

\* The first frames, one after the other.
LEMMA FramesStep ==
    ASSUME NEW m \in MessageType
    PROVE  /\ FirstFrames(m, 0) = <<>>
           /\ \A k \in 0 .. Len(m.frames) : FirstFrames(m, k) \in Seq(Octets)
           /\ \A k \in 1 .. Len(m.frames) :
                FirstFrames(m, k) = FirstFrames(m, k - 1) \o FrameBytes(m)[k]
           /\ FirstFrames(m, Len(m.frames)) = FlattenSeq(FrameBytes(m))
BY FrameTypes, FlattenFirst DEF FirstFrames

\* The data of the first frames, one after the other.
LEMMA DataStep ==
    ASSUME NEW m \in MessageType
    PROVE  /\ FirstData(m, 0) = <<>>
           /\ \A k \in 0 .. Len(m.frames) : FirstData(m, k) \in Seq(Octets)
           /\ \A k \in 1 .. Len(m.frames) :
                FirstData(m, k) = FirstData(m, k - 1) \o m.frames[k].data
           /\ FirstData(m, Len(m.frames)) = FlattenSeq(FrameData(m))
<1>1. /\ FrameData(m) \in Seq(Seq(Octets)) /\ Len(FrameData(m)) = Len(m.frames)
      /\ \A i \in 1 .. Len(m.frames) : FrameData(m)[i] = m.frames[i].data
  BY FrameTypes
<1>2. /\ FirstData(m, 0) = <<>>
      /\ \A k \in 0 .. Len(m.frames) : FirstData(m, k) \in Seq(Octets)
      /\ \A k \in 1 .. Len(m.frames) :
           FirstData(m, k) = FirstData(m, k - 1) \o FrameData(m)[k]
      /\ FirstData(m, Len(m.frames)) = FlattenSeq(FrameData(m))
  BY <1>1, FlattenFirst DEF FirstData
<1>3. QED
  BY <1>1, <1>2

\* The message begins with the header, whose bytes are known.
LEMMA WireStart ==
    ASSUME NEW m \in MessageType
    PROVE  /\ Len(Header) = 3
           /\ Wire(m) \in Seq(Octets)
           /\ Len(Wire(m)) = 3 + Len(FirstFrames(m, Len(m.frames))) + Len(m.trash)
           /\ Len(m.trash) \in Nat
           /\ Wire(m)[2] = "fields" /\ Wire(m)[3] = "blank"
           /\ \A i \in 1 .. Len(FirstFrames(m, Len(m.frames))) + Len(m.trash) :
                Wire(m)[3 + i] = (FirstFrames(m, Len(m.frames)) \o m.trash)[i]
<1> DEFINE T == FirstFrames(m, Len(m.frames)) \o m.trash
<1>1. Len(m.frames) \in Nat
  BY FrameTypes
<1>2. FirstFrames(m, Len(m.frames)) \in Seq(Octets) /\ m.trash \in Seq(Octets)
  <2>1. Len(m.frames) \in 0 .. Len(m.frames)
    BY <1>1
  <2>2. FirstFrames(m, Len(m.frames)) \in Seq(Octets)
    BY <2>1, FramesStep
  <2>3. m.trash \in Seq(Octets)
    OBVIOUS
  <2>4. QED
    BY <2>2, <2>3
<1>3. T \in Seq(Octets) /\ Len(T) = Len(FirstFrames(m, Len(m.frames))) + Len(m.trash)
  BY <1>2
<1>4. Wire(m) = Header \o T
  BY FramesStep DEF Wire
<1>5. Header \in Seq(Octets) /\ Len(Header) = 3 /\ Header[2] = "fields" /\ Header[3] = "blank"
  BY Literals
<1>6. Len(m.trash) \in Nat /\ Len(FirstFrames(m, Len(m.frames))) \in Nat
  BY <1>2
<1> HIDE DEF T
<1>7. /\ Wire(m) \in Seq(Octets) /\ Len(Wire(m)) = 3 + Len(T)
      /\ Wire(m)[2] = "fields" /\ Wire(m)[3] = "blank"
      /\ \A i \in 1 .. Len(T) : Wire(m)[3 + i] = T[i]
  <2>1. /\ Wire(m) \in Seq(Octets) /\ Len(Wire(m)) = 3 + Len(T)
        /\ \A i \in 1 .. 3 : Wire(m)[i] = Header[i]
        /\ \A i \in 1 .. Len(T) : Wire(m)[3 + i] = T[i]
    <3>1. /\ Wire(m) \in Seq(Octets) /\ Len(Wire(m)) = Len(Header) + Len(T)
          /\ \A i \in 1 .. Len(Header) : Wire(m)[i] = Header[i]
          /\ \A i \in 1 .. Len(T) : Wire(m)[Len(Header) + i] = T[i]
      <4>1. Header \in Seq(Octets) /\ T \in Seq(Octets)
        BY <1>3, <1>5
      <4>2. QED
        BY <1>4, <4>1, ConcatMembers
    <3>2. QED
      BY <1>5, <3>1
  <2>2. QED
    BY <1>5, <2>1
<1>8. /\ Len(Wire(m)) = 3 + Len(FirstFrames(m, Len(m.frames))) + Len(m.trash)
      /\ \A i \in 1 .. Len(FirstFrames(m, Len(m.frames))) + Len(m.trash) : Wire(m)[3 + i] = T[i]
  <2>1. Len(T) = Len(FirstFrames(m, Len(m.frames))) + Len(m.trash)
    BY <1>3
  <2>2. QED
    BY <1>6, <1>7, <2>1
<1>9. QED
  BY <1>5, <1>6, <1>7, <1>8 DEF T

\* Where the message ends, and what follows.
LEMMA EndOfMessage ==
    ASSUME NEW m \in MessageType
    PROVE  /\ End(m) = 3 + Len(FirstFrames(m, Len(m.frames)))
           /\ End(m) \in Nat /\ End(m) >= 3
           /\ Len(m.trash) \in Nat /\ Len(Wire(m)) = End(m) + Len(m.trash)
<1>1. Len(m.frames) \in 0 .. Len(m.frames)
  BY FrameTypes
<1>2. FirstFrames(m, Len(m.frames)) \in Seq(Octets)
  BY <1>1, FramesStep
<1>3. Len(FirstFrames(m, Len(m.frames))) \in Nat
  BY <1>2
<1>4. End(m) = 3 + Len(FirstFrames(m, Len(m.frames)))
  BY FramesStep, Literals DEF End
<1>5. m.trash \in Seq(Octets)
  BY DEF MessageType
<1>6. Len(m.trash) \in Nat
  BY <1>5
<1>7. Len(Wire(m)) = 3 + Len(FirstFrames(m, Len(m.frames))) + Len(m.trash)
  BY WireStart
<1> HIDE DEF MessageType
<1>8. QED
  BY <1>3, <1>4, <1>6, <1>7

\* Where each frame lies in the message.
LEMMA WireFrame ==
    ASSUME NEW m \in MessageType, NEW k \in 0 .. Len(m.frames) - 1
    PROVE  /\ FrameBytes(m)[k + 1] \in Seq(Octets)
           /\ FirstFrames(m, k) \in Seq(Octets)
           /\ Len(FirstFrames(m, k + 1)) = Len(FirstFrames(m, k)) + Len(FrameBytes(m)[k + 1])
           /\ 3 + Len(FirstFrames(m, k + 1)) <= Len(Wire(m))
           /\ \A i \in 1 .. Len(FrameBytes(m)[k + 1]) :
                Wire(m)[3 + Len(FirstFrames(m, k)) + i] = FrameBytes(m)[k + 1][i]
<1> DEFINE n == Len(m.frames)
           P == FirstFrames(m, k)
           Q == FirstFrames(m, k + 1)
           A == FirstFrames(m, n)
           F == FrameBytes(m)[k + 1]
<1>1. n \in Nat /\ k \in 0 .. n /\ k + 1 \in 1 .. n /\ k + 1 \in 0 .. n /\ n \in 0 .. n /\ k + 1 <= n
      /\ (k + 1) - 1 = k
  BY FrameTypes
<1>2. F \in Seq(Octets)
  BY <1>1, FrameTypes, MemberOf
<1>3. P \in Seq(Octets) /\ Q \in Seq(Octets) /\ A \in Seq(Octets) /\ Q = P \o F
  BY <1>1, FramesStep
<1>4. Starts(Q, A)
  BY <1>1, FrameTypes, FlattenGrows DEF FirstFrames
<1>5. /\ Len(Wire(m)) = 3 + Len(A) + Len(m.trash) /\ Len(m.trash) \in Nat /\ m.trash \in Seq(Octets)
      /\ \A i \in 1 .. Len(A) + Len(m.trash) : Wire(m)[3 + i] = (A \o m.trash)[i]
  BY WireStart
<1> HIDE DEF n, P, Q, A, F
<1>6. /\ Len(Q) = Len(P) + Len(F) /\ Len(P) \in Nat /\ Len(F) \in Nat
      /\ \A i \in 1 .. Len(F) : Q[Len(P) + i] = F[i]
  BY <1>2, <1>3, ConcatMembers
<1>7. /\ Len(A) \in Nat
      /\ \A i \in 1 .. Len(A) : (A \o m.trash)[i] = A[i]
  BY <1>3, <1>5, ConcatMembers
<1>8. /\ Len(Q) <= Len(A)
      /\ \A i \in 1 .. Len(Q) : A[i] = Q[i]
  BY <1>4 DEF Starts
<1>9. ASSUME NEW i \in 1 .. Len(F)
      PROVE  Wire(m)[3 + Len(P) + i] = F[i]
  <2>0. /\ Len(P) \in Nat /\ Len(F) \in Nat /\ Len(A) \in Nat /\ Len(m.trash) \in Nat
        /\ Len(Q) = Len(P) + Len(F) /\ Len(Q) <= Len(A)
    BY <1>5, <1>6, <1>7, <1>8
  <2>1. /\ Len(P) + i \in 1 .. Len(Q) /\ Len(P) + i \in 1 .. Len(A)
        /\ Len(P) + i \in 1 .. Len(A) + Len(m.trash)
        /\ 3 + Len(P) + i = 3 + (Len(P) + i)
    BY <2>0
  <2>2. QED
    BY <1>5, <1>6, <1>7, <1>8, <2>1
<1>10. 3 + Len(Q) <= Len(Wire(m))
  <2>1. /\ Len(Q) \in Nat /\ Len(A) \in Nat /\ Len(m.trash) \in Nat
        /\ Len(Q) <= Len(A) /\ Len(Wire(m)) = 3 + Len(A) + Len(m.trash)
    BY <1>5, <1>6, <1>7, <1>8
  <2>2. QED
    BY <2>1
<1>11. QED
  BY <1>2, <1>3, <1>6, <1>9, <1>10 DEF n, P, Q, F

\* Without chunks the body is on the wire as it is.
LEMMA WireBody ==
    ASSUME NEW m \in MessageType, WellFormed(m), ~m.chunked
    PROVE  /\ m.packed \in Seq(Octets) /\ m.trash \in Seq(Octets)
           /\ End(m) = 3 + Len(m.packed)
           /\ Len(m.packed) \in Nat /\ Len(m.trash) \in Nat
           /\ Len(Wire(m)) = 3 + Len(m.packed) + Len(m.trash)
           /\ \A i \in 1 .. Len(m.packed) + Len(m.trash) :
                Wire(m)[3 + i] = (m.packed \o m.trash)[i]
<1>1. FrameBytes(m) = FrameData(m)
  BY DEF FrameBytes, FrameData
<1>2. FirstFrames(m, Len(m.frames)) = m.packed
  BY <1>1, FramesStep DEF WellFormed
<1>3. m.packed \in Seq(Octets) /\ m.trash \in Seq(Octets)
  OBVIOUS
<1>4. /\ Len(Wire(m)) = 3 + Len(m.packed) + Len(m.trash)
      /\ \A i \in 1 .. Len(m.packed) + Len(m.trash) :
           Wire(m)[3 + i] = (m.packed \o m.trash)[i]
  BY <1>2, WireStart, Zenon
<1>5. End(m) = 3 + Len(m.packed)
  BY <1>2, EndOfMessage
<1>6. QED
  BY <1>3, <1>4, <1>5

-----------------------------------------------------------------------------
(***************************************************************************)
(* The helpers of nhr_response.c.                                          *)
(***************************************************************************)

USE DEF ResponseType

\* A decompressed content fits into the block it is returned in.
LEMMA BlockHolds ==
    ASSUME NEW n \in Nat
    PROVE  InflatedBlock(n) \in Nat /\ n <= InflatedBlock(n)
<1> DEFINE c == NHR_GZ_CHUNK_SIZE
           q == n \div c
<1>1. c \in Nat /\ c > 0
  BY SizesAssumption
<1> HIDE DEF c
<1>2. q \in Nat /\ n < (q + 1) * c
  BY <1>1
<1> HIDE DEF q
<1>3. (q + 1) * c \in Nat
  BY <1>1, <1>2
<1>4. InflatedBlock(n) = (q + 1) * c
  BY DEF InflatedBlock, q, c
<1>5. QED
  BY <1>2, <1>3, <1>4

\* What is left of a body whose length is given.
Cut(s, n) == IF n > 0 /\ Len(s) > n THEN SubSeq(s, 1, n) ELSE s

\* nhr_response_fix_body_len touches the body only.
LEMMA FixBodyLen ==
    ASSUME NEW r \in ResponseType, NEW f, f = nhr_response_fix_body_len(r)
    PROVE  /\ f \in ResponseType
           /\ f.body = Cut(r.body, r.content_length)
           /\ f.end = r.end /\ f.allocated = r.allocated /\ f.body_size = r.body_size
           /\ f.content_length = r.content_length /\ f.chunked = r.chunked /\ f.gzip = r.gzip
           /\ f.is_all_chunks_processed = r.is_all_chunks_processed
           /\ f.is_finished = r.is_finished
<1>1. Cut(r.body, r.content_length) \in Seq(Octets)
  BY DEF Cut
<1>2. f = [r EXCEPT !.body = Cut(r.body, r.content_length)]
  BY DEF nhr_response_fix_body_len, Cut
<1>3. QED
  BY <1>1, <1>2

\* nhr_response_add_body_data adds to the body, and keeps the copy in a block whose
\* size is known.
LEMMA AddBodyData ==
    ASSUME NEW r \in ResponseType, NEW data \in Seq(Octets),
           NEW f, f = nhr_response_add_body_data(r, data)
    PROVE  /\ f \in ResponseType
           /\ f.body = Cut(r.body \o data, r.content_length)
           /\ f.end <= f.body_size
           /\ r.allocated = r.body_size => f.end <= f.allocated /\ f.allocated = f.body_size
           /\ f.content_length = r.content_length /\ f.chunked = r.chunked /\ f.gzip = r.gzip
           /\ f.is_all_chunks_processed = r.is_all_chunks_processed
           /\ f.is_finished = r.is_finished
<1> DEFINE required == Len(r.body) + Len(data)
           grown == IF required > r.body_size
                    THEN [r EXCEPT !.allocated = required, !.body_size = required]
                    ELSE r
           g == [grown EXCEPT !.body = @ \o data, !.end = required]
<1>1. r.body \in Seq(Octets) /\ r.body \o data \in Seq(Octets) /\ required \in Nat
  OBVIOUS
<1>2. f = nhr_response_fix_body_len(g)
  BY DEF nhr_response_add_body_data
<1> HIDE DEF required
<1>3. grown \in ResponseType /\ grown.body = r.body
      /\ grown.content_length = r.content_length /\ grown.chunked = r.chunked /\ grown.gzip = r.gzip
      /\ grown.is_all_chunks_processed = r.is_all_chunks_processed
      /\ grown.is_finished = r.is_finished
      /\ required <= grown.body_size
      /\ (r.allocated = r.body_size => required <= grown.allocated /\ grown.allocated = grown.body_size)
  <2>1. CASE required > r.body_size
    <3>1. grown = [r EXCEPT !.allocated = required, !.body_size = required]
      BY <2>1
    <3> HIDE DEF grown
    <3>2. grown \in ResponseType
      BY <1>1, <3>1
    <3>3. /\ grown.body = r.body /\ grown.allocated = required /\ grown.body_size = required
          /\ grown.content_length = r.content_length /\ grown.chunked = r.chunked
          /\ grown.gzip = r.gzip /\ grown.is_finished = r.is_finished
          /\ grown.is_all_chunks_processed = r.is_all_chunks_processed
      BY <3>1
    <3>4. required <= required
      BY <1>1
    <3>5. QED
      BY <3>2, <3>3, <3>4
  <2>2. CASE ~(required > r.body_size)
    <3>1. grown = r /\ r.body_size \in Nat /\ required <= r.body_size
      BY <1>1, <2>2
    <3> HIDE DEF grown
    <3>2. QED
      BY <3>1
  <2>3. QED
    BY <2>1, <2>2
<1> HIDE DEF grown
<1>4. g \in ResponseType /\ g.body = r.body \o data /\ g.end = required
      /\ g.content_length = r.content_length /\ g.chunked = r.chunked /\ g.gzip = r.gzip
      /\ g.is_all_chunks_processed = r.is_all_chunks_processed
      /\ g.is_finished = r.is_finished
      /\ g.allocated = grown.allocated /\ g.body_size = grown.body_size
  BY <1>1, <1>3
<1> HIDE DEF g
<1>5. QED
  BY <1>2, <1>3, <1>4, FixBodyLen

\* The first segment as a body.
LEMMA StoresBody ==
    ASSUME NEW r \in ResponseType, NEW data \in Seq(Octets), NEW f, f = StoreBody(r, data)
    PROVE  /\ f \in ResponseType
           /\ f.body = Cut(data, r.content_length)
           /\ f.end <= f.allocated /\ f.allocated = f.body_size
           /\ f.content_length = r.content_length /\ f.chunked = r.chunked /\ f.gzip = r.gzip
           /\ f.is_all_chunks_processed = r.is_all_chunks_processed
           /\ f.is_finished = r.is_finished
<1> DEFINE size == IF r.content_length > Len(data) THEN r.content_length + 32 ELSE Len(data)
           g == [r EXCEPT !.body = data, !.end = Len(data), !.body_size = size, !.allocated = size]
<1>1. r.content_length \in Nat /\ Len(data) \in Nat
  OBVIOUS
<1>2. size \in Nat /\ Len(data) <= size
  BY <1>1
<1>3. f = nhr_response_fix_body_len(g)
  BY DEF StoreBody
<1> HIDE DEF size
<1>4. g \in ResponseType /\ g.body = data /\ g.end = Len(data)
      /\ g.content_length = r.content_length /\ g.chunked = r.chunked /\ g.gzip = r.gzip
      /\ g.is_all_chunks_processed = r.is_all_chunks_processed
      /\ g.is_finished = r.is_finished
      /\ g.allocated = size /\ g.body_size = size
  BY <1>1, <1>2
<1> HIDE DEF g
<1>5. QED
  BY <1>2, <1>3, <1>4, FixBodyLen

\* What nhr_response_check_is_finished makes of the body of a response.
Unpacked(r) == IF r.gzip /\ r.body \in DOMAIN Streams THEN Streams[r.body] ELSE r.body

\* nhr_response_check_is_finished decompresses a body that is complete, if that is
\* possible, and leaves any other as it is.
LEMMA CheckIsFinished ==
    ASSUME NEW r \in ResponseType, NEW f, f = nhr_response_check_is_finished(r)
    PROVE  /\ f \in ResponseType
           /\ f.content_length = r.content_length /\ f.chunked = r.chunked /\ f.gzip = r.gzip
           /\ f.is_all_chunks_processed = r.is_all_chunks_processed
           /\ f.body_size = r.body_size
           /\ IF nhr_response_is_finished_receiving(r)
              THEN /\ f.is_finished /\ f.body = Unpacked(r)
                   /\ \/ f.end = r.end /\ f.allocated = r.allocated
                      \/ f.gzip /\ f.end <= f.allocated
              ELSE f = r
<1> DEFINE u == IF r.gzip THEN nhr_response_ungzip(r) ELSE r
           inflates == r.gzip /\ r.body \in DOMAIN Streams
           plain == Streams[r.body]
<1>1. CASE ~nhr_response_is_finished_receiving(r)
  BY <1>1 DEF nhr_response_check_is_finished
<1>2. CASE nhr_response_is_finished_receiving(r)
  <2>1. f = [u EXCEPT !.is_finished = TRUE]
    BY <1>2 DEF nhr_response_check_is_finished
  <2>2. CASE inflates
    <3>1. r.body # <<>> /\ plain \in Seq(Octets) /\ plain # <<>>
      BY <2>2, StreamsAssumption
    <3>2. nhr_gz_decompress(r.body) = plain
      BY <2>2 DEF nhr_gz_decompress
    <3> HIDE DEF plain
    <3>3. u = [r EXCEPT !.body = plain, !.end = Len(plain), !.allocated = InflatedBlock(Len(plain))]
      BY <2>2, <3>1, <3>2 DEF nhr_response_ungzip
    <3>4. Len(plain) \in Nat
      BY <3>1
    <3>5. InflatedBlock(Len(plain)) \in Nat /\ Len(plain) <= InflatedBlock(Len(plain))
      BY <3>4, BlockHolds
    <3> HIDE DEF u
    <3>6. f = [r EXCEPT !.body = plain, !.end = Len(plain),
                        !.allocated = InflatedBlock(Len(plain)), !.is_finished = TRUE]
      BY <2>1, <3>3
    <3>7. Unpacked(r) = plain
      BY <2>2 DEF Unpacked, plain
    <3>8. QED
      BY <1>2, <2>2, <3>1, <3>4, <3>5, <3>6, <3>7
  <2>3. CASE ~inflates
    <3>1. u = r
      BY <2>3 DEF nhr_response_ungzip, nhr_gz_decompress
    <3> HIDE DEF u
    <3>2. f = [r EXCEPT !.is_finished = TRUE]
      BY <2>1, <3>1
    <3>3. Unpacked(r) = r.body
      BY <2>3 DEF Unpacked
    <3>4. QED
      BY <1>2, <3>2, <3>3
  <2>4. QED
    BY <2>2, <2>3
<1>3. QED
  BY <1>1, <1>2

-----------------------------------------------------------------------------
(***************************************************************************)
(* The parser of the chunks.                                               *)
(***************************************************************************)

\* The bytes of the buffer, and behind it.
LEMMA ByteTypes ==
    ASSUME buff \in [1 .. BuffSize -> Octets], NEW i \in Nat \ {0}
    PROVE  Byte(i) \in Octets
<1>1. BuffSize \in Nat /\ "nul" \in Octets
  BY SizesAssumption DEF Octets
<1>2. i <= BuffSize => i \in 1 .. BuffSize
  BY <1>1
<1>3. QED
  BY <1>1, <1>2 DEF Byte, ByteOf

\* A place with the right properties is the one that is found.
LEMMA SkipFinds ==
    ASSUME NEW i \in Nat \ {0}, NEW S, NEW j \in i .. BuffSize + i,
           Byte(j) \notin S, \A k \in i .. j - 1 : Byte(k) \in S
    PROVE  SkipWhile(i, S) = j
<1> DEFINE Found(x) == Byte(x) \notin S /\ \A k \in i .. x - 1 : Byte(k) \in S
<1>1. BuffSize \in Nat
  BY SizesAssumption
<1>2. PICK x \in i .. BuffSize + i : x = SkipWhile(i, S) /\ Found(x)
  BY DEF SkipWhile
<1>3. ~(x < j)
  <2>1. x < j => x \in i .. j - 1
    BY <1>1
  <2>2. QED
    BY <1>2, <2>1
<1>4. ~(j < x)
  <2>1. j < x => j \in i .. x - 1
    BY <1>1
  <2>2. QED
    BY <1>2, <2>1
<1>5. x = j
  BY <1>1, <1>3, <1>4
<1>6. QED
  BY <1>2, <1>5

\* There always is one, because what follows the buffer reads as zero.
LEMMA SkipEnds ==
    ASSUME NEW i \in Nat \ {0}, NEW S, "nul" \notin S
    PROVE  /\ SkipWhile(i, S) \in i .. BuffSize + i
           /\ Byte(SkipWhile(i, S)) \notin S
           /\ \A k \in i .. SkipWhile(i, S) - 1 : Byte(k) \in S
<1> DEFINE T == {x \in Nat : i <= x /\ Byte(x) \notin S}
<1>1. BuffSize \in Nat /\ BuffSize # 0
  BY SizesAssumption
<1>2. BuffSize + i \in T
  <2>1. Byte(BuffSize + i) = "nul"
    BY <1>1 DEF Byte, ByteOf
  <2>2. QED
    BY <1>1, <2>1
<1>3. PICK j \in T : \A x \in T : j <= x
  BY <1>2, LeastNat
<1>4. j \in i .. BuffSize + i /\ Byte(j) \notin S
  BY <1>1, <1>2, <1>3
<1>5. \A k \in i .. j - 1 : Byte(k) \in S
  BY <1>1, <1>3, <1>4
<1>6. SkipWhile(i, S) = j
  BY <1>4, <1>5, SkipFinds
<1>7. QED
  BY <1>4, <1>5, <1>6

\* The bytes of a place where a known sequence lies.
LEMMA BytesAre ==
    ASSUME NEW from \in Nat, NEW data \in Seq(Octets), NEW n, n = Len(data),
           \A i \in 1 .. n : Byte(from + i - 1) = data[i]
    PROVE  Bytes(from, n) = data
<1>1. n \in Nat /\ \A i \in 1 .. n : data[i] \in Octets
  OBVIOUS
<1>2. Bytes(from, n) = [i \in 1 .. n |-> data[i]]
  BY DEF Bytes
<1>3. QED
  BY <1>1, <1>2

\* A sequence of bytes of the buffer.
LEMMA BytesType ==
    ASSUME buff \in [1 .. BuffSize -> Octets], NEW from \in Nat \ {0}, NEW n \in Nat
    PROVE  Bytes(from, n) \in Seq(Octets)
<1>1. \A i \in 1 .. n : from + i - 1 \in Nat \ {0}
  OBVIOUS
<1>2. \A i \in 1 .. n : Byte(from + i - 1) \in Octets
  BY <1>1, ByteTypes
<1>3. QED
  BY <1>2 DEF Bytes

\* No digit behind the line ends at the cursor: no chunk.
LEMMA NoChunk ==
    ASSUME NEW i \in Nat \ {0}, NEW j \in i .. BuffSize + i,
           Byte(j) \notin {"cr", "lf"}, \A k \in i .. j - 1 : Byte(k) \in {"cr", "lf"},
           Byte(j) \notin Digits
    PROVE  ChunkDigits(i) = <<>>
<1>1. BuffSize \in Nat
  BY SizesAssumption
<1>2. SkipWhile(i, {"cr", "lf"}) = j
  BY SkipFinds
<1>3. j \in Nat \ {0} /\ j \in j .. BuffSize + j /\ j - j = 0
  BY <1>1
<1>4. \A k \in j .. j - 1 : Byte(k) \in Digits
  BY <1>3
<1>5. SkipWhile(j, Digits) = j
  BY <1>3, <1>4, SkipFinds
<1>6. Bytes(j, 0) = <<>>
  BY DEF Bytes
<1>7. QED
  BY <1>2, <1>3, <1>5, <1>6 DEF ChunkDigits

\* f holds the values of the beginnings of a number of n digits.
ValuesOf(f, ds, n) == f = [i \in 0 .. n |-> IF i = 0 THEN 0 ELSE 16 * f[i - 1] + Hex[ds[i]]]

\* The value of a digit, and of a number.
LEMMA DigitValue ==
    ASSUME NEW d \in Digits
    PROVE  Hex[d] \in Nat
BY DEF Digits, Hex

LEMMA HexType ==
    ASSUME NEW ds, NEW n \in Nat, n = Len(ds), \A i \in 1 .. n : ds[i] \in Digits
    PROVE  HexValue(ds) \in Nat
<1> DEFINE Exists(m) == \E f \in [0 .. m -> Nat] : ValuesOf(f, ds, m)
           G == {m \in Nat : m <= n => Exists(m)}
<1>0. \A i \in 1 .. n : Hex[ds[i]] \in Nat
  BY DigitValue
<1>1. 0 \in G
  <2>1. /\ [i \in 0 .. 0 |-> 0] \in [0 .. 0 -> Nat]
        /\ ValuesOf([i \in 0 .. 0 |-> 0], ds, 0)
    BY DEF ValuesOf
  <2>2. QED
    BY <2>1
<1>2. ASSUME NEW m \in G
      PROVE  m + 1 \in G
  <2> SUFFICES ASSUME m + 1 <= n
               PROVE  Exists(m + 1)
    OBVIOUS
  <2>1. PICK f \in [0 .. m -> Nat] : ValuesOf(f, ds, m)
    OBVIOUS
  <2> DEFINE h == Hex[ds[m + 1]]
             g == [i \in 0 .. m + 1 |-> IF i = m + 1 THEN 16 * f[m] + h ELSE f[i]]
  <2>2. h \in Nat /\ m \in Nat
    BY <1>0
  <2>3. g \in [0 .. m + 1 -> Nat]
    <3> HIDE DEF h
    <3>1. QED
      BY <2>2
  <2>4. ASSUME NEW i \in 0 .. m + 1
        PROVE  g[i] = IF i = 0 THEN 0 ELSE 16 * g[i - 1] + Hex[ds[i]]
    <3>1. CASE i = m + 1
      BY <2>2, <3>1
    <3>2. CASE i # m + 1
      <4>1. i \in 0 .. m /\ g[i] = f[i] /\ (i # 0 => i - 1 \in 0 .. m /\ g[i - 1] = f[i - 1])
        BY <2>2, <3>2
      <4>2. f[i] = IF i = 0 THEN 0 ELSE 16 * f[i - 1] + Hex[ds[i]]
        BY <2>1, <4>1 DEF ValuesOf
      <4>3. QED
        BY <4>1, <4>2
    <3>3. QED
      BY <3>1, <3>2
  <2>5. ValuesOf(g, ds, m + 1)
    BY <2>4 DEF ValuesOf
  <2>6. QED
    BY <2>3, <2>5
<1>3. Exists(n)
  <2>1. G = Nat
    BY <1>1, <1>2, SetInduction
  <2>2. QED
    BY <2>1
<1>4. PICK f : f = (CHOOSE g : ValuesOf(g, ds, n)) /\ ValuesOf(f, ds, n)
  BY <1>3
<1>5. HexValue(ds) = f[n]
  BY <1>4, Zenon DEF HexValue, ValuesOf
<1>6. f[n] \in Nat
  <2> DEFINE H == {m \in Nat : m <= n => f[m] \in Nat}
  <2>1. 0 \in H
    BY <1>4 DEF ValuesOf
  <2>2. ASSUME NEW m \in H
        PROVE  m + 1 \in H
    <3> SUFFICES ASSUME m + 1 <= n
                 PROVE  f[m + 1] \in Nat
      OBVIOUS
    <3>1. /\ m \in Nat /\ m + 1 \in 0 .. n /\ m + 1 # 0 /\ (m + 1) - 1 = m /\ f[m] \in Nat
          /\ m + 1 \in 1 .. n
      OBVIOUS
    <3>2. f[m + 1] = 16 * f[m] + Hex[ds[m + 1]]
      BY <1>4, <3>1 DEF ValuesOf
    <3>3. Hex[ds[m + 1]] \in Nat
      BY <1>0, <3>1
    <3>4. QED
      BY <3>1, <3>2, <3>3
  <2>3. H = Nat
    BY <2>1, <2>2, SetInduction
  <2>4. QED
    BY <2>3
<1>7. QED
  BY <1>5, <1>6

\* What the parser takes for the size of a chunk is one.
LEMMA ChunkLen ==
    ASSUME buff \in [1 .. BuffSize -> Octets], NEW i \in Nat \ {0}
    PROVE  HexValue(ChunkDigits(i)) \in Nat /\ SkipWhile(i, Digits) \in Nat \ {0}
<1> DEFINE from == SkipWhile(i, {"cr", "lf"})
           to   == SkipWhile(from, Digits)
<1>1. BuffSize \in Nat /\ "nul" \notin {"cr", "lf"} /\ "nul" \notin Digits
  BY SizesAssumption DEF Digits
<1>2. from \in Nat \ {0}
  <2>1. from \in i .. BuffSize + i
    BY <1>1, SkipEnds
  <2>2. QED
    BY <1>1, <2>1
<1>3. SkipWhile(i, Digits) \in Nat \ {0}
  <2>1. SkipWhile(i, Digits) \in i .. BuffSize + i
    BY <1>1, SkipEnds
  <2>2. QED
    BY <1>1, <2>1
<1> HIDE DEF from
<1>4. to \in from .. BuffSize + from /\ \A k \in from .. to - 1 : Byte(k) \in Digits
  BY <1>1, <1>2, SkipEnds
<1> HIDE DEF to
<1>5. to - from \in Nat
  BY <1>1, <1>2, <1>4
<1>6. /\ ChunkDigits(i) = [k \in 1 .. to - from |-> Byte(from + k - 1)]
      /\ \A k \in 1 .. to - from : from + k - 1 \in from .. to - 1
  BY <1>1, <1>2, <1>4 DEF ChunkDigits, Bytes, from, to
<1>7. /\ Len(ChunkDigits(i)) = to - from
      /\ \A k \in 1 .. to - from : ChunkDigits(i)[k] \in Digits
  BY <1>4, <1>5, <1>6
<1>8. QED
  BY <1>3, <1>5, <1>7, HexType

\* The digits at the cursor are read up to the line end.
LEMMA ReadsDigits ==
    ASSUME NEW i \in Nat \ {0}, NEW ds \in Seq(Octets), ds # <<>>, Len(ds) <= BuffSize,
           \A j \in 1 .. Len(ds) : Byte(i + j - 1) = ds[j] /\ ds[j] \in Digits,
           Byte(i + Len(ds)) = "cr"
    PROVE  ChunkDigits(i) = ds /\ SkipWhile(i, Digits) = i + Len(ds)
<1> DEFINE n == Len(ds)
<1>1. BuffSize \in Nat /\ n \in Nat /\ n # 0 /\ n <= BuffSize
  BY SizesAssumption
<1> HIDE DEF n
<1>2. /\ \A j \in 1 .. n : Byte(i + j - 1) = ds[j] /\ ds[j] \in Digits
      /\ Byte(i + n) = "cr"
  BY DEF n
<1>3. SkipWhile(i, {"cr", "lf"}) = i
  <2>1. i \in i .. BuffSize + i
    BY <1>1
  <2>2. 1 \in 1 .. n /\ i + 1 - 1 = i
    BY <1>1
  <2>3. Byte(i) \in Digits
    BY <1>2, <2>2
  <2>4. Byte(i) \notin {"cr", "lf"}
    BY <2>3 DEF Digits
  <2>5. \A k \in i .. i - 1 : Byte(k) \in {"cr", "lf"}
    BY <1>1
  <2>6. QED
    BY <2>1, <2>4, <2>5, SkipFinds
<1>4. SkipWhile(i, Digits) = i + n
  <2>1. i + n \in i .. BuffSize + i
    BY <1>1
  <2>2. Byte(i + n) \notin Digits
    BY <1>2 DEF Digits
  <2>3. ASSUME NEW k \in i .. (i + n) - 1
        PROVE  Byte(k) \in Digits
    <3>1. k - i + 1 \in 1 .. n /\ i + (k - i + 1) - 1 = k
      BY <1>1
    <3>2. QED
      BY <1>2, <3>1
  <2>4. QED
    BY <2>1, <2>2, <2>3, SkipFinds
<1>5. (i + n) - i = n
  BY <1>1
<1>6. Bytes(i, n) = ds
  <2>1. n = Len(ds)
    BY DEF n
  <2>2. QED
    BY <1>2, <2>1, BytesAre
<1>7. QED
  BY <1>3, <1>4, <1>5, <1>6 DEF ChunkDigits, n

-----------------------------------------------------------------------------
(***************************************************************************)
(* Types and blocks, whatever the server sends and however it is cut.      *)
(***************************************************************************)

USE DEF vars

\* The values the steps compute with.
Values ==
    /\ message \in Messages /\ message \in MessageType
    /\ received \in Nat /\ received_len \in Nat /\ Earlier \in Nat /\ str \in Nat \ {0}
    /\ Earlier + received_len = received /\ received <= Len(Wire(message))
    /\ received_len <= BuffSize /\ BuffSize \in Nat
    /\ Len(Wire(message)) \in Nat /\ Wire(message) \in Seq(Octets)
    /\ response \in ResponseType
    /\ Len(Header) = 3

LEMMA TypeValues ==
    ASSUME TypeOK
    PROVE  Values
<1>1. /\ message \in Messages /\ received \in 0 .. Len(Wire(message))
      /\ received_len \in 0 .. received /\ received_len <= BuffSize
      /\ str \in Nat \ {0} /\ response \in ResponseType
  BY DEF TypeOK
<1>2. message \in MessageType
  BY <1>1, MessagesAssumption
<1>3. Wire(message) \in Seq(Octets) /\ Len(Header) = 3
  BY <1>2, WireStart
<1>4. Len(Wire(message)) \in Nat
  BY <1>3
<1>5. received \in Nat /\ received_len \in Nat /\ received_len <= received /\ received <= Len(Wire(message))
  BY <1>1, <1>4
<1>6. Earlier \in Nat /\ Earlier + received_len = received
  BY <1>5 DEF Earlier
<1>7. QED
  BY <1>1, <1>2, <1>3, <1>4, <1>5, <1>6, SizesAssumption DEF Values

\* The segment as a sequence.
LEMMA SegmentType ==
    ASSUME TypeOK
    PROVE  /\ Segment \in Seq(Octets) /\ Len(Segment) = received_len
           /\ \A i \in 1 .. received_len : i \in 1 .. BuffSize /\ Segment[i] = buff[i]
           /\ SubSeq(Segment, 4, received_len) \in Seq(Octets)
<1>0. Values
  BY TypeValues
<1>1. buff \in [1 .. BuffSize -> Octets]
  BY DEF TypeOK
<1>2. \A i \in 1 .. received_len : i \in 1 .. BuffSize
  BY <1>0 DEF Values
<1>3. \A i \in 1 .. received_len : buff[i] \in Octets
  BY <1>1, <1>2
<1>4. received_len \in Nat
  BY <1>0 DEF Values
<1>5. Segment \in Seq(Octets) /\ Len(Segment) = received_len
      /\ \A i \in 1 .. received_len : Segment[i] = buff[i]
  BY <1>3, <1>4 DEF Segment
<1>6. SubSeq(Segment, 4, received_len) \in Seq(Octets)
  <2> DEFINE n == received_len
             g == Segment
  <2>1. g \in Seq(Octets) /\ n = Len(g) /\ n \in Nat
    BY <1>4, <1>5
  <2> HIDE DEF n, g
  <2>2. SubSeq(g, 4, n) \in Seq(Octets)
    BY <2>1
  <2>3. QED
    BY <2>2 DEF n, g
<1>7. QED
  BY <1>2, <1>5, <1>6

\* A segment is received into a buffer that holds bytes.
LEMMA RecvType ==
    ASSUME TypeOK, nhr_request_recv
    PROVE  TypeOK'
<1>0. Values
  BY TypeValues
<1>1. PICK n \in 1 .. Len(Wire(message)) - received,
           left \in {buff} \cup (IF response.is_finished THEN {} ELSE StackBuffers) :
        /\ n <= BuffSize
        /\ received' = received + n
        /\ received_len' = n
        /\ buff' = [i \in 1 .. BuffSize |->
                      IF i <= n THEN Wire(message)[received + i] ELSE left[i]]
  BY DEF nhr_request_recv
<1>2. pc' = "parse" /\ UNCHANGED <<message, response, created, str>>
  BY DEF nhr_request_recv
<1>3. n \in Nat /\ n > 0 /\ received + n <= Len(Wire(message))
  BY <1>0 DEF Values
<1>4. left \in [1 .. BuffSize -> Octets]
  <2>1. \A b \in StackBytes : [i \in 1 .. BuffSize |-> b] \in [1 .. BuffSize -> Octets]
    BY StackAssumption
  <2>2. left = buff \/ left \in StackBuffers
    OBVIOUS
  <2>3. QED
    BY <2>1, <2>2 DEF TypeOK, StackBuffers
<1>5. \A i \in 1 .. BuffSize : i <= n => Wire(message)[received + i] \in Octets
  <2>1. ASSUME NEW i \in 1 .. BuffSize, i <= n
        PROVE  received + i \in 1 .. Len(Wire(message))
    BY <1>0, <1>3, <2>1 DEF Values
  <2>2. QED
    BY <1>0, <2>1, MemberOf DEF Values
<1>6. buff' \in [1 .. BuffSize -> Octets]
  BY <1>1, <1>4, <1>5
<1>7. received' \in 0 .. Len(Wire(message)) /\ received_len' \in 0 .. received'
  BY <1>0, <1>1, <1>3 DEF Values
<1>8. QED
  BY <1>1, <1>2, <1>6, <1>7 DEF TypeOK

\* A response whose block has the recorded size, or was replaced by decompression.
Blocks(r) ==
    /\ r.end <= r.allocated \/ (r.gzip /\ r.is_finished /\ r.end <= r.body_size)
    /\ ~(r.gzip /\ r.is_finished) => r.allocated = r.body_size

LEMMA CreateType ==
    ASSUME TypeOK, nhr_response_create
    PROVE  response' \in ResponseType /\ Blocks(response') /\ str' \in Nat \ {0}
<1>0. Values
  BY TypeValues
<1> DEFINE r == ParseFields(Zero, Segment)
           data == SubSeq(Segment, 4, received_len)
<1>1. /\ r \in ResponseType /\ r.end = 0 /\ r.allocated = 0 /\ r.body_size = 0
      /\ r.is_finished = FALSE
  <2>1. <<>> \in Seq(Octets)
    OBVIOUS
  <2>2. Zero \in ResponseType
    BY <2>1 DEF Zero
  <2>3. /\ message.content_length \in Nat /\ message.chunked \in BOOLEAN
        /\ message.gzip \in BOOLEAN
    BY <1>0 DEF Values
  <2>4. r \in ResponseType
    BY <2>2, <2>3 DEF ParseFields
  <2>5. QED
    BY <2>4 DEF ParseFields, Zero
<1>2. data \in Seq(Octets)
  BY SegmentType
<1>3. \/ response' = r /\ UNCHANGED str
      \/ response' = StoreBody(r, data) /\ UNCHANGED str
      \/ response' = r /\ str' = 4
  BY Literals DEF nhr_response_create
<1> HIDE DEF r, data
<1>4. /\ StoreBody(r, data) \in ResponseType
      /\ StoreBody(r, data).end <= StoreBody(r, data).allocated
      /\ StoreBody(r, data).allocated = StoreBody(r, data).body_size
  BY <1>1, <1>2, StoresBody
<1>5. Blocks(r) /\ Blocks(StoreBody(r, data))
  BY <1>1, <1>4 DEF Blocks
<1>6. str' \in Nat \ {0}
  BY <1>0, <1>3 DEF Values
<1>7. QED
  BY <1>1, <1>3, <1>4, <1>5, <1>6

\* Bytes are added to the body.
LEMMA AddType ==
    ASSUME TypeOK, BlockInv, NEW data \in Seq(Octets),
           response' = nhr_response_add_body_data(response, data)
    PROVE  response' \in ResponseType /\ Blocks(response')
<1>0. response \in ResponseType
  BY DEF TypeOK
<1>1. /\ response' \in ResponseType
      /\ response'.end <= response'.body_size
      /\ response.allocated = response.body_size =>
           response'.end <= response'.allocated /\ response'.allocated = response'.body_size
      /\ response'.gzip = response.gzip /\ response'.is_finished = response.is_finished
  BY <1>0, AddBodyData
<1>2. CASE response.gzip /\ response.is_finished
  BY <1>1, <1>2 DEF Blocks
<1>3. CASE ~(response.gzip /\ response.is_finished)
  <2>1. response.allocated = response.body_size
    BY <1>3 DEF BlockInv
  <2>2. QED
    BY <1>1, <2>1 DEF Blocks
<1>4. QED
  BY <1>2, <1>3

LEMMA ChunksType ==
    ASSUME TypeOK, BlockInv, nhr_response_read_chunks
    PROVE  response' \in ResponseType /\ Blocks(response') /\ str' \in Nat \ {0}
           /\ pc' \in {"chunks", "finish"}
<1>0. Values /\ buff \in [1 .. BuffSize -> Octets]
  BY TypeValues DEF TypeOK
<1> DEFINE digits == ChunkDigits(str)
           chunk_len == HexValue(digits)
           after == SkipWhile(str, Digits)
           data == Bytes(after + 2, chunk_len)
<1>1. chunk_len \in Nat /\ after \in Nat \ {0}
  BY <1>0, ChunkLen DEF Values
<1>2. data \in Seq(Octets)
  <2>1. after + 2 \in Nat \ {0}
    BY <1>1
  <2> HIDE DEF after, chunk_len
  <2>2. QED
    BY <1>0, <1>1, <2>1, BytesType
<1>3. \/ /\ response' = nhr_response_add_body_data(response, data)
         /\ str' = after + 2 + chunk_len + 2 /\ UNCHANGED pc
      \/ /\ response' = [response EXCEPT
               !.is_all_chunks_processed = @ \/ Bytes(after, 4) = CRLF \o CRLF]
         /\ pc' = "finish" /\ UNCHANGED str
      \/ pc' = "finish" /\ UNCHANGED <<response, str>>
  BY DEF nhr_response_read_chunks
<1>4. pc = "chunks" /\ response \in ResponseType /\ Blocks(response) /\ str \in Nat \ {0}
  BY <1>0 DEF nhr_response_read_chunks, BlockInv, BodyFits, Blocks, Values
<1> HIDE DEF data, after, chunk_len
<1>5. CASE /\ response' = nhr_response_add_body_data(response, data)
           /\ str' = after + 2 + chunk_len + 2 /\ UNCHANGED pc
  <2>1. str' \in Nat \ {0}
    BY <1>1, <1>5
  <2>2. QED
    BY <1>2, <1>4, <1>5, <2>1, AddType
<1>6. CASE /\ response' = [response EXCEPT
                 !.is_all_chunks_processed = @ \/ Bytes(after, 4) = CRLF \o CRLF]
           /\ pc' = "finish" /\ UNCHANGED str
  BY <1>4, <1>6 DEF Blocks
<1>7. CASE pc' = "finish" /\ UNCHANGED <<response, str>>
  BY <1>4, <1>7
<1>8. QED
  BY <1>3, <1>5, <1>6, <1>7

LEMMA FinishType ==
    ASSUME TypeOK, BlockInv, finish
    PROVE  response' \in ResponseType /\ Blocks(response')
<1>1. response \in ResponseType /\ response' = nhr_response_check_is_finished(response)
  BY DEF TypeOK, finish
<1>2. /\ response' \in ResponseType
      /\ response'.gzip = response.gzip /\ response'.body_size = response.body_size
      /\ IF nhr_response_is_finished_receiving(response)
         THEN /\ response'.is_finished
              /\ \/ response'.end = response.end /\ response'.allocated = response.allocated
                 \/ response'.gzip /\ response'.end <= response'.allocated
         ELSE response' = response
  BY <1>1, CheckIsFinished
<1>3. QED
  BY <1>2 DEF Blocks, BlockInv, BodyFits

\* Every step keeps the types and the blocks, without any assumption on the server,
\* the segments or what is left in the buffer.
LEMMA SafeStep ==
    ASSUME TypeOK, BlockInv, [Next]_vars
    PROVE  TypeOK' /\ BlockInv'
<1>1. Blocks(response') => BlockInv'
  BY DEF Blocks, BlockInv, BodyFits
<1>2. CASE nhr_request_recv
  <2>1. response' = response
    BY <1>2 DEF nhr_request_recv
  <2>2. QED
    BY <1>2, <2>1, RecvType DEF BlockInv, BodyFits
<1>3. CASE nhr_response_create
  <2>1. /\ UNCHANGED <<message, received, buff, received_len>> /\ created' = TRUE
        /\ pc' \in {"finish", "chunks"}
    BY <1>3 DEF nhr_response_create
  <2>2. QED
    BY <1>1, <1>3, <2>1, CreateType DEF TypeOK
<1>4. CASE nhr_response_append
  <2>1. /\ UNCHANGED <<message, received, buff, received_len, created>>
        /\ \/ str' = 1 /\ pc' = "chunks" /\ UNCHANGED response
           \/ /\ response' = nhr_response_add_body_data(response, Segment)
              /\ pc' = "finish" /\ UNCHANGED str
    BY <1>4 DEF nhr_response_append
  <2>2. /\ response' \in ResponseType /\ Blocks(response') /\ str' \in Nat \ {0}
        /\ pc' \in {"finish", "chunks"}
    <3>1. CASE str' = 1 /\ pc' = "chunks" /\ UNCHANGED response
      BY <3>1 DEF TypeOK, Blocks, BlockInv, BodyFits
    <3>2. CASE /\ response' = nhr_response_add_body_data(response, Segment)
               /\ pc' = "finish" /\ UNCHANGED str
      <4>1. Segment \in Seq(Octets)
        BY SegmentType
      <4>2. str' \in Nat \ {0}
        BY <3>2 DEF TypeOK
      <4>3. QED
        BY <3>2, <4>1, <4>2, AddType
    <3>3. QED
      BY <2>1, <3>1, <3>2
  <2>3. QED
    BY <1>1, <2>1, <2>2 DEF TypeOK
<1>5. CASE nhr_response_read_chunks
  <2>1. UNCHANGED <<message, received, buff, received_len, created>>
    BY <1>5 DEF nhr_response_read_chunks
  <2>2. QED
    BY <1>1, <1>5, <2>1, ChunksType DEF TypeOK
<1>6. CASE finish
  <2>1. UNCHANGED <<message, received, buff, received_len, created, str>> /\ pc' = "recv"
    BY <1>6 DEF finish
  <2>2. QED
    BY <1>1, <1>6, <2>1, FinishType DEF TypeOK
<1>7. CASE Terminating \/ UNCHANGED vars
  BY <1>7 DEF Terminating, TypeOK, BlockInv, BodyFits
<1>8. QED
  BY <1>2, <1>3, <1>4, <1>5, <1>6, <1>7 DEF Next

-----------------------------------------------------------------------------
(***************************************************************************)
(* The rest of the invariant, step by step.                                *)
(***************************************************************************)

\* No step but finish makes a response complete, and none makes its body shorter
\* before.
Grows ==
    /\ response'.is_finished = response.is_finished
    /\ ~response.is_finished => Len(response.body) <= Len(response'.body)

LEMMA ValuesType ==
    ASSUME Setting, IInv
    PROVE  /\ Values /\ WellFormed(message)
           /\ message.chunked => ~SplitChunks /\ ~StaleDigits
<1>1. Values
  BY TypeValues DEF IInv
<1>2. QED
  BY <1>1 DEF Values, Setting

\* A response that is finished ended before the segment that is parsed.
LEMMA EndBefore ==
    ASSUME Setting, IInv, pc # "recv", response.is_finished
    PROVE  End(message) <= Earlier
BY DEF IInv, FinishInv

\* A segment is received.
LEMMA RecvStep ==
    ASSUME Setting, IInv, nhr_request_recv
    PROVE  IInv'
<1>0. Values /\ (message.chunked => ~SplitChunks /\ ~StaleDigits)
  BY ValuesType
<1>1. PICK n \in 1 .. Len(Wire(message)) - received,
           left \in {buff} \cup (IF response.is_finished THEN {} ELSE StackBuffers) :
        /\ n <= BuffSize
        /\ Boundary(message, received + n)
        /\ message.chunked /\ ~StaleDigits => ~StartsSize(left, n + 1)
        /\ received' = received + n
        /\ received_len' = n
        /\ buff' = [i \in 1 .. BuffSize |->
                      IF i <= n THEN Wire(message)[received + i] ELSE left[i]]
  BY DEF nhr_request_recv
<1>2. pc = "recv" /\ pc' = "parse" /\ UNCHANGED <<message, response, created, str>>
  BY DEF nhr_request_recv
<1>3. n \in Nat /\ n > 0 /\ received + n <= Len(Wire(message))
  BY <1>0 DEF Values
<1>4. Earlier' = received /\ Earlier <= received
  BY <1>0, <1>1, <1>3 DEF Earlier, Values
<1>5. Parsed = received /\ Parsed' = received
  BY <1>2, <1>4 DEF Parsed
<1>6. End(message) \in Nat
  BY <1>0, EndOfMessage DEF Values
<1>7. TypeOK' /\ BlockInv'
  BY SafeStep DEF IInv, Next
<1>8. BufferInv'
  <2>1. Boundary(message, received')
    BY <1>1
  <2>2. (Boundary(message, received))'
    BY <1>2, <2>1 DEF Boundary
  <2>3. \A i \in 1 .. n : buff'[i] = Wire(message)[received + i]
    BY <1>0, <1>1, <1>3 DEF Values
  <2>4. message.chunked => ~StartsSize(buff', n + 1)
    <3>1. ByteOf(buff', n + 1) = ByteOf(left, n + 1)
      <4>1. n + 1 <= BuffSize => n + 1 \in 1 .. BuffSize /\ ~(n + 1 <= n)
        BY <1>0, <1>3 DEF Values
      <4>2. QED
        BY <1>1, <4>1 DEF ByteOf
    <3>2. QED
      BY <1>0, <1>1, <3>1 DEF StartsSize
  <2>5. (message.chunked => ~StartsSize(buff, received_len + 1))'
    BY <1>1, <1>2, <2>4 DEF StartsSize, ByteOf
  <2>6. QED
    BY <1>1, <1>2, <1>4, <2>2, <2>3, <2>5 DEF BufferInv
<1>9. CreateInv'
  <2>1. CASE created
    BY <1>0, <1>1, <1>2, <1>3, <1>5, <2>1 DEF IInv, CreateInv, Values
  <2>2. CASE ~created
    <3>1. received = 0 /\ response = Zero
      BY <1>0, <1>2, <2>2 DEF IInv, CreateInv, Values
    <3>2. QED
      BY <1>1, <1>2, <1>3, <1>4, <2>2, <3>1 DEF CreateInv
  <2>3. QED
    BY <2>1, <2>2
<1>10. FinishInv'
  BY <1>2, <1>4 DEF IInv, FinishInv
<1>11. Spoiled => Spoiled'
  BY <1>0, <1>2, <1>4, <1>6 DEF Spoiled, Values
<1>12. LengthInv'
  BY <1>2, <1>5, <1>11 DEF IInv, LengthInv, Expected
<1>13. ChunkInv'
  BY <1>2, <1>5, <1>11 DEF IInv, ChunkInv, ParsedChunks
<1>14. QED
  BY <1>7, <1>8, <1>9, <1>10, <1>12, <1>13 DEF IInv

\* The segment is a part of the message.
LEMMA SegmentBytes ==
    ASSUME Setting, IInv
    PROVE  /\ Segment \in Seq(Octets) /\ Len(Segment) = received_len
           /\ \A i \in 1 .. received_len : Segment[i] = Wire(message)[Earlier + i]
<1>1. \A i \in 1 .. received_len : buff[i] = Wire(message)[Earlier + i]
  BY DEF IInv, BufferInv
<1>2. /\ Segment \in Seq(Octets) /\ Len(Segment) = received_len
      /\ \A i \in 1 .. received_len : Segment[i] = buff[i]
  BY SegmentType DEF IInv
<1>3. QED
  BY <1>1, <1>2

\* The header comes whole in the first segment.
LEMMA HeaderWhole ==
    ASSUME Setting, IInv, received > 0
    PROVE  received >= 3
<1>0. Values
  BY ValuesType
<1>1. ~(received < 3)
  BY <1>0 DEF IInv, BufferInv, Boundary, Setting, Values
<1>2. QED
  BY <1>0, <1>1 DEF Values

\* The fields in the first segment.
LEMMA FirstFields ==
    ASSUME Setting, IInv, pc = "parse", ~created
    PROVE  /\ Earlier = 0 /\ received_len = received /\ received >= 3
           /\ Contains(Segment, "blank")
           /\ ParseFields(Zero, Segment) =
                [Zero EXCEPT !.status_code = TRUE, !.content_length = message.content_length,
                             !.chunked = message.chunked, !.gzip = message.gzip]
<1>0. Values
  BY ValuesType
<1>1. Earlier = 0 /\ received > 0
  BY DEF IInv, CreateInv
<1>2. received >= 3 /\ received_len = received
  BY <1>0, <1>1, HeaderWhole DEF Values
<1>3. 2 \in 1 .. received_len /\ 3 \in 1 .. received_len /\ Earlier + 2 = 2 /\ Earlier + 3 = 3
  BY <1>0, <1>1, <1>2 DEF Values
<1>4. Wire(message)[2] = "fields" /\ Wire(message)[3] = "blank"
  BY <1>0, WireStart DEF Values
<1>5. Segment[2] = "fields" /\ Segment[3] = "blank" /\ Len(Segment) = received_len
  BY <1>3, <1>4, SegmentBytes
<1>6. Contains(Segment, "fields") /\ Contains(Segment, "blank")
  BY <1>3, <1>5 DEF Contains
<1>7. QED
  BY <1>1, <1>2, <1>6 DEF ParseFields

\* The response is created from the first segment.
LEMMA CreateStep ==
    ASSUME Setting, IInv, nhr_response_create
    PROVE  IInv' /\ Grows
<1>0. Values /\ WellFormed(message)
  BY ValuesType
<1> DEFINE r == [Zero EXCEPT !.status_code = TRUE, !.content_length = message.content_length,
                             !.chunked = message.chunked, !.gzip = message.gzip]
<1>1. pc = "parse" /\ ~created /\ created' = TRUE
      /\ UNCHANGED <<message, received, buff, received_len>>
  BY DEF nhr_response_create
<1>2. /\ Earlier = 0 /\ received_len = received /\ received >= 3
      /\ Contains(Segment, "blank") /\ ParseFields(Zero, Segment) = r
  BY <1>1, FirstFields
<1>3. /\ r \in ResponseType /\ r.content_length = message.content_length
      /\ r.chunked = message.chunked /\ r.gzip = message.gzip
      /\ r.body = <<>> /\ r.end = 0 /\ r.allocated = 0 /\ r.body_size = 0
      /\ r.is_all_chunks_processed = FALSE /\ r.is_finished = FALSE
  <2>1. Zero \in ResponseType
    <3>1. <<>> \in Seq(Octets)
      OBVIOUS
    <3>2. QED
      BY <3>1 DEF Zero
  <2>2. /\ message.content_length \in Nat /\ message.chunked \in BOOLEAN
        /\ message.gzip \in BOOLEAN
    BY <1>0 DEF Values
  <2>3. r \in ResponseType
    BY <2>1, <2>2
  <2>4. QED
    BY <2>3 DEF Zero
<1> HIDE DEF r
<1>4. Earlier' = 0 /\ BufferInv'
  BY <1>1, <1>2 DEF Earlier, IInv, BufferInv, Boundary, StartsSize, ByteOf
<1>t. TypeOK' /\ BlockInv'
  BY SafeStep DEF IInv, Next
<1>5. ASSUME response' \in ResponseType, response'.is_finished = FALSE
      PROVE  Grows
  <2>1. Len(response.body) = 0 /\ response.is_finished = FALSE
    BY <1>1 DEF IInv, CreateInv, Zero
  <2>2. Len(response'.body) \in Nat
    BY <1>5
  <2>3. response'.is_finished = response.is_finished
    BY <1>5, <2>1, Zenon
  <2>4. Len(response.body) <= Len(response'.body)
    BY <2>1, <2>2
  <2>5. QED
    BY <2>3, <2>4 DEF Grows
<1>6. CASE ~message.chunked
  <2> DEFINE data == SubSeq(Segment, 4, received_len)
             T == message.packed \o message.trash
  <2>1. response' = StoreBody(r, data) /\ pc' = "finish" /\ UNCHANGED str
    BY <1>2, <1>3, <1>6, Literals DEF nhr_response_create
  <2>2. /\ data \in Seq(Octets) /\ Len(data) = received - 3
        /\ \A i \in 1 .. received - 3 : data[i] = T[i]
    <3>1. /\ Segment \in Seq(Octets) /\ Len(Segment) = received
          /\ \A i \in 1 .. received : Segment[i] = Wire(message)[i]
      <4>1. \A i \in 1 .. received : Earlier + i = i
        BY <1>2
      <4>2. QED
        BY <1>2, <4>1, SegmentBytes
    <3>2. /\ data \in Seq(Octets) /\ Len(data) = received - 3
          /\ \A i \in 1 .. received - 3 : data[i] = Segment[3 + i]
      BY <1>0, <1>2, <3>1 DEF Values
    <3>3. ASSUME NEW i \in 1 .. received - 3
          PROVE  Segment[3 + i] = T[i]
      <4>1. /\ Len(Wire(message)) = 3 + Len(message.packed) + Len(message.trash)
            /\ Len(message.packed) \in Nat /\ Len(message.trash) \in Nat
            /\ \A j \in 1 .. Len(message.packed) + Len(message.trash) : Wire(message)[3 + j] = T[j]
        BY <1>0, <1>6, WireBody DEF Values
      <4>2. 3 + i \in 1 .. received /\ i \in 1 .. Len(message.packed) + Len(message.trash)
        BY <1>0, <1>2, <4>1 DEF Values
      <4>3. QED
        BY <3>1, <4>1, <4>2
    <3>4. QED
      BY <3>2, <3>3
  <2> HIDE DEF data, T
  <2>3. /\ response' \in ResponseType
        /\ response'.body = Cut(data, message.content_length)
        /\ response'.end <= response'.allocated /\ response'.allocated = response'.body_size
        /\ response'.content_length = message.content_length
        /\ response'.chunked = message.chunked /\ response'.gzip = message.gzip
        /\ response'.is_finished = FALSE
    BY <1>3, <2>1, <2>2, StoresBody
  <2>4. Parsed' = received
    BY <1>1, <2>1 DEF Parsed
  <2>5. FinishInv'
    BY <2>3 DEF FinishInv
  <2>6. CreateInv'
    BY <1>0, <1>1, <1>2, <2>1, <2>3, <2>4 DEF CreateInv, Values
  <2>7. ChunkInv'
    BY <1>1, <1>6 DEF ChunkInv
  <2>8. LengthInv'
    <3>1. Expected' = IF message.content_length > 0 /\ received - 3 > message.content_length
                      THEN message.content_length ELSE received - 3
      BY <1>0, <1>1, <2>4 DEF Expected, Values
    <3>2. message.content_length \in Nat
      BY <1>0 DEF Values
    <3>3. /\ Len(response'.body) = Expected'
          /\ \A i \in 1 .. Expected' : response'.body[i] = data[i] /\ i \in 1 .. received - 3
      <4>1. received - 3 \in Nat
        BY <1>0, <1>2 DEF Values
      <4>2. data \in Seq(Octets) /\ received - 3 = Len(data)
        BY <2>2
      <4>3. response'.body = Cut(data, message.content_length)
        BY <2>3
      <4>4. ASSUME NEW c \in Nat, NEW n \in Nat, n = Len(data), NEW b, b = Cut(data, c),
                   NEW x, x = IF c > 0 /\ n > c THEN c ELSE n
            PROVE  /\ Len(b) = x
                   /\ \A i \in 1 .. x : b[i] = data[i] /\ i \in 1 .. n
        BY <4>2, <4>4 DEF Cut
      <4>5. QED
        BY <3>1, <3>2, <4>1, <4>2, <4>3, <4>4
    <3>4. \A i \in 1 .. Expected' : response'.body[i] = T[i]
      BY <2>2, <3>3
    <3>5. QED
      BY <1>1, <2>1, <2>3, <3>3, <3>4 DEF LengthInv, T
  <2>9. QED
    BY <1>4, <1>5, <1>t, <2>3, <2>5, <2>6, <2>7, <2>8 DEF IInv
<1>7. CASE message.chunked
  <2>1. response' = r /\ str' = 4 /\ pc' = "chunks"
    BY <1>2, <1>3, <1>7, Literals DEF nhr_response_create
  <2>2. Parsed' = 3
    BY <1>4, <2>1 DEF Parsed
  <2>3. FinishInv'
    BY <1>3, <2>1 DEF FinishInv
  <2>4. CreateInv'
    BY <1>0, <1>1, <1>2, <1>3, <2>1, <2>2, Literals DEF CreateInv, Values
  <2>5. LengthInv'
    BY <1>1, <1>7 DEF LengthInv
  <2>6. ChunkInv'
    <3>1. /\ FirstFrames(message, 0) = <<>> /\ FirstData(message, 0) = <<>>
          /\ Len(message.frames) \in Nat /\ 0 # Len(message.frames)
      <4>1. message \in MessageType /\ message.frames # <<>>
        BY <1>0, <1>7 DEF WellFormed, Values
      <4>2. Len(message.frames) \in Nat /\ 0 # Len(message.frames)
        BY <4>1
      <4>3. QED
        BY <4>1, <4>2, FramesStep, DataStep
    <3>2. ParsedChunks(0)'
      BY <1>1, <1>3, <2>1, <2>2, <3>1, Literals DEF ParsedChunks
    <3>3. 0 \in 0 .. Len(message.frames)'
      BY <1>1, <3>1
    <3>4. QED
      BY <3>2, <3>3 DEF ChunkInv
  <2>7. QED
    BY <1>3, <1>4, <1>5, <1>t, <2>1, <2>3, <2>4, <2>5, <2>6 DEF IInv
<1>8. QED
  BY <1>6, <1>7

\* A further segment is added to a body that is not chunked, or the chunks in it
\* are looked for.
LEMMA AppendStep ==
    ASSUME Setting, IInv, nhr_response_append
    PROVE  IInv' /\ Grows
<1>0. Values /\ WellFormed(message)
  BY ValuesType
<1>1. pc = "parse" /\ created /\ UNCHANGED <<message, received, buff, received_len, created>>
  BY DEF nhr_response_append
<1>2. /\ Parsed = Earlier /\ Earlier' = Earlier
      /\ 3 <= Earlier /\ received_len > 0
      /\ response.content_length = message.content_length
      /\ response.chunked = message.chunked /\ response.gzip = message.gzip
  BY <1>0, <1>1 DEF IInv, CreateInv, Parsed, Earlier, Values
<1>3. BufferInv' /\ FinishInv'
  <2>1. BufferInv'
    BY <1>1, <1>2 DEF IInv, BufferInv, Boundary, StartsSize, ByteOf
  <2>2. response'.is_finished => response.is_finished
    <3>1. CASE response' = response
      BY <3>1
    <3>2. CASE response' = nhr_response_add_body_data(response, Segment)
      BY <1>0, <3>2, SegmentBytes, AddBodyData DEF Values
    <3>3. QED
      BY <3>1, <3>2 DEF nhr_response_append
  <2>3. pc' # "recv"
    BY DEF nhr_response_append
  <2>4. QED
    BY <1>1, <1>2, <2>1, <2>2, <2>3, EndBefore DEF FinishInv
<1>t. TypeOK' /\ BlockInv'
  BY SafeStep DEF IInv, Next
<1>s. Spoiled' = Spoiled
  BY <1>1, <1>2 DEF Spoiled
<1>4. CASE message.chunked
  <2>1. str' = 1 /\ pc' = "chunks" /\ UNCHANGED response
    BY <1>2, <1>4 DEF nhr_response_append
  <2>2. Parsed' = Earlier
    BY <1>0, <1>2, <2>1 DEF Parsed, Values
  <2>4. CreateInv'
    BY <1>0, <1>1, <1>2, <2>1, <2>2 DEF CreateInv, Values
  <2>5. LengthInv'
    BY <1>1, <1>4 DEF LengthInv
  <2>6. ChunkInv'
    BY <1>1, <1>2, <1>4, <1>s, <2>1, <2>2 DEF IInv, ChunkInv, ParsedChunks
  <2>7. Grows
    BY <1>0, <2>1 DEF Grows, Values
  <2>8. QED
    BY <1>3, <1>t, <2>4, <2>5, <2>6, <2>7 DEF IInv
<1>5. CASE ~message.chunked
  <2> DEFINE T == message.packed \o message.trash
             c == message.content_length
             n == Earlier - 3
             k == received_len
             seg == Segment
  <2>1. response' = nhr_response_add_body_data(response, seg) /\ pc' = "finish" /\ UNCHANGED str
    BY <1>2, <1>5 DEF nhr_response_append
  <2>2. Parsed' = received
    BY <1>1, <2>1 DEF Parsed
  <2>3. /\ c \in Nat /\ n \in Nat /\ k \in Nat /\ k > 0 /\ n + k = received - 3
        /\ Expected = (IF c > 0 /\ n > c THEN c ELSE n)
        /\ Expected' = (IF c > 0 /\ n + k > c THEN c ELSE n + k)
    <3>1. c \in Nat /\ n \in Nat /\ k \in Nat /\ k > 0 /\ n + k = received - 3
      BY <1>0, <1>2 DEF Values
    <3>2. Expected = (IF c > 0 /\ n > c THEN c ELSE n)
      BY <1>0, <1>2 DEF Expected, Values
    <3>3. Expected' = (IF c > 0 /\ received - 3 > c THEN c ELSE received - 3)
      BY <1>0, <1>1, <2>2 DEF Expected, Values
    <3>4. QED
      BY <3>1, <3>2, <3>3
  <2>4. /\ Len(Wire(message)) = 3 + Len(message.packed) + Len(message.trash)
        /\ Len(message.packed) \in Nat /\ Len(message.trash) \in Nat
        /\ \A j \in 1 .. Len(message.packed) + Len(message.trash) : Wire(message)[3 + j] = T[j]
    BY <1>0, <1>5, WireBody DEF Values
  <2>5. /\ seg \in Seq(Octets) /\ Len(seg) = k
        /\ \A i \in 1 .. k : seg[i] = T[n + i]
    <3>1. /\ seg \in Seq(Octets) /\ Len(seg) = k
          /\ \A i \in 1 .. k : seg[i] = Wire(message)[Earlier + i]
      BY SegmentBytes
    <3>2. ASSUME NEW i \in 1 .. k
          PROVE  Wire(message)[Earlier + i] = T[n + i]
      <4>1. n + i \in 1 .. Len(message.packed) + Len(message.trash) /\ 3 + (n + i) = Earlier + i
        BY <1>0, <1>2, <2>3, <2>4 DEF Values
      <4>2. QED
        BY <2>4, <4>1
    <3>3. QED
      BY <3>1, <3>2
  <2>6. response \in ResponseType
    BY <1>0 DEF Values
  <2> HIDE DEF seg, T
  <2>7. /\ response' \in ResponseType
        /\ response'.body = Cut(response.body \o seg, c)
        /\ response'.content_length = message.content_length
        /\ response'.chunked = message.chunked /\ response'.gzip = message.gzip
        /\ response'.is_finished = response.is_finished
    BY <1>2, <2>1, <2>5, <2>6, AddBodyData
  <2>8. CreateInv' /\ ChunkInv'
    BY <1>0, <1>1, <1>2, <1>5, <2>1, <2>2, <2>7 DEF CreateInv, ChunkInv, Values
  <2>9. response.is_finished => c > 0 /\ Expected = c /\ Expected' = c
    <3>1. response.is_finished => c > 0 /\ Expected = c
      BY <1>1, <1>5 DEF IInv, LengthInv
    <3> HIDE DEF c, n, k
    <3>2. QED
      BY <2>3, <3>1
  <2> HIDE DEF c, n, k
  <2>10. CASE Fragile(message) /\ response.is_finished
    <3>1. Spoiled'
      BY <1>1, <1>s, <2>10, EndBefore, <1>0, EndOfMessage DEF Spoiled, Values
    <3>2. LengthInv'
      BY <1>1, <2>1, <2>7, <2>9, <2>10, <3>1 DEF LengthInv, c
    <3>3. Grows
      BY <2>7, <2>10 DEF Grows
    <3>4. QED
      BY <1>3, <1>t, <2>8, <3>2, <3>3 DEF IInv
  <2>11. CASE ~(Fragile(message) /\ response.is_finished)
    <3>1. /\ response.body \in Seq(Octets) /\ Len(response.body) = Expected
          /\ \A i \in 1 .. Expected : response.body[i] = T[i]
      BY <1>0, <1>1, <1>5, <2>11 DEF IInv, LengthInv, Values, T
    <3>2. /\ Len(response'.body) = Expected'
           /\ \A i \in 1 .. Expected' : response'.body[i] = T[i]
      <4> DEFINE s == response.body \o seg
                 e == Expected
                 x == Expected'
      <4>1. e \in Nat /\ x \in Nat
        BY <2>3
      <4>2. /\ s \in Seq(Octets) /\ Len(s) = e + k
            /\ \A i \in 1 .. e : s[i] = T[i]
            /\ \A i \in 1 .. k : s[e + i] = T[n + i]
        <5>0. response.body \in Seq(Octets) /\ seg \in Seq(Octets) /\ s = response.body \o seg
          BY <2>5, <3>1
        <5>1. /\ s \in Seq(Octets) /\ Len(s) = Len(response.body) + Len(seg)
              /\ \A i \in 1 .. Len(response.body) : s[i] = response.body[i]
              /\ \A i \in 1 .. Len(seg) : s[Len(response.body) + i] = seg[i]
          <6> HIDE DEF s
          <6>1. QED
            BY <5>0, ConcatMembers
        <5>2. QED
          BY <2>5, <3>1, <5>1
      <4>3. response'.body = Cut(s, c)
        BY <2>7
      <4>4. /\ e = (IF c > 0 /\ n > c THEN c ELSE n)
            /\ x = (IF c > 0 /\ n + k > c THEN c ELSE n + k)
        BY <2>3
      <4> HIDE DEF s, e, x
      <4>5. CASE c > 0 /\ n > c
        BY <2>3, <4>1, <4>2, <4>3, <4>4, <4>5 DEF Cut
      <4>6. CASE ~(c > 0 /\ n > c)
        <5>1. e = n /\ Len(s) = n + k /\ x \in 0 .. n + k
          BY <2>3, <4>1, <4>2, <4>4, <4>6
        <5>2. ASSUME NEW i \in 1 .. n + k
              PROVE  s[i] = T[i]
          <6>1. CASE i <= n
            BY <2>3, <4>2, <5>1, <6>1
          <6>2. CASE ~(i <= n)
            <7>1. i - n \in 1 .. k /\ n + (i - n) = i
              BY <2>3, <6>2
            <7>2. QED
              BY <4>2, <5>1, <7>1
          <6>3. QED
            BY <6>1, <6>2
        <5>3. Len(Cut(s, c)) = x /\ \A i \in 1 .. x : Cut(s, c)[i] = s[i] /\ i \in 1 .. n + k
          BY <2>3, <4>2, <4>4, <5>1 DEF Cut
        <5>4. QED
          BY <4>3, <5>2, <5>3 DEF x
      <4>7. QED
        BY <4>5, <4>6 DEF x
    <3>3. ASSUME response.is_finished
          PROVE  response'.body = response.body
      <4>1. Expected' = Expected /\ response'.body \in Seq(Octets)
        BY <2>7, <2>9, <3>3
      <4>2. QED
        BY <3>1, <3>2, <4>1, SameMembers
    <3>4. LengthInv'
      <4>1. response.is_finished => response.body = Content(message)
        BY <1>1, <1>5, <2>11 DEF IInv, LengthInv, Spoiled
      <4>2. response'.is_finished => response'.body = Content(message)
        BY <2>7, <3>3, <4>1
      <4>3. QED
        BY <1>1, <2>1, <2>7, <2>9, <3>2, <4>2 DEF LengthInv, T, c
    <3>5. Grows
      <4>1. Expected <= Expected'
        BY <2>3
      <4>2. QED
        BY <2>7, <3>1, <3>2, <4>1 DEF Grows
    <3>6. QED
      BY <1>3, <1>t, <2>8, <3>4, <3>5 DEF IInv
  <2>12. QED
    BY <2>10, <2>11
<1>6. QED
  BY <1>4, <1>5

\* A response is found complete when all of the body is there as it was sent.
LEMMA CompleteBody ==
    ASSUME Setting, IInv, pc = "finish", ~response.is_finished,
           nhr_response_is_finished_receiving(response)
    PROVE  response.body = message.packed
<1>0. Values /\ WellFormed(message)
  BY ValuesType
<1>1. /\ created /\ response.chunked = message.chunked
      /\ response.content_length = message.content_length
  BY DEF IInv, CreateInv
<1>2. CASE message.chunked
  <2>1. PICK k \in 0 .. Len(message.frames) : ParsedChunks(k)
    BY <1>1, <1>2 DEF IInv, ChunkInv
  <2>2. response.body = FirstData(message, Len(message.frames))
    BY <1>1, <1>2, <2>1 DEF ParsedChunks, nhr_response_is_finished_receiving
  <2>3. QED
    BY <1>0, <2>2, DataStep DEF WellFormed, Values
<1>3. CASE ~message.chunked
  <2> DEFINE T == message.packed \o message.trash
             c == message.content_length
  <2>1. Len(response.body) = Expected /\ \A i \in 1 .. Expected : response.body[i] = T[i]
    BY <1>1, <1>3 DEF IInv, LengthInv
  <2>2. c > 0 /\ c = Len(response.body)
    BY <1>1, <1>3 DEF nhr_response_is_finished_receiving
  <2>3. /\ message \in MessageType /\ response.body \in Seq(Octets)
        /\ message.packed \in Seq(Octets) /\ message.trash \in Seq(Octets)
    BY <1>0 DEF Values
  <2>4. c = Len(message.packed)
    BY <1>0, <1>3, <2>2, <2>3 DEF WellFormed
  <2>5. \A i \in 1 .. Len(message.packed) : T[i] = message.packed[i]
    BY <2>3
  <2>6. \A i \in 1 .. Len(response.body) : response.body[i] = message.packed[i]
    BY <2>1, <2>2, <2>4, <2>5
  <2>7. QED
    BY <2>2, <2>3, <2>4, <2>6, SameMembers
<1>4. QED
  BY <1>2, <1>3

\* What nhr_response_check_is_finished makes of a response.
LEMMA FinishFacts ==
    ASSUME Setting, IInv, finish
    PROVE  /\ response' \in ResponseType
           /\ response'.content_length = message.content_length
           /\ response'.chunked = message.chunked /\ response'.gzip = message.gzip
           /\ response'.is_all_chunks_processed = response.is_all_chunks_processed
           /\ IF nhr_response_is_finished_receiving(response)
              THEN response'.is_finished /\ response'.body = Unpacked(response)
              ELSE response' = response
<1>1. /\ response' = nhr_response_check_is_finished(response) /\ pc = "finish"
      /\ response \in ResponseType
  BY DEF finish, IInv, TypeOK
<1>2. /\ response.content_length = message.content_length
      /\ response.chunked = message.chunked /\ response.gzip = message.gzip
  BY <1>1 DEF IInv, CreateInv
<1>3. QED
  BY <1>1, <1>2, CheckIsFinished

\* A body that was sent becomes the content, and a content that is not Fragile stays.
LEMMA ContentStays ==
    ASSUME response.gzip = message.gzip,
           \/ response.body = message.packed
           \/ response.body = Content(message) /\ ~Fragile(message)
    PROVE  Unpacked(response) = Content(message)
BY DEF Unpacked, Content, Fragile

\* A response that is found complete, for the first time or again.
LEMMA FinishBody ==
    ASSUME Setting, IInv, finish, nhr_response_is_finished_receiving(response)
    PROVE  /\ response'.is_finished
           /\ ~Spoiled \/ ~response.is_finished => response'.body = Content(message)
           /\ End(message) <= received
<1>0. Values /\ WellFormed(message)
  BY ValuesType
<1>1. pc = "finish" /\ created /\ Parsed = received
      /\ response.gzip = message.gzip /\ response.chunked = message.chunked
      /\ response.content_length = message.content_length
  BY DEF finish, IInv, CreateInv, Parsed
<1>2. response'.is_finished /\ response'.body = Unpacked(response)
  BY FinishFacts
<1>3. End(message) \in Nat /\ message \in MessageType
  BY <1>0, EndOfMessage DEF Values
<1>4. CASE response.is_finished
  <2>1. End(message) <= Earlier /\ Earlier <= received
    BY <1>0, <1>1, <1>4, EndBefore DEF Values
  <2>2. ASSUME ~Spoiled
        PROVE  response'.body = Content(message)
    <3>1. ~Fragile(message)
      BY <1>0, <1>3, <2>1, <2>2 DEF Spoiled, Values
    <3>2. response.body = Content(message)
      BY <1>1, <1>4, <2>2 DEF IInv, LengthInv, ChunkInv, ParsedChunks
    <3>3. QED
      BY <1>1, <1>2, <3>1, <3>2, ContentStays
  <2>3. QED
    BY <1>0, <1>2, <1>3, <1>4, <2>1, <2>2 DEF Values
<1>5. CASE ~response.is_finished
  <2>1. response.body = message.packed
    BY <1>1, <1>5, CompleteBody
  <2>2. response'.body = Content(message)
    BY <1>1, <1>2, <2>1, ContentStays
  <2>3. End(message) <= received
    <3>1. CASE message.chunked
      <4>1. PICK k \in 0 .. Len(message.frames) : ParsedChunks(k)
        BY <1>1, <3>1 DEF IInv, ChunkInv
      <4>2. k = Len(message.frames)
        BY <1>1, <3>1, <4>1 DEF ParsedChunks, nhr_response_is_finished_receiving
      <4>3. End(message) = 3 + Len(FirstFrames(message, k)) /\ Len(Header) = 3
        BY <1>3, <4>2, EndOfMessage, Literals
      <4>4. QED
        BY <1>0, <1>1, <1>3, <4>1, <4>3 DEF ParsedChunks, Values
    <3>2. CASE ~message.chunked
      <4>1. End(message) = 3 + Len(message.packed) /\ Len(message.packed) \in Nat
        BY <1>0, <1>3, <3>2, WireBody
      <4>2. Len(message.packed) = Expected
        BY <1>1, <1>5, <2>1, <3>2 DEF IInv, LengthInv
      <4>3. Expected = IF message.content_length > 0 /\ received - 3 > message.content_length
                       THEN message.content_length ELSE received - 3
        BY <1>0, <1>1 DEF Expected, Values
      <4>4. QED
        BY <1>0, <4>1, <4>2, <4>3 DEF Values
    <3>3. QED
      BY <3>1, <3>2
  <2>4. QED
    BY <1>2, <2>2, <2>3
<1>6. QED
  BY <1>4, <1>5

\* A concatenation begins with its first part.
LEMMA Beginning ==
    ASSUME NEW s \in Seq(Octets), NEW t \in Seq(Octets)
    PROVE  \A i \in 1 .. Len(s) : (s \o t)[i] = s[i]
OBVIOUS

\* The response may turn out to be complete.
LEMMA FinishStep ==
    ASSUME Setting, IInv, finish
    PROVE  IInv'
<1>0. Values /\ WellFormed(message)
  BY ValuesType
<1>1. pc = "finish" /\ pc' = "recv" /\ UNCHANGED <<message, received, buff, received_len, created, str>>
  BY DEF finish
<1>2. created /\ Parsed = received /\ Parsed' = received /\ Earlier' = Earlier
  BY <1>1 DEF IInv, CreateInv, Parsed, Earlier
<1>3. BufferInv'
  BY <1>1, <1>2 DEF IInv, BufferInv, Boundary, StartsSize, ByteOf
<1>4. TypeOK' /\ BlockInv'
  BY SafeStep DEF IInv, Next
<1>5. CreateInv'
  BY <1>1, <1>2, FinishFacts DEF IInv, CreateInv
<1>6. Spoiled' = Spoiled
  BY <1>1, <1>2 DEF Spoiled
<1>7. CASE ~nhr_response_is_finished_receiving(response)
  <2>1. response' = response
    BY <1>7, FinishFacts
  <2>2. FinishInv'
    <3>1. response.is_finished => End(message) <= Earlier
      BY <1>1, EndBefore
    <3>2. End(message) \in Nat
      BY <1>0, EndOfMessage DEF Values
    <3>3. QED
      BY <1>0, <1>1, <2>1, <3>1, <3>2 DEF FinishInv, Values
  <2>3. LengthInv'
    BY <1>1, <1>2, <1>6, <2>1 DEF IInv, LengthInv, Expected
  <2>4. ChunkInv'
    <3>1. ASSUME message.chunked, NEW k \in 0 .. Len(message.frames), ParsedChunks(k)
          PROVE  ParsedChunks(k)'
      <4>1. response.is_all_chunks_processed # TRUE
        BY <1>1, <1>2, <1>7, <3>1
           DEF IInv, CreateInv, nhr_response_is_finished_receiving
      <4>2. k # Len(message.frames)
        BY <3>1, <4>1 DEF ParsedChunks
      <4>3. QED
        BY <1>1, <1>2, <1>6, <2>1, <3>1, <4>2 DEF ParsedChunks
    <3>2. QED
      BY <1>1, <1>2, <3>1 DEF IInv, ChunkInv
  <2>5. QED
    BY <1>3, <1>4, <1>5, <2>2, <2>3, <2>4 DEF IInv
<1>8. CASE nhr_response_is_finished_receiving(response)
  <2>1. /\ response'.is_finished
        /\ ~Spoiled \/ ~response.is_finished => response'.body = Content(message)
        /\ End(message) <= received
    BY <1>8, FinishBody
  <2>2. FinishInv'
    BY <1>1, <2>1 DEF FinishInv
  <2>3. LengthInv'
    <3> SUFFICES ASSUME ~message.chunked
                 PROVE  LengthInv'
      BY <1>1 DEF LengthInv
    <3> DEFINE T == message.packed \o message.trash
               c == message.content_length
    <3>1. Expected' = Expected
      BY <1>1, <1>2 DEF Expected
    <3>2. c > 0 /\ c = Len(response.body)
      BY <1>1, <1>2, <1>8 DEF IInv, CreateInv, nhr_response_is_finished_receiving
    <3>3. Expected = c
      <4>1. response.is_finished => Expected = c
        BY <1>2 DEF IInv, LengthInv
      <4>2. ~response.is_finished => Expected = Len(response.body)
        BY <1>2 DEF IInv, LengthInv
      <4>3. QED
        BY <3>2, <4>1, <4>2
    <3>4. ASSUME ~Fragile(message)
          PROVE  /\ Len(response'.body) = Expected
                 /\ \A i \in 1 .. Expected : response'.body[i] = T[i]
      <4>1. response'.body = message.packed
        BY <2>1, <3>4 DEF Spoiled, Content, Fragile
      <4>2. message.packed \in Seq(Octets) /\ message.trash \in Seq(Octets)
        BY <1>0 DEF Values
      <4>3. Len(message.packed) = c
        BY <1>0, <3>2, <4>2 DEF WellFormed
      <4>4. \A i \in 1 .. Len(message.packed) : T[i] = message.packed[i]
        BY <4>2, Beginning
      <4> HIDE DEF T
      <4>5. QED
        BY <3>3, <4>1, <4>3, <4>4
    <3>5. QED
      BY <1>1, <1>6, <2>1, <3>1, <3>2, <3>3, <3>4 DEF LengthInv
  <2>4. ChunkInv'
    <3>1. ASSUME message.chunked, NEW k \in 0 .. Len(message.frames), ParsedChunks(k)
          PROVE  ParsedChunks(k)'
      <4>1. response.is_all_chunks_processed
        BY <1>1, <1>2, <1>8, <3>1
           DEF IInv, CreateInv, nhr_response_is_finished_receiving
      <4>2. k = Len(message.frames)
        BY <3>1, <4>1 DEF ParsedChunks
      <4>3. response'.is_all_chunks_processed = response.is_all_chunks_processed
        BY FinishFacts
      <4>4. QED
        BY <1>1, <1>2, <1>6, <2>1, <3>1, <4>2, <4>3 DEF ParsedChunks
    <3>2. QED
      BY <1>1, <1>2, <3>1 DEF IInv, ChunkInv
  <2>5. QED
    BY <1>3, <1>4, <1>5, <2>2, <2>3, <2>4 DEF IInv
<1>9. QED
  BY <1>7, <1>8

\* The bytes of a chunk: the size line, the data, and a line end.
IsChunk(w, p, q, a, d) ==
    /\ a \in Nat /\ d \in Nat /\ Len(w) = a + d + 4
    /\ \A j \in 1 .. a : w[j] = p[j]
    /\ w[a + 1] = "cr" /\ w[a + 2] = "lf"
    /\ \A j \in 1 .. d : w[a + 2 + j] = q[j]
    /\ w[a + d + 3] = "cr" /\ w[a + d + 4] = "lf"

LEMMA ChunkMembers ==
    ASSUME NEW p \in Seq(Octets), NEW q \in Seq(Octets), NEW w, w = p \o CRLF \o q \o CRLF,
           NEW a, a = Len(p), NEW d, d = Len(q)
    PROVE  IsChunk(w, p, q, a, d)
<1> DEFINE u == p \o CRLF
           v == u \o q
<1>1. CRLF \in Seq(Octets) /\ Len(CRLF) = 2 /\ CRLF[1] = "cr" /\ CRLF[2] = "lf"
  BY Literals
<1>2. u = p \o CRLF /\ v = u \o q /\ w = v \o CRLF
  OBVIOUS
<1> HIDE DEF u, v
<1>3. /\ u \in Seq(Octets) /\ Len(u) = a + 2 /\ a \in Nat
      /\ \A j \in 1 .. a : u[j] = p[j]
      /\ u[a + 1] = "cr" /\ u[a + 2] = "lf"
  <2>1. /\ u \in Seq(Octets) /\ Len(u) = Len(p) + Len(CRLF) /\ Len(p) \in Nat
        /\ \A j \in 1 .. Len(p) : u[j] = p[j]
        /\ \A j \in 1 .. Len(CRLF) : u[Len(p) + j] = CRLF[j]
    <3>1. p \in Seq(Octets) /\ CRLF \in Seq(Octets) /\ u = p \o CRLF
      BY <1>1, <1>2
    <3>2. QED
      BY <3>1, ConcatMembers
  <2>2. QED
    BY <1>1, <2>1
<1>4. /\ v \in Seq(Octets) /\ Len(v) = a + 2 + d /\ d \in Nat
      /\ \A j \in 1 .. a + 2 : v[j] = u[j]
      /\ \A j \in 1 .. d : v[a + 2 + j] = q[j]
  <2>1. /\ v \in Seq(Octets) /\ Len(v) = Len(u) + Len(q) /\ Len(q) \in Nat
        /\ \A j \in 1 .. Len(u) : v[j] = u[j]
        /\ \A j \in 1 .. Len(q) : v[Len(u) + j] = q[j]
    <3>1. u \in Seq(Octets) /\ q \in Seq(Octets) /\ v = u \o q
      BY <1>2, <1>3
    <3>2. QED
      BY <3>1, ConcatMembers
  <2>2. QED
    BY <1>3, <2>1
<1>5. /\ Len(w) = a + d + 4
      /\ \A j \in 1 .. a + 2 + d : w[j] = v[j]
      /\ w[a + d + 3] = "cr" /\ w[a + d + 4] = "lf"
  <2>1. /\ Len(w) = Len(v) + Len(CRLF)
        /\ \A j \in 1 .. Len(v) : w[j] = v[j]
        /\ \A j \in 1 .. Len(CRLF) : w[Len(v) + j] = CRLF[j]
    <3>1. v \in Seq(Octets) /\ CRLF \in Seq(Octets) /\ w = v \o CRLF
      BY <1>1, <1>2, <1>4
    <3>2. QED
      BY <3>1, ConcatMembers
  <2>2. /\ Len(v) + 1 = a + d + 3 /\ Len(v) + 2 = a + d + 4 /\ Len(v) + Len(CRLF) = a + d + 4
        /\ 1 \in 1 .. Len(CRLF) /\ 2 \in 1 .. Len(CRLF)
    BY <1>1, <1>3, <1>4
  <2>3. QED
    BY <1>1, <1>4, <2>1, <2>2
<1>6. /\ \A j \in 1 .. a : j \in 1 .. a + 2 /\ j \in 1 .. a + 2 + d
      /\ a + 1 \in 1 .. a + 2 /\ a + 2 \in 1 .. a + 2
      /\ a + 1 \in 1 .. a + 2 + d /\ a + 2 \in 1 .. a + 2 + d
      /\ \A j \in 1 .. d : a + 2 + j \in 1 .. a + 2 + d
  BY <1>3, <1>4
<1>7. \A j \in 1 .. a : w[j] = p[j]
  BY <1>3, <1>4, <1>5, <1>6
<1>8. w[a + 1] = "cr" /\ w[a + 2] = "lf"
  BY <1>3, <1>4, <1>5, <1>6
<1>9. \A j \in 1 .. d : w[a + 2 + j] = q[j]
  BY <1>4, <1>5, <1>6
<1>10. QED
  BY <1>3, <1>4, <1>5, <1>7, <1>8, <1>9 DEF IsChunk

\* What the parser finds from its cursor on, up to the end of the segment, and there.
LEMMA AfterCursor ==
    ASSUME Setting, IInv, pc = "chunks"
    PROVE  /\ \A j \in Nat \ {0} :
                Parsed + j <= received => Byte(str + j - 1) = Wire(message)[Parsed + j]
           /\ message.chunked => Byte(received_len + 1) \notin Digits \cup {"cr", "lf"}
<1>0. Values
  BY ValuesType
<1>1. Parsed = Earlier + str - 1
  BY DEF Parsed
<1>2. ASSUME NEW j \in Nat \ {0}, Parsed + j <= received
      PROVE  Byte(str + j - 1) = Wire(message)[Parsed + j]
  <2>1. /\ str + j - 1 \in 1 .. received_len /\ str + j - 1 <= BuffSize
        /\ Earlier + (str + j - 1) = Parsed + j
    BY <1>0, <1>1, <1>2 DEF Values
  <2>2. buff[str + j - 1] = Wire(message)[Earlier + (str + j - 1)]
    BY <2>1 DEF IInv, BufferInv
  <2>3. QED
    BY <2>1, <2>2 DEF Byte, ByteOf
<1>3. received > 0
  <2>1. created
    BY DEF IInv, CreateInv
  <2>2. received_len > 0
    BY <2>1 DEF IInv, CreateInv
  <2>3. QED
    BY <1>0, <2>2 DEF Values
<1>4. QED
  BY <1>2, <1>3 DEF IInv, BufferInv, StartsSize, Byte

\* A segment that goes on behind k chunks holds all of the next one.
LEMMA ChunkWhole ==
    ASSUME Setting, IInv, message.chunked, NEW k \in 0 .. Len(message.frames) - 1,
           3 + Len(FirstFrames(message, k)) < received
    PROVE  3 + Len(FirstFrames(message, k + 1)) <= received
<1>0. Values
  BY ValuesType
<1> DEFINE P(j) == Len(FirstFrames(message, j))
           n == Len(message.frames)
<1>1. message \in MessageType /\ n \in Nat
  BY <1>0, FrameTypes DEF Values
<1>2. \A j \in 0 .. n : P(j) \in Nat
  BY <1>1, FramesStep
<1>3. \A i \in 0 .. n : \A j \in 0 .. n : i <= j => P(i) <= P(j)
  BY <1>1, FrameTypes, FlattenGrows DEF FirstFrames, Starts
<1>4. 3 + P(k + 1) <= Len(Wire(message))
  BY <1>1, WireFrame
<1>5. received > 0 /\ received > 3
  BY <1>0, <1>1, <1>2 DEF Values
<1>6. PICK j \in 0 .. n : received = 3 + P(j) \/ received = Len(Wire(message))
  BY <1>0, <1>5, ValuesType DEF IInv, BufferInv, Boundary, Values
<1>7. k \in 0 .. n /\ k + 1 \in 0 .. n
  BY <1>1
<1> HIDE DEF P
<1>8. CASE received = 3 + P(j)
  <2>1. ~(j <= k)
    <3>1. j <= k => P(j) <= P(k)
      BY <1>3, <1>7
    <3>2. 3 + P(k) < received /\ P(k) \in Nat /\ P(j) \in Nat
      BY <1>2, <1>7 DEF P
    <3>3. QED
      BY <1>8, <3>1, <3>2
  <2>2. k + 1 <= j
    BY <1>1, <1>7, <2>1
  <2>3. P(k + 1) <= P(j) /\ P(k + 1) \in Nat /\ P(j) \in Nat
    BY <1>2, <1>3, <1>7, <2>2
  <2>4. QED
    BY <1>8, <2>3 DEF P
<1>9. QED
  BY <1>4, <1>6, <1>8 DEF P

\* The chunk at the cursor is read as the server wrote it.
LEMMA NextChunk ==
    ASSUME message \in MessageType, Setting, IInv, pc = "chunks", message.chunked,
           NEW k \in 0 .. Len(message.frames) - 1,
           Parsed = 3 + Len(FirstFrames(message, k)), Parsed < received
    PROVE  LET p == message.frames[k + 1].size
               q == message.frames[k + 1].data
           IN /\ q \in Seq(Octets) /\ Len(p) \in Nat /\ Len(q) \in Nat
              /\ ChunkDigits(str) = p /\ p # <<>>
              /\ SkipWhile(str, Digits) = str + Len(p)
              /\ HexValue(p) = Len(q)
              /\ Bytes(str + Len(p) + 2, Len(q)) = q
              /\ q = <<>> => Bytes(str + Len(p), 4) = CRLF \o CRLF
              /\ q = <<>> <=> k + 1 = Len(message.frames)
              /\ Len(FirstFrames(message, k + 1)) = Len(FirstFrames(message, k)) + (Len(p) + Len(q) + 4)
              /\ 3 + Len(FirstFrames(message, k + 1)) <= received
<1>0. Values /\ WellFormed(message)
  BY ValuesType
<1> DEFINE p == message.frames[k + 1].size
           q == message.frames[k + 1].data
           F == FrameBytes(message)[k + 1]
           a == Len(p)
           d == Len(q)
           i == str
           L == Len(FirstFrames(message, k))
           N == Len(FirstFrames(message, k + 1))
<1>1. message \in MessageType /\ Len(message.frames) \in Nat /\ k + 1 \in 1 .. Len(message.frames)
  BY FrameTypes
<1>2. p \in Seq(Octets) /\ q \in Seq(Octets) /\ F = p \o CRLF \o q \o CRLF
  BY <1>1, FrameTypes
<1>3. /\ p # <<>> /\ (\A j \in 1 .. a : p[j] \in Digits) /\ HexValue(p) = d
      /\ q = <<>> <=> k + 1 = Len(message.frames)
  BY <1>0, <1>1 DEF WellFormed
<1>4. /\ L \in Nat /\ N = L + Len(F)
      /\ \A j \in 1 .. Len(F) : Wire(message)[3 + L + j] = F[j]
  <2>1. /\ FirstFrames(message, k) \in Seq(Octets) /\ N = L + Len(F)
        /\ \A j \in 1 .. Len(F) : Wire(message)[3 + L + j] = F[j]
    BY <1>1, WireFrame
  <2>2. QED
    BY <2>1
<1>5. Parsed = 3 + L /\ 3 + N <= received
  BY ChunkWhole
<1>6. /\ i \in Nat \ {0} /\ received \in Nat /\ received_len \in Nat /\ Earlier \in Nat
      /\ Earlier + received_len = received /\ received_len <= BuffSize /\ BuffSize \in Nat
      /\ Parsed = Earlier + i - 1
  BY <1>0 DEF Values, Parsed
<1> HIDE DEF p, q, F, a, d, i, L, N
<1>7. /\ a \in Nat /\ d \in Nat /\ Len(F) = a + d + 4
      /\ \A j \in 1 .. a : F[j] = p[j]
      /\ F[a + 1] = "cr" /\ F[a + 2] = "lf"
      /\ \A j \in 1 .. d : F[a + 2 + j] = q[j]
      /\ F[a + d + 3] = "cr" /\ F[a + d + 4] = "lf"
  <2>1. a = Len(p) /\ d = Len(q)
    BY DEF a, d
  <2>2. IsChunk(F, p, q, a, d)
    BY <1>2, <2>1, ChunkMembers
  <2>3. QED
    BY <2>2 DEF IsChunk
<1>8. ASSUME NEW j \in 1 .. a + d + 4
      PROVE  Byte(i + j - 1) = F[j]
  <2>0. N = L + (a + d + 4) /\ L \in Nat /\ a \in Nat /\ d \in Nat
    BY <1>4, <1>7
  <2>1. j \in Nat \ {0} /\ Parsed + j <= received
    BY <1>5, <1>6, <2>0
  <2>2. Byte(i + j - 1) = Wire(message)[Parsed + j]
    BY <2>1, AfterCursor DEF i
  <2>3. QED
    BY <1>4, <1>5, <1>7, <2>2
<1>9. a + d + 4 <= received_len /\ a <= BuffSize /\ a # 0
  <2>1. a # 0
    BY <1>2, <1>3 DEF a
  <2>2. QED
    BY <1>4, <1>5, <1>6, <1>7, <2>1
<1>10. ChunkDigits(i) = p /\ SkipWhile(i, Digits) = i + a
  <2>1. \A j \in 1 .. a : Byte(i + j - 1) = p[j]
    BY <1>7, <1>8
  <2>2. Byte(i + a) = "cr"
    <3>1. a + 1 \in 1 .. a + d + 4 /\ i + (a + 1) - 1 = i + a
      BY <1>6, <1>7
    <3>2. QED
      BY <1>7, <1>8, <3>1
  <2>3. a = Len(p)
    BY DEF a
  <2>4. QED
    BY <1>2, <1>3, <1>6, <1>9, <2>1, <2>2, <2>3, ReadsDigits
<1>11. Bytes(i + a + 2, d) = q
  <2>1. ASSUME NEW j \in 1 .. d
        PROVE  Byte((i + a + 2) + j - 1) = q[j]
    <3>1. a + 2 + j \in 1 .. a + d + 4 /\ i + (a + 2 + j) - 1 = (i + a + 2) + j - 1
      BY <1>6, <1>7
    <3>2. QED
      BY <1>7, <1>8, <3>1
  <2>2. i + a + 2 \in Nat /\ d = Len(q)
    BY <1>6, <1>7 DEF d
  <2>3. QED
    BY <1>2, <2>1, <2>2, BytesAre
<1>12. ASSUME q = <<>>
       PROVE  Bytes(i + a, 4) = CRLF \o CRLF
  <2>1. d = 0
    BY <1>12 DEF d
  <2>2. /\ a + 1 \in 1 .. a + d + 4 /\ i + (a + 1) - 1 = (i + a) + 1 - 1
        /\ a + 2 \in 1 .. a + d + 4 /\ i + (a + 2) - 1 = (i + a) + 2 - 1
        /\ a + 3 \in 1 .. a + d + 4 /\ i + (a + 3) - 1 = (i + a) + 3 - 1
        /\ a + 4 \in 1 .. a + d + 4 /\ i + (a + 4) - 1 = (i + a) + 4 - 1
        /\ a + d + 3 = a + 3 /\ a + d + 4 = a + 4
    BY <1>6, <1>7, <2>1
  <2>3. /\ Byte((i + a) + 1 - 1) = "cr" /\ Byte((i + a) + 2 - 1) = "lf"
        /\ Byte((i + a) + 3 - 1) = "cr" /\ Byte((i + a) + 4 - 1) = "lf"
    BY <1>7, <1>8, <2>2
  <2>5. CRLF \o CRLF = <<"cr", "lf", "cr", "lf">>
    BY EndOfChunks
  <2>6. Bytes(i + a, 4) = <<"cr", "lf", "cr", "lf">>
    <3>1. \A j \in 1 .. 4 : j = 1 \/ j = 2 \/ j = 3 \/ j = 4
      OBVIOUS
    <3>2. \A j \in 1 .. 4 : Byte((i + a) + j - 1) = <<"cr", "lf", "cr", "lf">>[j]
      BY <2>3, <3>1
    <3>3. Bytes(i + a, 4) = [j \in 1 .. 4 |-> <<"cr", "lf", "cr", "lf">>[j]]
      BY <3>2 DEF Bytes
    <3>4. QED
      BY <3>3
  <2>7. QED
    BY <2>5, <2>6
<1>13. QED
  <2>1. N = L + (a + d + 4)
    BY <1>4, <1>7
  <2>2. QED
    BY <1>2, <1>3, <1>5, <1>7, <1>10, <1>11, <1>12, <2>1 DEF p, q, a, d, i, L, N

\* Where the cursor is while the chunks are read.
LEMMA CursorFacts ==
    ASSUME Setting, IInv, pc = "chunks"
    PROVE  /\ created /\ message.chunked
           /\ Parsed = Earlier + str - 1 /\ Parsed \in Nat /\ 3 <= Parsed /\ Parsed <= received
           /\ str \in Nat \ {0} /\ str <= received_len + 1 /\ str <= BuffSize + 1
<1>0. Values
  BY ValuesType
<1>1. created
  BY DEF IInv, CreateInv
<1>2. message.chunked
  BY <1>1 DEF IInv, LengthInv
<1>3. 3 <= Parsed /\ Parsed <= received /\ Parsed = Earlier + str - 1
  BY <1>0, <1>1 DEF IInv, CreateInv, Parsed, Values
<1>4. QED
  BY <1>0, <1>1, <1>2, <1>3 DEF Values

\* Behind the last chunk, and at the end of a segment, there are no digits.
LEMMA NothingFollows ==
    ASSUME message \in MessageType, Setting, IInv, pc = "chunks",
           \/ Parsed = received
           \/ Parsed >= 3 + Len(FirstFrames(message, Len(message.frames)))
    PROVE  ChunkDigits(str) = <<>>
<1>0. Values /\ WellFormed(message)
  BY ValuesType
<1>1. /\ message.chunked /\ Parsed \in Nat
      /\ str \in Nat \ {0} /\ str <= BuffSize + 1
      /\ str <= received_len + 1 /\ Parsed = Earlier + str - 1
  BY CursorFacts
<1> DEFINE A == FirstFrames(message, Len(message.frames))
           i == str
           from == SkipWhile(i, {"cr", "lf"})
           e == received_len + 1
<1>2. A \in Seq(Octets) /\ Len(A) \in Nat /\ message.trash \in Seq(Octets) /\ Len(message.trash) \in Nat
  <2>1. Len(message.frames) \in 0 .. Len(message.frames)
    BY FrameTypes
  <2>2. A \in Seq(Octets)
    BY <2>1, FramesStep
  <2>3. QED
    BY <2>2
<1>3. /\ Len(Wire(message)) = 3 + Len(A) + Len(message.trash)
      /\ \A j \in 1 .. Len(A) + Len(message.trash) : Wire(message)[3 + j] = (A \o message.trash)[j]
  BY WireStart
<1>4. \A j \in 1 .. Len(message.trash) : message.trash[j] \notin Digits
  BY <1>0, <1>1 DEF WellFormed
<1>5. /\ received \in Nat /\ received <= Len(Wire(message)) /\ Earlier \in Nat
      /\ received = Earlier + received_len /\ received_len \in Nat
  BY <1>0 DEF Values
<1>6. i \in Nat \ {0} /\ i <= e /\ e \in Nat /\ Parsed = Earlier + i - 1
  BY <1>1, <1>5
<1>7. \/ Parsed = received
      \/ Parsed >= 3 + Len(A)
  OBVIOUS
<1>8. Byte(e) \notin Digits \cup {"cr", "lf"}
  BY <1>1, AfterCursor
<1> HIDE DEF A, i, e
<1>9. ASSUME NEW x \in Nat, i <= x, x < e
      PROVE  Byte(x) \notin Digits
  <2> DEFINE j == x - i + 1
             t == Parsed + j - (3 + Len(A))
  <2>1. j \in Nat \ {0} /\ i + j - 1 = x
    BY <1>6, <1>9
  <2>2. Parsed + j <= received
    BY <1>5, <1>6, <1>9 DEF e
  <2> HIDE DEF j
  <2>3. Byte(x) = Wire(message)[Parsed + j]
    BY <2>1, <2>2, AfterCursor DEF i
  <2>4. Parsed >= 3 + Len(A)
    BY <1>1, <1>5, <1>7, <2>1, <2>2
  <2>5. /\ t \in 1 .. Len(message.trash) /\ Len(A) + t \in 1 .. Len(A) + Len(message.trash)
        /\ 3 + (Len(A) + t) = Parsed + j
    BY <1>1, <1>2, <1>3, <1>5, <2>1, <2>2, <2>4
  <2> HIDE DEF t
  <2>6. (A \o message.trash)[Len(A) + t] = message.trash[t]
    BY <1>2, <2>5
  <2>7. Wire(message)[Parsed + j] = message.trash[t]
    BY <1>3, <2>5, <2>6
  <2>8. QED
    BY <1>4, <2>3, <2>5, <2>7
<1>10. /\ from \in i .. BuffSize + i /\ Byte(from) \notin {"cr", "lf"}
       /\ \A k \in i .. from - 1 : Byte(k) \in {"cr", "lf"}
  BY <1>6, SkipEnds
<1> HIDE DEF from
<1>11. from \in Nat /\ i <= from /\ from <= e
  <2>1. from \in Nat /\ i <= from
    BY <1>6, <1>10, SizesAssumption
  <2>2. ~(e < from)
    <3>1. e < from => e \in i .. from - 1
      BY <1>6, <2>1
    <3>2. QED
      BY <1>8, <1>10, <3>1
  <2>3. QED
    BY <1>6, <2>1, <2>2
<1>12. Byte(from) \notin Digits
  <2>1. from = e \/ from < e
    BY <1>6, <1>11
  <2>2. QED
    BY <1>8, <1>9, <1>11, <2>1
<1>13. QED
  BY <1>6, <1>10, <1>12, NoChunk DEF i

\* The loop ends: nothing more is parsed in this segment.
LEMMA StopStep ==
    ASSUME Setting, IInv, pc = "chunks", pc' = "finish", response' = response,
           UNCHANGED <<message, received, buff, received_len, created, str>>,
           NEW k \in 0 .. Len(message.frames), ParsedChunks(k),
           k = Len(message.frames) \/ Parsed = received
    PROVE  IInv' /\ Grows
<1>0. Values
  BY ValuesType
<1>1. created /\ message.chunked /\ Parsed \in Nat /\ 3 <= Parsed /\ Parsed <= received
  BY CursorFacts
<1>2. Parsed' = received /\ Earlier' = Earlier
  BY DEF Parsed, Earlier
<1>3. TypeOK' /\ BlockInv' /\ BufferInv' /\ FinishInv'
  <2>1. TypeOK' /\ BlockInv'
    BY DEF IInv, TypeOK, BlockInv, BodyFits
  <2>2. BufferInv'
    BY <1>2 DEF IInv, BufferInv, Boundary, StartsSize, ByteOf
  <2>3. FinishInv'
    BY <1>2, EndBefore DEF FinishInv
  <2>4. QED
    BY <2>1, <2>2, <2>3
<1>4. CreateInv'
  <2>1. /\ received_len > 0 /\ Len(Header) = 3
        /\ response.content_length = message.content_length
        /\ response.chunked = message.chunked /\ response.gzip = message.gzip
    BY <1>0, <1>1 DEF IInv, CreateInv, Values
  <2>2. 3 <= received /\ received <= received
    BY <1>0, <1>1 DEF Values
  <2>3. QED
    BY <1>1, <1>2, <2>1, <2>2 DEF CreateInv
<1>5. LengthInv' /\ Spoiled' = Spoiled
  BY <1>1, <1>2 DEF LengthInv, Spoiled
<1>6. ParsedChunks(k)'
  <2>1. Len(FirstFrames(message, k)) \in Nat
    <3>1. message \in MessageType
      BY <1>0 DEF Values
    <3>2. FirstFrames(message, k) \in Seq(Octets)
      BY <3>1, FramesStep
    <3>3. QED
      BY <3>2
  <2>2. \/ received = Len(Header) + Len(FirstFrames(message, k))
        \/ k = Len(message.frames) /\ received >= Len(Header) + Len(FirstFrames(message, k))
    <3>1. /\ \/ Parsed = Len(Header) + Len(FirstFrames(message, k))
             \/ /\ k = Len(message.frames)
                /\ Parsed >= Len(Header) + Len(FirstFrames(message, k))
          /\ Len(Header) = 3 /\ received \in Nat
      BY <1>0 DEF ParsedChunks, Values
    <3>2. QED
      BY <1>1, <2>1, <3>1
  <2>3. QED
    BY <1>2, <1>5, <2>2 DEF ParsedChunks
<1>7. ChunkInv'
  BY <1>6 DEF ChunkInv
<1>8. Grows
  BY <1>0 DEF Grows, Values
<1>9. QED
  BY <1>3, <1>4, <1>5, <1>7, <1>8 DEF IInv

\* One turn of the loop over the chunks.
LEMMA ChunksStep ==
    ASSUME Setting, IInv, nhr_response_read_chunks
    PROVE  IInv' /\ Grows
<1>0. Values /\ WellFormed(message)
  BY ValuesType
<1>1. pc = "chunks" /\ UNCHANGED <<message, received, buff, received_len, created>>
  BY DEF nhr_response_read_chunks
<1>2. /\ created /\ message.chunked
      /\ Parsed = Earlier + str - 1 /\ Parsed \in Nat /\ 3 <= Parsed /\ Parsed <= received
      /\ str \in Nat \ {0}
  BY <1>1, CursorFacts
<1>3. PICK k \in 0 .. Len(message.frames) : ParsedChunks(k)
  BY <1>2 DEF IInv, ChunkInv
<1>4. /\ message \in MessageType /\ Len(Header) = 3 /\ Len(message.frames) \in Nat
      /\ received \in Nat /\ Earlier \in Nat
  BY <1>0, FrameTypes DEF Values
<1>t. TypeOK' /\ BlockInv'
  BY SafeStep DEF IInv, Next
<1>5. CASE k = Len(message.frames) \/ Parsed = received
  <2>1. Parsed = received \/ Parsed >= 3 + Len(FirstFrames(message, Len(message.frames)))
    <3>1. k = Len(message.frames) => Len(FirstFrames(message, k)) \in Nat
      <4>1. FirstFrames(message, k) \in Seq(Octets)
        BY <1>4, FramesStep
      <4>2. QED
        BY <4>1
    <3>2. k = Len(message.frames) => Parsed >= 3 + Len(FirstFrames(message, k))
      BY <1>2, <1>3, <1>4, <3>1 DEF ParsedChunks
    <3>3. QED
      BY <1>5, <3>2
  <2>2. ChunkDigits(str) = <<>>
    BY <1>1, <1>4, <2>1, NothingFollows
  <2>3. pc' = "finish" /\ UNCHANGED <<response, str>>
    BY <2>2 DEF nhr_response_read_chunks
  <2>4. QED
    BY <1>1, <1>3, <1>5, <2>3, StopStep
<1>6. CASE k # Len(message.frames) /\ Parsed # received
  <2> DEFINE p == message.frames[k + 1].size
             q == message.frames[k + 1].data
             n == Len(message.frames)
             L == Len(FirstFrames(message, k))
             N == Len(FirstFrames(message, k + 1))
             B == FirstData(message, k)
             C == FirstData(message, k + 1)
  <2>1. k \in 0 .. n - 1 /\ k + 1 \in 0 .. n /\ k + 1 \in 1 .. n /\ (k + 1) - 1 = k /\ Parsed < received
    BY <1>2, <1>4, <1>6
  <2>2. /\ Parsed = 3 + L /\ response.body = B
        /\ response.is_all_chunks_processed = FALSE /\ response.is_finished = FALSE
    <3>1. response.is_finished \in BOOLEAN
      BY <1>0 DEF Values
    <3>2. QED
      BY <1>3, <1>4, <1>6, <3>1 DEF ParsedChunks
  <2>3. /\ q \in Seq(Octets) /\ Len(p) \in Nat /\ Len(q) \in Nat
        /\ ChunkDigits(str) = p /\ p # <<>>
        /\ SkipWhile(str, Digits) = str + Len(p)
        /\ HexValue(p) = Len(q)
        /\ Bytes(str + Len(p) + 2, Len(q)) = q
        /\ q = <<>> => Bytes(str + Len(p), 4) = CRLF \o CRLF
        /\ q = <<>> <=> k + 1 = n
        /\ N = L + (Len(p) + Len(q) + 4)
        /\ 3 + N <= received
    BY <1>1, <1>2, <1>4, <2>1, <2>2, NextChunk
  <2>4. B \in Seq(Octets) /\ C = B \o q /\ C \in Seq(Octets) /\ L \in Nat
    <3>1. B \in Seq(Octets) /\ C = B \o q /\ FirstFrames(message, k) \in Seq(Octets)
      BY <1>4, <2>1, DataStep, FramesStep
    <3>2. L \in Nat
      BY <3>1
    <3>3. q \in Seq(Octets)
      BY <2>3
    <3> HIDE DEF B, C, q, L
    <3>4. QED
      BY <3>1, <3>2, <3>3
  <2>5. Earlier' = Earlier /\ BufferInv'
    BY <1>1 DEF Earlier, IInv, BufferInv, Boundary, StartsSize, ByteOf
  <2>6. /\ response \in ResponseType /\ response.content_length = 0
        /\ response.content_length = message.content_length
        /\ response.chunked = message.chunked /\ response.gzip = message.gzip
        /\ response.allocated = response.body_size /\ received_len > 0
        /\ response.end <= response.allocated
    <3>1. response \in ResponseType /\ message.content_length = 0
      BY <1>0, <1>2 DEF Values, WellFormed
    <3>2. /\ response.content_length = message.content_length
          /\ response.chunked = message.chunked /\ response.gzip = message.gzip /\ received_len > 0
      BY <1>1, <1>2 DEF IInv, CreateInv
    <3>3. response.allocated = response.body_size /\ response.end <= response.allocated
      BY <2>2 DEF IInv, BlockInv, BodyFits
    <3>4. QED
      BY <3>1, <3>2, <3>3
  <2> HIDE DEF p, q, n, L, N, B, C
  <2>7. CASE k + 1 # n
    <3>1. HexValue(p) > 0
      BY <2>3, <2>7
    <3>2. /\ response' = nhr_response_add_body_data(response, q)
          /\ str' = str + Len(p) + 2 + Len(q) + 2 /\ pc' = "chunks"
      BY <1>1, <2>3, <3>1 DEF nhr_response_read_chunks
    <3>3. /\ response' \in ResponseType
          /\ response'.body = Cut(B \o q, 0)
          /\ response'.end <= response'.allocated /\ response'.allocated = response'.body_size
          /\ response'.content_length = message.content_length
          /\ response'.chunked = message.chunked /\ response'.gzip = message.gzip
          /\ response'.is_all_chunks_processed = FALSE
          /\ response'.is_finished = FALSE
      BY <2>2, <2>3, <2>6, <3>2, AddBodyData
    <3>4. response'.body = C
      BY <2>4, <3>3 DEF Cut
    <3>5. Parsed' = 3 + N
      <4>1. Parsed' = Earlier + str' - 1
        BY <2>5, <3>2 DEF Parsed
      <4>2. /\ Len(p) \in Nat /\ Len(q) \in Nat /\ L \in Nat /\ N = L + (Len(p) + Len(q) + 4)
            /\ Earlier + str - 1 = 3 + L
        BY <1>2, <2>2, <2>3, <2>4
      <4> DEFINE a == Len(p)
                 b == Len(q)
      <4>3. /\ a \in Nat /\ b \in Nat /\ L \in Nat /\ Earlier \in Nat /\ str \in Nat
            /\ Earlier + str - 1 = 3 + L /\ str' = str + a + 2 + b + 2
            /\ N = L + (a + b + 4)
        BY <1>2, <1>4, <3>2, <4>2
      <4> HIDE DEF a, b
      <4>4. Earlier + str' - 1 = 3 + N
        BY <4>3
      <4>5. QED
        BY <4>1, <4>4
    <3>6. FinishInv'
      BY <3>3 DEF FinishInv
    <3>7. CreateInv'
      BY <1>1, <1>2, <1>4, <2>3, <2>4, <2>6, <3>3, <3>5 DEF CreateInv
    <3>8. LengthInv'
      BY <1>1, <1>2 DEF LengthInv
    <3>9. ParsedChunks(k + 1)'
      BY <1>1, <1>4, <2>7, <3>3, <3>4, <3>5 DEF ParsedChunks, n, N, C
    <3>10. ChunkInv'
      BY <1>1, <2>1, <3>9 DEF ChunkInv, n
    <3>11. Grows
      <4>1. B \in Seq(Octets) /\ q \in Seq(Octets)
        BY <2>3, <2>4
      <4>2. Len(B) <= Len(B \o q)
        BY <4>1
      <4>3. QED
        BY <2>2, <2>4, <3>3, <3>4, <4>2 DEF Grows
    <3>12. QED
      BY <1>t, <2>5, <3>6, <3>7, <3>8, <3>10, <3>11 DEF IInv
  <2>8. CASE k + 1 = n
    <3>1. q = <<>> /\ HexValue(p) = 0 /\ Bytes(str + Len(p), 4) = CRLF \o CRLF
      BY <2>3, <2>8
    <3>2. /\ response' = [response EXCEPT !.is_all_chunks_processed = TRUE]
          /\ pc' = "finish" /\ UNCHANGED str
      <4>1. /\ ChunkDigits(str) = p /\ p # <<>> /\ ~(HexValue(p) > 0)
            /\ SkipWhile(str, Digits) = str + Len(p)
        BY <2>3, <3>1
      <4>2. /\ response' = [response EXCEPT !.is_all_chunks_processed =
                              @ \/ Bytes(str + Len(p), 4) = CRLF \o CRLF]
            /\ pc' = "finish" /\ UNCHANGED str
        BY <4>1 DEF nhr_response_read_chunks
      <4>3. QED
        BY <2>6, <3>1, <4>2
    <3>3. /\ response' \in ResponseType /\ response'.body = response.body
          /\ response'.end = response.end /\ response'.allocated = response.allocated
          /\ response'.body_size = response.body_size
          /\ response'.content_length = message.content_length
          /\ response'.chunked = message.chunked /\ response'.gzip = message.gzip
          /\ response'.is_all_chunks_processed = TRUE
          /\ response'.is_finished = FALSE
      BY <2>2, <2>6, <3>2
    <3>4. response'.body = C
      BY <2>2, <2>4, <3>1, <3>3
    <3>5. Parsed' = received
      BY <1>1, <3>2 DEF Parsed
    <3>6. FinishInv'
      BY <3>3 DEF FinishInv
    <3>7. CreateInv'
      BY <1>1, <1>2, <1>4, <2>6, <3>3, <3>5 DEF CreateInv
    <3>8. LengthInv'
      BY <1>1, <1>2 DEF LengthInv
    <3>9. ParsedChunks(k + 1)'
      BY <1>1, <1>4, <2>3, <2>4, <2>8, <3>2, <3>3, <3>4, <3>5 DEF ParsedChunks, n, N, C
    <3>10. ChunkInv'
      BY <1>1, <2>1, <3>9 DEF ChunkInv, n
    <3>11. Grows
      <4>1. B \in Seq(Octets) /\ q \in Seq(Octets)
        BY <2>3, <2>4
      <4>2. Len(B) <= Len(B \o q)
        BY <4>1
      <4>3. QED
        BY <2>2, <2>4, <3>3, <3>4, <4>2 DEF Grows
    <3>12. QED
      BY <1>t, <2>5, <3>6, <3>7, <3>8, <3>10, <3>11 DEF IInv
  <2>9. QED
    BY <2>7, <2>8
<1>7. QED
  BY <1>5, <1>6

-----------------------------------------------------------------------------
(***************************************************************************)
(* The theorems.                                                           *)
(***************************************************************************)

LEMMA InitSafe ==
    ASSUME Init
    PROVE  TypeOK /\ BlockInv
<1>1. /\ message \in Messages /\ received = 0 /\ received_len = 0 /\ response = Zero
      /\ created = FALSE /\ str = 1 /\ pc = "recv" /\ buff \in StackBuffers
  BY DEF Init
<1>2. message \in MessageType
  BY <1>1, MessagesAssumption
<1>3. Len(Wire(message)) \in Nat
  BY <1>2, WireStart
<1>4. BuffSize \in Nat
  BY SizesAssumption
<1>5. Zero \in ResponseType
  <2>1. <<>> \in Seq(Octets)
    OBVIOUS
  <2>2. QED
    BY <2>1 DEF Zero
<1>6. buff \in [1 .. BuffSize -> Octets]
  <2>1. \A b \in StackBytes : [i \in 1 .. BuffSize |-> b] \in [1 .. BuffSize -> Octets]
    BY StackAssumption
  <2>2. QED
    BY <1>1, <2>1 DEF StackBuffers
<1>7. TypeOK
  <2>1. 0 \in 0 .. Len(Wire(message)) /\ 0 \in 0 .. 0 /\ 0 <= BuffSize /\ 1 \in Nat \ {0}
    BY <1>3, <1>4
  <2>2. QED
    BY <1>1, <1>5, <1>6, <2>1 DEF TypeOK
<1>8. BlockInv
  BY <1>1 DEF BlockInv, BodyFits, Zero
<1>9. QED
  BY <1>7, <1>8

LEMMA InitHolds ==
    ASSUME Setting, Init
    PROVE  IInv
<1>1. /\ received = 0 /\ received_len = 0 /\ response = Zero
      /\ created = FALSE /\ str = 1 /\ pc = "recv"
  BY DEF Init
<1>2. TypeOK /\ BlockInv
  BY InitSafe
<1>3. 1 .. 0 = {} /\ ~(0 > 0)
  OBVIOUS
<1>4. BufferInv /\ FinishInv
  BY <1>1, <1>3 DEF BufferInv, FinishInv, Zero
<1>5. CreateInv
  <2>1. Earlier = 0
    BY <1>1 DEF Earlier
  <2>2. QED
    BY <1>1, <1>3, <2>1 DEF CreateInv
<1>6. LengthInv /\ ChunkInv
  BY <1>1 DEF LengthInv, ChunkInv
<1>7. QED
  BY <1>2, <1>4, <1>5, <1>6 DEF IInv

\* A step without effect.
LEMMA StutterStep ==
    ASSUME IInv, UNCHANGED vars
    PROVE  IInv'
<1>1. Earlier' = Earlier /\ Parsed' = Parsed
  BY DEF Earlier, Parsed
<1>2. TypeOK' /\ BufferInv' /\ Spoiled' = Spoiled
  BY <1>1 DEF IInv, TypeOK, BufferInv, Boundary, StartsSize, ByteOf, Spoiled
<1>3. CreateInv' /\ BlockInv' /\ FinishInv'
  BY <1>1 DEF IInv, CreateInv, BlockInv, BodyFits, FinishInv
<1>4. LengthInv'
  BY <1>1, <1>2 DEF IInv, LengthInv, Expected
<1>5. ChunkInv'
  BY <1>1, <1>2 DEF IInv, ChunkInv, ParsedChunks
<1>6. QED
  BY <1>2, <1>3, <1>4, <1>5 DEF IInv

\* Types and blocks in every state.
LEMMA SafeAlways == Spec => [](TypeOK /\ BlockInv)
<1>1. TypeOK /\ BlockInv /\ [Next]_vars => (TypeOK /\ BlockInv)'
  BY SafeStep
<1>2. QED
  BY <1>1, InitSafe, PTL DEF Spec

\* Every variable keeps its type, whatever the server sends, however it is cut and
\* whatever is left in the buffer.
THEOREM TypeCorrect == Spec => []TypeOK
BY SafeAlways, PTL

\* Where a copy of nhr_response_create, nhr_response_add_body_data or nhr_gz_decompress
\* ends: in the block that r->body points to, or, for what is added to a body that
\* was decompressed, within the size that body_size still records.  No assumption is
\* made on the message, the segments or what is left in the buffer.
THEOREM BodySafety == Spec => []BodyFits
<1>1. BlockInv => BodyFits
  BY DEF BlockInv
<1>2. QED
  BY <1>1, SafeAlways, PTL

\* IInv holds in every state: the body is always what the segments so far carried,
\* for the messages and segments that Setting describes.
THEOREM Invariance ==
    ASSUME Setting
    PROVE  Spec => []IInv
<1>1. Init => IInv
  BY InitHolds
<1>2. IInv /\ [Next]_vars => IInv'
  <2> SUFFICES ASSUME IInv, [Next]_vars
               PROVE  IInv'
    OBVIOUS
  <2>1. CASE nhr_request_recv
    BY <2>1, RecvStep
  <2>2. CASE nhr_response_create
    BY <2>2, CreateStep
  <2>3. CASE nhr_response_append
    BY <2>3, AppendStep
  <2>4. CASE nhr_response_read_chunks
    BY <2>4, ChunksStep
  <2>5. CASE finish
    BY <2>5, FinishStep
  <2>6. CASE Terminating \/ UNCHANGED vars
    BY <2>6, StutterStep DEF Terminating
  <2>7. QED
    BY <2>1, <2>2, <2>3, <2>4, <2>5, <2>6 DEF Next
<1>3. QED
  BY <1>1, <1>2, PTL DEF Spec

\* A response that says it is finished has the whole content, or the whole body as it
\* was sent if it cannot be decompressed, until a segment begins behind the end of a
\* message that is Fragile.  The header comes in one segment, a body with a length is
\* cut anywhere; chunks are whole and no digits are left behind them (Setting).
THEOREM FinishedWhole ==
    ASSUME Setting
    PROVE  Spec => []FinishedMeansWhole
<1>1. IInv => FinishedMeansWhole
  <2> SUFFICES ASSUME IInv, response.is_finished, ~Spoiled
               PROVE  response.body = Content(message)
    BY DEF FinishedMeansWhole
  <2>1. created
    BY DEF IInv, CreateInv, Zero
  <2>2. CASE message.chunked
    BY <2>1, <2>2 DEF IInv, ChunkInv, ParsedChunks
  <2>3. CASE ~message.chunked
    BY <2>1, <2>3 DEF IInv, LengthInv
  <2>4. QED
    BY <2>2, <2>3
<1>2. QED
  BY <1>1, Invariance, PTL

\* Until a response is finished its body is a beginning of the body that was sent.
BodyBegins == ~response.is_finished => Starts(response.body, message.packed)

LEMMA BodyBeginsHolds ==
    ASSUME Setting, IInv
    PROVE  BodyBegins
<1> SUFFICES ASSUME ~response.is_finished
             PROVE  Starts(response.body, message.packed)
  BY DEF BodyBegins
<1>0. Values /\ WellFormed(message)
  BY ValuesType
<1>1. /\ message \in MessageType /\ response.body \in Seq(Octets)
      /\ message.packed \in Seq(Octets) /\ message.trash \in Seq(Octets)
  BY <1>0 DEF Values
<1>2. CASE ~created
  <2>1. response.body = <<>>
    BY <1>2 DEF IInv, CreateInv, Zero
  <2>2. Len(<<>>) = 0 /\ Len(message.packed) \in Nat
    BY <1>1
  <2>3. QED
    BY <2>1, <2>2 DEF Starts
<1>3. CASE created /\ message.chunked
  <2>1. PICK k \in 0 .. Len(message.frames) : ParsedChunks(k)
    BY <1>3 DEF IInv, ChunkInv
  <2>2. response.body = FirstData(message, k)
    BY <2>1 DEF ParsedChunks
  <2>3. message.packed = FirstData(message, Len(message.frames))
    BY <1>0, <1>1, DataStep DEF WellFormed
  <2>4. Len(message.frames) \in Nat
        /\ FrameData(message) \in Seq(Seq(Octets)) /\ Len(FrameData(message)) = Len(message.frames)
    BY <1>1, FrameTypes
  <2>5. Starts(FirstData(message, k), FirstData(message, Len(message.frames)))
    <3>1. k \in 0 .. Len(FrameData(message)) /\ Len(FrameData(message)) \in 0 .. Len(FrameData(message))
          /\ k <= Len(FrameData(message))
      BY <2>4
    <3>2. QED
      BY <2>4, <3>1, FlattenGrows DEF FirstData
  <2>6. QED
    BY <2>2, <2>3, <2>5
<1>4. CASE created /\ ~message.chunked
  <2> DEFINE T == message.packed \o message.trash
             c == message.content_length
             n == received - 3
  <2>1. Len(response.body) = Expected /\ \A i \in 1 .. Expected : response.body[i] = T[i]
    BY <1>4 DEF IInv, LengthInv
  <2>2. \A i \in 1 .. Len(message.packed) : T[i] = message.packed[i]
    BY <1>1
  <2>3. Len(message.packed) \in Nat /\ Expected \in Nat
    BY <1>1, <2>1
  <2>4. Expected <= Len(message.packed)
    <3>1. c \in Nat /\ c \in {0, Len(message.packed)} /\ (c = 0 => Len(message.trash) = 0)
      BY <1>0, <1>1, <1>4 DEF WellFormed
    <3>2. Expected = IF c > 0 /\ Parsed - 3 > c THEN c ELSE Parsed - 3
      BY <1>0 DEF Expected, Values
    <3>3. Parsed \in Nat /\ 3 <= Parsed /\ Parsed <= received
      <4>1. 3 <= Parsed /\ Parsed <= received
        BY <1>0, <1>4 DEF IInv, CreateInv, Values
      <4>2. Parsed \in Int
        BY <1>0 DEF Parsed, Values
      <4>3. QED
        BY <4>1, <4>2
    <3>4. received <= 3 + Len(message.packed) + Len(message.trash) /\ received \in Nat
          /\ Len(message.trash) \in Nat
      BY <1>0, <1>1, <1>4, WireBody DEF Values
    <3> HIDE DEF c
    <3>5. CASE c = 0
      <4>1. Expected = Parsed - 3 /\ Len(message.trash) = 0
        BY <3>1, <3>2, <3>5
      <4>2. received <= 3 + Len(message.packed)
        BY <2>3, <3>4, <4>1
      <4>3. QED
        BY <2>3, <3>3, <3>4, <4>1, <4>2
    <3>6. CASE c # 0
      BY <2>3, <3>1, <3>2, <3>3, <3>6
    <3>7. QED
      BY <3>5, <3>6
  <2>5. \A i \in 1 .. Expected : i \in 1 .. Len(message.packed)
    BY <2>3, <2>4
  <2>6. QED
    BY <2>1, <2>2, <2>4, <2>5 DEF Starts
<1>5. QED
  BY <1>2, <1>3, <1>4

\* Two beginnings of the same sequence: the longer one begins with the shorter one.
LEMMA BeginsLonger ==
    ASSUME NEW s \in Seq(Octets), NEW t \in Seq(Octets), NEW p \in Seq(Octets),
           Starts(s, p), Starts(t, p), Len(s) <= Len(t)
    PROVE  IsPrefix(s, t) /\ IsPrefix(t, p)
<1>1. Len(s) \in Nat /\ Len(t) \in Nat /\ Len(p) \in Nat
  OBVIOUS
<1>2. /\ \A i \in 1 .. Len(s) : s[i] = p[i]
      /\ Len(t) <= Len(p) /\ \A i \in 1 .. Len(t) : t[i] = p[i]
  BY DEF Starts
<1>3. \A i \in 1 .. Len(s) : i \in 1 .. Len(t)
  BY <1>1
<1>4. \A i \in 1 .. Len(s) : s[i] = t[i]
  BY <1>2, <1>3
<1>5. IsPrefix(s, t)
  BY <1>4, PrefixByMembers
<1>6. IsPrefix(t, p)
  BY <1>2, PrefixByMembers
<1>7. QED
  BY <1>5, <1>6

\* What the contract speaks of.
Seen == <<Contract!message, response.body, response.is_finished>>

\* The message of the contract is that of the server.
LEMMA SameMessage ==
    ASSUME message' = message
    PROVE  Contract!message' = Contract!message
BY DEF Contract!message, Content, Fragile

\* Bytes behind the end of a message: the exception of the contract.
LEMMA OverrunStep ==
    ASSUME Setting, IInv, pc # "recv", response.is_finished, Fragile(message),
           message' = message, response'.is_finished = response.is_finished
    PROVE  Contract!Overrun
<1>0. Values
  BY ValuesType
<1>1. created
  BY DEF IInv, CreateInv, Zero
<1>2. received_len > 0
  BY <1>1 DEF IInv, CreateInv
<1>3. /\ message \in MessageType /\ End(message) \in Nat /\ Len(message.trash) \in Nat
      /\ Len(Wire(message)) = End(message) + Len(message.trash)
  BY <1>0, EndOfMessage DEF Values
<1>4. Len(message.trash) # 0
  BY <1>0, <1>2, <1>3, EndBefore DEF Values
<1>5. message.trash # <<>>
  BY <1>4
<1>6. QED
  BY <1>5, SameMessage DEF Contract!Overrun

\* A step that does not finish the response is a step of the contract or changes
\* nothing that it speaks of.
LEMMA GrowingStep ==
    ASSUME Setting, IInv, TypeOK', pc # "recv", FinishedMeansWhole, FinishedMeansWhole',
           BodyBegins, BodyBegins', Grows, UNCHANGED <<message, received, received_len>>
    PROVE  Contract!Receive \/ Contract!Overrun \/ UNCHANGED Seen
<1>0. Contract!message' = Contract!message
  BY SameMessage
<1>1. /\ response.body \in Seq(Octets) /\ response'.body \in Seq(Octets)
      /\ response.is_finished \in BOOLEAN
  BY DEF IInv, TypeOK
<1>2. message.packed \in Seq(Octets)
  BY MessagesAssumption DEF IInv, TypeOK
<1>3. CASE response.is_finished /\ Fragile(message)
  BY <1>3, OverrunStep DEF Grows
<1>4. CASE response.is_finished /\ ~Fragile(message)
  <2>1. ~Spoiled /\ ~Spoiled' /\ response'.is_finished
    BY <1>4 DEF Spoiled, Grows
  <2>2. response.body = Content(message) /\ response'.body = Content(message)
    BY <1>4, <2>1 DEF FinishedMeansWhole
  <2>3. QED
    BY <1>0, <2>2 DEF Grows, Seen
<1>5. CASE ~response.is_finished
  <2>1. /\ Starts(response.body, message.packed) /\ Starts(response'.body, message.packed)
        /\ Len(response.body) <= Len(response'.body)
    BY <1>5 DEF Grows, BodyBegins
  <2>2. IsPrefix(response.body, response'.body) /\ IsPrefix(response'.body, message.packed)
    BY <1>1, <1>2, <2>1, BeginsLonger
  <2>3. CASE response'.body = response.body
    BY <1>0, <2>3 DEF Grows, Seen
  <2>4. CASE response'.body # response.body
    <3>1. /\ Contract!IsStrictPrefix(response.body, response'.body)
          /\ Contract!IsPrefix(response'.body, message.packed)
      BY <2>2, <2>4 DEF IsPrefix, Contract!IsPrefix, Contract!IsStrictPrefix
    <3>2. response'.is_finished = response.is_finished
      BY DEF Grows
    <3>3. Contract!Receive
      BY <1>0, <1>5, <3>1, <3>2 DEF Contract!Receive
    <3>4. QED
      BY <3>3
  <2>5. QED
    BY <2>3, <2>4
<1>6. QED
  BY <1>3, <1>4, <1>5

\* The response implements ResponseContract, within Setting: the body grows through
\* beginnings of what was sent and becomes the content in one step, and only bytes
\* that follow a message that is Fragile change it afterwards.
THEOREM Refinement ==
    ASSUME Setting
    PROVE  Spec => ImplementsResponse
<1> USE DEF Contract!rvars, Seen
<1>1. Init => Contract!ResponseInit
  BY DEF Init, Zero, Contract!ResponseInit
<1>2. ASSUME IInv, IInv', FinishedMeansWhole, FinishedMeansWhole', BodyBegins, BodyBegins',
             [Next]_vars
      PROVE  [Contract!ResponseNext]_Contract!rvars
  <2>0. TypeOK /\ TypeOK'
    BY <1>2 DEF IInv
  <2>1. ASSUME Grows, UNCHANGED <<message, received, received_len>>, pc # "recv"
        PROVE  [Contract!ResponseNext]_Contract!rvars
    BY <1>2, <2>0, <2>1, GrowingStep DEF Contract!ResponseNext
  <2>2. CASE nhr_request_recv \/ Terminating \/ UNCHANGED vars
    <3>1. message' = message /\ response' = response
      BY <2>2 DEF nhr_request_recv, Terminating
    <3>2. QED
      BY <3>1, SameMessage
  <2>3. CASE nhr_response_create
    <3>1. UNCHANGED <<message, received, received_len>> /\ pc # "recv"
      BY <2>3 DEF nhr_response_create
    <3>2. QED
      BY <1>2, <2>1, <2>3, <3>1, CreateStep
  <2>4. CASE nhr_response_append
    <3>1. UNCHANGED <<message, received, received_len>> /\ pc # "recv"
      BY <2>4 DEF nhr_response_append
    <3>2. QED
      BY <1>2, <2>1, <2>4, <3>1, AppendStep
  <2>5. CASE nhr_response_read_chunks
    <3>1. UNCHANGED <<message, received, received_len>> /\ pc # "recv"
      BY <2>5 DEF nhr_response_read_chunks
    <3>2. QED
      BY <1>2, <2>1, <2>5, <3>1, ChunksStep
  <2>6. CASE finish
    <3>1. UNCHANGED <<message, received, received_len>> /\ pc = "finish"
      BY <2>6 DEF finish
    <3>2. CASE ~nhr_response_is_finished_receiving(response)
      <4>1. response' = response
        BY <1>2, <2>6, <3>2, FinishFacts
      <4>2. QED
        BY <3>1, <4>1, SameMessage
    <3>3. CASE nhr_response_is_finished_receiving(response)
      <4>1. /\ response'.is_finished = TRUE /\ response.is_finished \in BOOLEAN
            /\ ~Spoiled \/ ~response.is_finished => response'.body = Content(message)
        BY <1>2, <2>0, <2>6, <3>3, FinishBody DEF TypeOK
      <4>2. CASE response.is_finished /\ Fragile(message)
        BY <1>2, <3>1, <4>1, <4>2, OverrunStep DEF Contract!ResponseNext
      <4>3. CASE response.is_finished /\ ~Fragile(message)
        <5>1. response.body = Content(message) /\ response'.body = Content(message)
          BY <1>2, <4>1, <4>3 DEF FinishedMeansWhole, Spoiled
        <5>2. QED
          BY <3>1, <4>1, <4>3, <5>1, SameMessage
      <4>4. CASE ~response.is_finished
        <5>1. response.body = message.packed
          BY <1>2, <3>1, <3>3, <4>4, CompleteBody
        <5>2. Contract!Finish
          BY <3>1, <4>1, <4>4, <5>1, SameMessage DEF Contract!Finish
        <5>3. QED
          BY <5>2 DEF Contract!ResponseNext
      <4>5. QED
        BY <4>2, <4>3, <4>4
    <3>4. QED
      BY <3>2, <3>3
  <2>7. QED
    BY <1>2, <2>2, <2>3, <2>4, <2>5, <2>6 DEF Next
<1>3. IInv => BodyBegins
  BY BodyBeginsHolds
<1>4. QED
  BY <1>1, <1>2, <1>3, Invariance, FinishedWhole, PTL
     DEF Spec, ImplementsResponse, Contract!ResponseSpec
=============================================================================
