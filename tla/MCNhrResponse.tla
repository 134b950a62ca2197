---------------------------- MODULE MCNhrResponse ----------------------------
(***************************************************************************)
(* Messages for the model checker: a body of three bytes with a length, a  *)
(* body without one, compressed bodies that can and that cannot be         *)
(* decompressed, and chunked bodies, each with and without bytes after its *)
(* end.                                                                    *)
(***************************************************************************)
EXTENDS NhrResponse

Chunk(n, data) == [size |-> <<n>>, data |-> data]
LastChunk      == Chunk("0", <<>>)
Whole(data)    == <<[size |-> <<>>, data |-> data]>>

Plain  == <<"p", "q", "r">>
Packed == <<"y", "z">>
Twice  == <<"y", "y">>     \* Packed, compressed once more
Broken == <<"z", "y">>     \* what no call of nhr_gz_decompress accepts
Trash  == {<<>>, <<"t">>, <<"cr", "lf">>}

MCStreams == (Packed :> Plain) @@ (Twice :> Packed)

Message(len, chunked, gzip, frames, packed, trash) ==
    [content_length |-> len, chunked |-> chunked, gzip |-> gzip, frames |-> frames,
     packed |-> packed, trash |-> trash]

Identity(trash)     == Message(3, FALSE, FALSE, Whole(Plain), Plain, trash)
Unbounded           == Message(0, FALSE, FALSE, Whole(Plain), Plain, <<>>)
Gzip(packed, trash) == Message(2, FALSE, TRUE, Whole(packed), packed, trash)
Chunked(trash)      == Message(0, TRUE, FALSE,
                         <<Chunk("2", <<"p", "q">>), Chunk("1", <<"r">>), LastChunk>>,
                         Plain, trash)
ChunkedGzip(packed, trash) ==
    Message(0, TRUE, TRUE,
            <<Chunk("1", <<packed[1]>>), Chunk("1", <<packed[2]>>), LastChunk>>,
            packed, trash)

\* Equal chunks, so that one segment can end where an earlier one had a chunk.
EvenChunks == Message(0, TRUE, FALSE,
                [i \in 1 .. 4 |-> IF i = 4 THEN LastChunk ELSE Chunk("1", <<Plain[i]>>)],
                Plain, <<>>)

MCMessages ==
    {Unbounded, EvenChunks} \cup {Identity(t) : t \in Trash} \cup {Chunked(t) : t \in Trash}
      \cup {Gzip(b, t) : b \in {Packed, Broken}, t \in Trash}
      \cup {ChunkedGzip(b, t) : b \in {Packed, Twice, Broken}, t \in Trash}

\* The messages are those the theorems are about.
ASSUME MCMessagesAssumption == \A m \in MCMessages : WellFormed(m)

ChunkedMessages == {Chunked(<<>>), EvenChunks}
GzipWithTrash   == {Gzip(Packed, <<"t", "t">>)}
=============================================================================
