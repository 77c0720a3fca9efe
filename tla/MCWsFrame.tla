------------------------------ MODULE MCWsFrame ------------------------------
(* Frames with lengths at the limits of the three encodings. *)
EXTENDS WsFrame

\* The 7-bit, 16-bit and 64-bit lengths begin and end here; the last one has a
\* byte above the 16 lower bits.
EdgeLengths == {0, 125, 126, 65536, 16777217}

\* Nothing, a buffer of ws_send_file, one and a byte.
EdgeFiles == {0, Chunk, Chunk + 1}

\* All at once, or pieces that hold a whole number of keys.
WholeKeys == {-1, 1000}
\* A buffer of 1024 bytes with room for the zero that ws_read_data appends.
Buffer1023 == {1023}

\* Less than a key, a key.
ShortReads == {1, 4}

=============================================================================
