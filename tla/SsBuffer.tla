------------------------------ MODULE SsBuffer ------------------------------
(***************************************************************************)
(* The output buffer of ss (misc/ss.c): what the show functions print is   *)
(* kept as one token per field in chained chunks, to be rendered once the  *)
(* widths of the columns are known.  A token is a two-byte length at an    *)
(* even offset and the text; a token that outgrows its chunk is moved to a *)
(* new one.                                                                *)
(*                                                                         *)
(* A chunk holds its lengths by their offset (NoLen where there is none),  *)
(* its text by character (a number, 0 for the zero byte that ends a        *)
(* string) and its end.  Columns that are disabled print nothing and are   *)
(* left out.                                                               *)
(***************************************************************************)
EXTENDS Integers, Sequences

CONSTANTS ChunkBytes,   \* data bytes of a chunk (BUF_CHUNK less its header)
          MaxField,     \* the largest length of a token (USHRT_MAX)
          MaxPieces,    \* calls of out(), and fields
          MaxText       \* bytes printed by one call

Descriptor == 2

\* A chunk of 1 MB has room for the longest token.
ASSUME BufferAssumption ==
  /\ ChunkBytes \in Nat /\ MaxField \in Nat /\ MaxPieces \in Nat /\ MaxText \in Nat
  /\ MaxField < ChunkBytes - Descriptor

VARIABLES
  chunks,    \* the chain
  cur,       \* the offset of the current token in the last chunk
  phase,     \* "print", "render", "done", or "astray": no length where a token should be
  token,     \* the token to render: its chunk and its offset in it
  rendered,  \* the fields rendered so far
  pieces,    \* the calls of out() so far
  pending,   \* the field being printed, as it was printed
  fields     \* those before it, with the place of the token of each

bufferVars == <<chunks, cur, phase, token, rendered, pieces, pending, fields>>

NoLen == -1
Offsets == 0..(ChunkBytes - 1)
Align(n) == n + (n % 2)
Smaller(m, n) == IF m < n THEN m ELSE n

buf_chunk_new ==
  [lens |-> [o \in Offsets |-> IF o = 0 THEN 0 ELSE NoLen], text |-> [o \in Offsets |-> 0], end |-> Descriptor]
buf_chunk_avail(c) == ChunkBytes - c.end
LastChunk == chunks[Len(chunks)]

\* The end of the text of a token, where the next length would be, the text.
TextEnd(c, o) == o + Descriptor + c.lens[o]
After(c, o) == o + Descriptor + Align(c.lens[o])
TokenText(c, o) == [i \in 1..c.lens[o] |-> c.text[o + Descriptor + i - 1]]

\* vsnprintf() behind the token at o, into what is left of the chunk: the last
\* byte of the room is a zero.
vsnprintf(c, o, text) ==
  LET room == buf_chunk_avail(c)
      from == TextEnd(c, o)
      zero == from + (IF Len(text) < room THEN Len(text) ELSE room - 1)
  IN [p \in Offsets |-> IF p >= from /\ p < zero THEN text[p - from + 1]
                        ELSE IF room > 0 /\ p = zero THEN 0 ELSE c.text[p]]

\* buf_update(): the new content fits, or it is cut because the chunk has
\* nothing else.  The mutant lets a text fill the chunk up to the last byte.
buf_fits_full(c, o, n) == n <= buf_chunk_avail(c) \/ o = 0
buf_fits(c, o, n) == n < buf_chunk_avail(c) \/ o = 0

buf_update(c, o, text) ==
  LET n == Smaller(Smaller(Len(text), buf_chunk_avail(c)), MaxField - c.lens[o])
  IN [lens |-> [c.lens EXCEPT ![o] = @ + n], text |-> vsnprintf(c, o, text), end |-> c.end + n]

\* Otherwise the token moves, with its length, to a new chunk; what was
\* printed is left behind the end of the old one.
Moved(c, o) ==
  [lens |-> [buf_chunk_new.lens EXCEPT ![0] = c.lens[o]],
   text |-> [p \in Offsets |-> IF p >= Descriptor /\ p < Descriptor + c.lens[o] THEN c.text[o + p] ELSE 0],
   end  |-> Descriptor + c.lens[o]]
Left(c, o, text) == [c EXCEPT !.text = vsnprintf(c, o, text), !.end = @ - (c.lens[o] + Descriptor)]

\* out(): print, and once more after a new chunk.
Out ==
  /\ phase = "print" /\ pieces < MaxPieces
  /\ \E n \in 0..MaxText :
       LET text == [i \in 1..n |-> (MaxText + 1) * pieces + i]
           chain == IF chunks = <<>> THEN <<buf_chunk_new>> ELSE chunks
           tail == Len(chain)
       IN /\ IF buf_fits(chain[tail], cur, n)
             THEN chunks' = [chain EXCEPT ![tail] = buf_update(@, cur, text)] /\ cur' = cur
             ELSE /\ chunks' = Append([chain EXCEPT ![tail] = Left(@, cur, text)],
                                      buf_update(Moved(chain[tail], cur), 0, text))
                  /\ cur' = 0
          /\ pending' = pending \o text
  /\ pieces' = pieces + 1
  /\ UNCHANGED <<phase, token, rendered, fields>>

NewToken(c, o) == [c EXCEPT !.lens[o] = 0, !.end = o + Descriptor]

\* field_flush(): the next token goes behind this one, or into a new chunk.  The
\* room is compared as an unsigned number: one below zero is a large one.
field_flush ==
  LET next == After(LastChunk, cur)
      pad == LastChunk.lens[cur] % 2
  IN IF buf_chunk_avail(LastChunk) - pad \in 0..(Descriptor - 1)
     THEN chunks' = Append([chunks EXCEPT ![Len(chunks)].end = @ + pad], buf_chunk_new) /\ cur' = 0
     ELSE chunks' = [chunks EXCEPT ![Len(chunks)] = NewToken(@, next)] /\ cur' = next

FieldNext ==
  /\ phase = "print" /\ chunks # <<>> /\ Len(fields) < MaxPieces
  /\ field_flush
  /\ fields' = Append(fields, [text |-> pending, at |-> <<Len(chunks), cur>>])
  /\ pending' = <<>>
  /\ UNCHANGED <<phase, token, rendered, pieces>>

\* render() begins.
render ==
  /\ phase = "print" /\ chunks # <<>>
  /\ chunks' = [chunks EXCEPT ![Len(chunks)].end = @ + (LastChunk.lens[cur] % 2)]
  /\ phase' = "render"
  /\ UNCHANGED <<cur, token, rendered, pieces, pending, fields>>

\* A token is rendered, and buf_token_next() goes to the one behind it or, from
\* the end of the chunk, to the next chunk.
buf_token_next ==
  /\ phase = "render"
  /\ LET c == chunks[token[1]]
         o == token[2]
         next == After(c, o)
     IN /\ rendered' = Append(rendered, TokenText(c, o))
        /\ \/ /\ next # c.end
              /\ phase' = IF next \in Offsets /\ c.lens[next] # NoLen THEN "render" ELSE "astray"
              /\ token' = <<token[1], next>>
           \/ /\ next = c.end /\ token[1] < Len(chunks)
              /\ token' = <<token[1] + 1, 0>>
              /\ UNCHANGED phase
           \/ /\ next = c.end /\ token[1] = Len(chunks)
              /\ phase' = "done"
              /\ UNCHANGED token
  /\ UNCHANGED <<chunks, cur, pieces, pending, fields>>

\* render() ends: all is as before the first out().
buf_free_all ==
  /\ phase = "done"
  /\ chunks' = <<>> /\ cur' = 0 /\ phase' = "print" /\ token' = <<1, 0>> /\ rendered' = <<>>
  /\ pieces' = 0 /\ pending' = <<>> /\ fields' = <<>>

BufferInit ==
  /\ chunks = <<>> /\ cur = 0 /\ phase = "print" /\ token = <<1, 0>> /\ rendered = <<>>
  /\ pieces = 0 /\ pending = <<>> /\ fields = <<>>
BufferNext == Out \/ FieldNext \/ render \/ buf_token_next \/ buf_free_all
BufferSpec == BufferInit /\ [][BufferNext]_bufferVars

-----------------------------------------------------------------------------
Printed(i) == IF i <= Len(fields) THEN fields[i].text ELSE pending

\* Every field comes out as it was printed, in its place, however the chunks
\* end; only a field that no length can hold is cut.
SsFieldsKept ==
  /\ phase # "astray"
  /\ phase = "done" => Len(rendered) = Len(fields) + 1
  /\ \A i \in 1..Len(rendered) :
       /\ i <= Len(fields) + 1
       /\ Len(rendered[i]) <= MaxField
       /\ Len(Printed(i)) <= MaxField => rendered[i] = Printed(i)
=============================================================================
