---------------------------- MODULE PostingsCodec ----------------------------
(***************************************************************************)
(* An entry of grams.dat in a V2 segment: the number of documents, the      *)
(* first doc_id and the distances of the others, each a varint              *)
(* (v2/codec.rs, v2/writer.rs, v2/reader.rs).  Ids are u32 and varints u64, *)
(* so nothing overflows.                                                    *)
(***************************************************************************)
EXTENDS Sorted, Sequences, Functions

CONSTANT Base   \* the digits of a varint, 2^7 in the code

ASSUME BaseAssumption == Base \in Nat \ {0, 1}

\* put_varint: low digits first; a byte of Base or more says that one follows.
PutVarint(x) ==
  LET put[n \in 0..x] ==
        IF n < Base THEN <<n>> ELSE <<Base + (n % Base)>> \o put[n \div Base]
  IN  put[x]

DropUnit(s, b) ==   \* mutant: the shift is not advanced
  IF b >= Base THEN [s EXCEPT !.val = @ + (b % Base) * s.unit]
  ELSE [read |-> Append(s.read, s.val + b * s.unit), val |-> 0, unit |-> 1]

\* get_uvar_u64 takes one more byte.
TakeByte(s, b) ==
  IF b >= Base THEN [s EXCEPT !.val = @ + (b % Base) * s.unit, !.unit = @ * Base]
  ELSE [read |-> Append(s.read, s.val + b * s.unit), val |-> 0, unit |-> 1]

\* One byte after the other.
Feed(s, bytes) ==
  LET st[k \in 0..Len(bytes)] == IF k = 0 THEN s ELSE TakeByte(st[k - 1], bytes[k])
  IN  st[Len(bytes)]

Varints(bytes) == Feed([read |-> << >>, val |-> 0, unit |-> 1], bytes).read

Delta(s, i) == IF i = 1 THEN s[1] ELSE s[i] - s[i - 1]

\* The writer: sorted, without duplicates, as distances.
EncodeIds(ids) ==
  LET s == Ascending(ids)
      bytes[i \in 0..Len(s)] ==
        IF i = 0 THEN << >> ELSE bytes[i - 1] \o PutVarint(Delta(s, i))
  IN  [count |-> Len(s), bytes |-> bytes[Len(s)]]

\* read_postings.
DecodeIds(entry) ==
  LET x == SubSeq(Varints(entry.bytes), 1, entry.count)
      id[i \in DOMAIN x] == IF i = 1 THEN x[1] ELSE id[i - 1] + x[i]
  IN  Range(id)
=============================================================================
