------------------------------- MODULE JobKey -------------------------------
(***************************************************************************)
(* How jobs are written to the database: bincode's encoding of Anchor and  *)
(* Job (service/src/internal/job.rs). A job is stored under its encoded    *)
(* anchor, and main decodes that key as a whole Job when it restarts       *)
(* unfinished jobs.                                                        *)
(***************************************************************************)
EXTENDS Naturals, Sequences

CONSTANTS
  Byte,        \* the values of a byte
  PREFIX_LEN,  \* bytes of an encoded length (8)
  Lengths,     \* the lengths byte strings may have here
  U64(_)       \* the encoding of a length

ASSUME PrefixAssumption ==
  /\ PREFIX_LEN \in Nat \ {0}
  /\ Lengths \subseteq Nat
  /\ \A n \in Lengths : U64(n) \in Seq(Byte) /\ Len(U64(n)) = PREFIX_LEN
  /\ \A m, n \in Lengths : U64(m) = U64(n) => m = n

ByteString == {s \in Seq(Byte) : Len(s) \in Lengths}

Eof == [tag |-> "eof"]

(* A byte string is its length and its bytes.                              *)
serialize_bytes(s) == U64(Len(s)) \o s

Prefixes(s, n) ==
  /\ PREFIX_LEN + n <= Len(s)
  /\ U64(n) = SubSeq(s, 1, PREFIX_LEN)

(* Reading one takes it off the front and leaves the rest.                 *)
deserialize_bytes(s) ==
  IF \E n \in Lengths : Prefixes(s, n)
    THEN LET n == CHOOSE n \in Lengths : Prefixes(s, n) IN
         [tag  |-> "read",
          data |-> SubSeq(s, PREFIX_LEN + 1, PREFIX_LEN + n),
          rest |-> SubSeq(s, PREFIX_LEN + n + 1, Len(s))]
    ELSE Eof

(* The database key of the job with this anchor.                           *)
job_key(anchor) == serialize_bytes(anchor)

(* A Job is its anchor, then its input. Bytes after it are ignored.        *)
deserialize_job(s) ==
  LET anchor == deserialize_bytes(s) IN
  IF anchor = Eof THEN Eof
  ELSE LET input == deserialize_bytes(anchor.rest) IN
       IF input = Eof THEN Eof
       ELSE [tag |-> "job", anchor |-> anchor.data, input |-> input.data]
=============================================================================
