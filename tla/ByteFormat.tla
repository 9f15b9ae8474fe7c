----------------------------- MODULE ByteFormat -----------------------------
(***************************************************************************)
(* Numbers as little-endian digits, and reads that stop at the end of       *)
(* the data, for the two stored formats (RowCodec, JournalCodec). A byte is *)
(* a number below Base; the widths of the format are constants.             *)
(***************************************************************************)
EXTENDS Reader, Integers, Sequences, SequencesExt

CONSTANTS Base,      \* the number of values of a byte
          WordBytes  \* of a u64, i64, f64 or usize (8)

ASSUME BaseAssumption == Base \in Nat /\ Base > 12   \* a byte holds every tag

\* `to_le_bytes` after a cast to `width` bytes: the digits above are dropped.
LE(n, width) == [i \in 1..width |-> (n \div Base^(i - 1)) % Base]

FromLE(bytes) == FoldRight(LAMBDA digit, above : digit + Base * above, bytes, 0)

\* The signed number of the same bytes.
Signed(n, width) == IF 2 * n < Base^width THEN n ELSE n - Base^width

ReadBytes(bytes, pos, n) ==
    IF pos + n > Len(bytes) THEN Err
    ELSE Ok(SubSeq(bytes, pos + 1, pos + n), pos + n)

\* Text is UTF-8. One-byte characters stand for all of it: a byte in the upper
\* half is not text.
IsText(bytes) == \A i \in DOMAIN bytes : 2 * bytes[i] < Base

=============================================================================
