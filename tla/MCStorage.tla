----------------------------- MODULE MCStorage ------------------------------
(***************************************************************************)
(* What is stored, side by side: the keys of the two backends, the format  *)
(* of values and rows, the format of journal entries, and the stamp of the *)
(* layouts.  A behaviour drives one of the four; the others stay as they   *)
(* started.                                                                *)
(***************************************************************************)
EXTENDS KeyStore, RowCodec, JournalCodec, MCFormatStamp

VARIABLE part

\* KeyStore: names and group keys that begin each other, with the lowest and the
\* highest byte, and numbers of one and of two bytes.
SomeNames == {<<1>>, <<1, 1>>}
SomeGroupKeys == {<<>>, <<0>>, <<3>>, <<0, 3>>}
SomeKeyNumbers == {0, 3, 4, 15}
SomeMapKeys == {<<>>, <<0>>}
JournalAt == <<1>>

\* RowCodec: the extremes of each type, empty and full payloads, and payloads
\* that look like tags and counts.
Documents == [empty |-> <<>>, one |-> <<1>>, pair |-> <<2, 0>>]

\* One String spells the encoding of the Null key.
KeyValues == {Null, Value("UInt64", <<0>>), Value("String", <<>>), Value("String", <<1>>),
              Value("String", <<1, 0, 0>>), Value("Boolean", <<1>>), Value("Bytes", <<1, 0>>)}

SomeValues == KeyValues \union
    {Value("UInt64", <<255>>), Value("Int64", <<-128>>), Value("Int64", <<-1>>),
     Value("Float64", <<128>>), Value("DateTime", <<127>>), Value("Boolean", <<0>>),
     Value("Bytes", <<15>>), Value("Uint256", <<0, 15, 0>>), Value("Base58", <<10, 0>>),
     Value("JSON", <<"empty">>), Value("JSON", <<"pair">>)}

TwoColumns == <<"a", "b">>

\* JournalCodec: names, blobs and numbers that look like tags and lengths.
SomeTexts == {<<>>, <<1>>}
SomeBlobs == {<<>>, <<15, 0>>}
SomeNumbers == {0, 255}
SomeIndices == {15}

Init ==
    /\ part \in {"keys", "values", "entries", "stamp"}
    /\ KeyInit /\ ValueInit /\ EntryInit /\ StampInit
    /\ part # "keys" => family = "meta"
    /\ part # "values" => kind = "rows"
    /\ part # "stamp" => store = Newer

Next ==
    \/ part = "keys" /\ KeyNext /\ UNCHANGED <<part, valueVars, entryVars, stampVars>>
    \/ part = "values" /\ ValueNext /\ UNCHANGED <<part, keyVars, entryVars, stampVars>>
    \/ part = "entries" /\ EntryNext /\ UNCHANGED <<part, keyVars, valueVars, stampVars>>
    \/ part = "stamp" /\ StampNext /\ UNCHANGED <<part, keyVars, valueVars, entryVars>>

Spec == Init /\ [][Next]_<<part, keyVars, valueVars, entryVars, stampVars>>

-----------------------------------------------------------------------------
\* The memory backend and the RocksDB backend give the same answer to every read, in
\* each column family and after the same writes.
BackendsAgree == RawRowsAgree /\ SnapshotsAgree /\ GroupStatesAgree /\ JournalAndHashesAgree

\* What the formats of values, rows and journal entries store reads back as it was
\* written. The keys of two reducer groups differ, but for the key of a single String
\* that spells the encoding of a Null key (GAP-30).
FormatsReadBack == ReadsBack /\ GroupKeysApart /\ RecoversTheCall

\* Stored values and journal entries that lost their end or have bytes after it are
\* refused, or read as what was written; a journal entry cut between two operations
\* as those before the cut.
DamageRefused == DamageIsSeen /\ EntryDamageIsSeen

\* No open reads data under another layout than the one it was written with, since no
\* crash, partial ack or recovery leaves data without its layout and version.
LayoutsGuardData == LayoutSafety /\ StampedWithData
=============================================================================
