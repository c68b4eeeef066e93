---------------------------------- MODULE Psf ----------------------------------
(***************************************************************************)
(* Psf::parse of crates/formats/src/psf.rs: a header of 20 bytes, an index *)
(* of 16 bytes for each entry, and keys and values anywhere behind it.     *)
(* The file is known byte by byte behind the index only; it may be cut off *)
(* anywhere.                                                               *)
(***************************************************************************)
EXTENDS Integers, Sequences

CONSTANT SfoFiles  \* the files there are: [magic, key_table_offset, data_table_offset,
                   \* index, bytes, size], with what it is to mean in entries, whole and sound

VARIABLES
    sfo,        \* the file
    sfo_step,   \* "header", "index", "entries", "ok" or "error"
    done,       \* index entries read, then entries parsed
    entries     \* key -> value

psfVars == <<sfo, sfo_step, done, entries>>

HeaderSize == 20
IndexEntrySize == 16
NotUtf8 == 255

Fmts == [Binary |-> 4, Text |-> 516, Integer |-> 1028]
KnownFmts == {Fmts.Binary, Fmts.Text, Fmts.Integer}

RawIndexEntry == [key_offset : Nat, param_fmt : Nat, param_len : Nat, data_offset : Nat]

\* Mutant: a read takes what there is.
CanRead_Partly(start, n) == start <= sfo.size

\* read_exact and its like; an empty read succeeds past the end too.
CanRead(start, n) == n = 0 \/ start + n <= sfo.size

\* n bytes of the file
Bytes(start, n) == [k \in 1 .. n |-> sfo.bytes[start + k - 1]]

from_utf8(bytes) == \A k \in DOMAIN bytes : bytes[k] # NotUtf8

ParseHeader ==
    /\ sfo_step = "header"
    /\ sfo_step' = IF sfo.magic /\ CanRead(0, HeaderSize) THEN "index" ELSE "error"
    /\ UNCHANGED <<sfo, done, entries>>

\* One turn of the first loop; after the last one the second begins.
ReadIndexEntry ==
    /\ sfo_step = "index"
    /\ \/ /\ done = Len(sfo.index)
          /\ sfo_step' = "entries" /\ done' = 0
       \/ /\ done < Len(sfo.index)
          /\ IF CanRead(HeaderSize + IndexEntrySize * done, IndexEntrySize)
             THEN done' = done + 1 /\ UNCHANGED sfo_step
             ELSE sfo_step' = "error" /\ UNCHANGED done
    /\ UNCHANGED <<sfo, entries>>

\* The offset of the zero that ends a key; past the end of the file if there is none.
KeyEnd(start) ==
    CHOOSE e \in start .. start + sfo.size :
        /\ e >= sfo.size \/ sfo.bytes[e] = 0
        /\ \A k \in start .. e - 1 : k < sfo.size /\ sfo.bytes[k] # 0

\* The length of a text counts the zero behind it.
TextLength(raw) == IF raw.param_len > 0 THEN raw.param_len - 1 ELSE 0

ValueLength(raw) ==
    CASE raw.param_fmt = Fmts.Binary  -> raw.param_len
      [] raw.param_fmt = Fmts.Text    -> TextLength(raw)
      [] raw.param_fmt = Fmts.Integer -> 4

ParseEntry ==
    LET raw       == sfo.index[done + 1]
        key_start == sfo.key_table_offset + raw.key_offset
        key_end   == KeyEnd(key_start)
        key       == Bytes(key_start, key_end - key_start)
        start     == sfo.data_table_offset + raw.data_offset
        value     == Bytes(start, ValueLength(raw))
        parsed    ==
            /\ CanRead(key_end, 1) /\ from_utf8(key)
            /\ raw.param_fmt \in KnownFmts
            /\ CanRead(start, ValueLength(raw))
            /\ raw.param_fmt = Fmts.Text => from_utf8(value)
    IN  /\ sfo_step = "entries" /\ done < Len(sfo.index)
        /\ IF parsed
           THEN /\ entries' = [k \in DOMAIN entries \cup {key} |->
                                  IF k = key THEN [fmt |-> raw.param_fmt, bytes |-> value]
                                             ELSE entries[k]]
                /\ done' = done + 1 /\ UNCHANGED sfo_step
           ELSE sfo_step' = "error" /\ UNCHANGED <<done, entries>>
        /\ UNCHANGED sfo

ParseEnds ==
    /\ sfo_step = "entries" /\ done = Len(sfo.index)
    /\ sfo_step' = "ok"
    /\ UNCHANGED <<sfo, done, entries>>

PsfInit ==
    /\ sfo \in SfoFiles
    /\ sfo_step = "header"
    /\ done = 0
    /\ entries = [k \in {} |-> <<>>]

PsfNext == ParseHeader \/ ReadIndexEntry \/ ParseEntry \/ ParseEnds

PsfSpec == PsfInit /\ [][PsfNext]_psfVars

-----------------------------------------------------------------------------
(* What a file is to hold. *)

\* Nothing in it that is refused: a key in UTF-8, a known format, a text in UTF-8.
Understood(key, value) ==
    /\ from_utf8(key)
    /\ value.fmt \in KnownFmts
    /\ value.fmt = Fmts.Text => from_utf8(value.bytes)

\* What is left of the file has these bytes at start.
StoredAt(f, start, bytes) ==
    \A k \in DOMAIN bytes :
        start + k - 1 < f.size => f.bytes[start + k - 1] = bytes[k]

\* Index entry i stands for this key and its value: the key with a zero behind it,
\* and none in it, and as many bytes of the value as the code takes.
StandsFor(f, i, key) ==
    LET raw       == f.index[i]
        key_start == f.key_table_offset + raw.key_offset
        start     == f.data_table_offset + raw.data_offset
        value     == f.entries[key]
    IN  /\ StoredAt(f, key_start, Append(key, 0))
        /\ \A k \in DOMAIN key : key[k] # 0
        /\ key_start + Len(key) + 1 <= f.whole
        /\ value.fmt = raw.param_fmt
        /\ raw.param_fmt \in KnownFmts =>
              /\ Len(value.bytes) = ValueLength(raw)
              /\ StoredAt(f, start, value.bytes)
              /\ start + Len(value.bytes) <= f.whole
        /\ f.sound => Understood(key, value)

\* The index of the file, cut off or not, is the one of what it was made from: each
\* entry stands for a key and its value, and each key has an entry.
Made(f) ==
    /\ f.magic \in BOOLEAN /\ f.sound \in BOOLEAN
    /\ f.size \in Nat /\ f.whole \in Nat
    /\ f.index \in Seq(RawIndexEntry)
    /\ f.key_table_offset \in Nat /\ f.data_table_offset \in Nat
    /\ f.entries \in [DOMAIN f.entries -> [fmt : Nat, bytes : Seq(Nat)]]
    /\ DOMAIN f.entries \subseteq Seq(Nat)
    /\ f.sound => f.magic
    /\ HeaderSize + IndexEntrySize * Len(f.index) <= f.whole
    /\ \A i \in DOMAIN f.index : \E key \in DOMAIN f.entries : StandsFor(f, i, key)
    /\ \A key \in DOMAIN f.entries : \E i \in DOMAIN f.index : StandsFor(f, i, key)

-----------------------------------------------------------------------------
(* Properties. *)

\* Psf::parse returns the keys and values that were put into the file, whatever
\* their formats, lengths and places; of a file cut off anywhere it returns those
\* or an error, and it refuses no whole file that is sound.
SfoFaithful ==
    /\ sfo_step = "ok" => entries = sfo.entries
    /\ sfo_step = "error" => sfo.size < sfo.whole \/ ~sfo.sound

=============================================================================
