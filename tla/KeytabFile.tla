------------------------------ MODULE KeytabFile ------------------------------
(***************************************************************************)
(* The keytab file of core/keytab.py: what its bytes stand for, what       *)
(* write_keytab puts in their place and what load_keytab finds in them.    *)
(*                                                                         *)
(* A file is its header, its whole entries, whether an entry after them is *)
(* torn, and whether it is garbled: bytes among them that a length fits    *)
(* and that are no entry.  The enctype (there is one) and the timestamp    *)
(* (two entries of a slot are told apart by it) are left out, and with     *)
(* them the order of the entries.                                          *)
(***************************************************************************)
EXTENDS Naturals, FiniteSets

CONSTANTS Principal, Key,
          ByteRange,    \* values of a byte: 2^8
          WordRange     \* values of a 32-bit word: 2^32

\* A kvno that fits a word and is not 0 survives the file.
ASSUME WidthAssumption ==
    ByteRange \in Nat \ {0} /\ WordRange \in Nat /\ WordRange > ByteRange

Kvno == 1..(WordRange - 1)
Row == [principal : Principal, kvno : Kvno, key : Key]
Slot == [principal : Principal, kvno : Nat]
Entry == [principal : Principal, low : 0..(ByteRange - 1),
          tail : 0..(WordRange - 1), key : Key]
File == [header : BOOLEAN, entries : SUBSET Entry, torn : BOOLEAN, garbled : BOOLEAN]

\* No file, or open(path, "wb"): not even the two bytes of the header.
Emptied == [header |-> FALSE, entries |-> {}, torn |-> FALSE, garbled |-> FALSE]

SlotOf(row) == [principal |-> row.principal, kvno |-> row.kvno]

EntryOf(row) ==
    [principal |-> row.principal, low |-> row.kvno % ByteRange,
     tail |-> row.kvno % WordRange, key |-> row.key]

\* _parse_entry: the word after the key block counts unless it is 0.  The
\* mutant reads the byte only.
KvnoByte(e) == e.low
KvnoOf(e) == IF e.tail # 0 THEN e.tail ELSE e.low

RowOf(e) == [principal |-> e.principal, kvno |-> KvnoOf(e), key |-> e.key]
InSlot(e, slot) == e.principal = slot.principal /\ KvnoOf(e) = slot.kvno

\* _read_raw_entries: nothing without a header, nothing after a tear.  What is
\* garbled it takes for entries, so that write_keytab writes it back.
RawEntries(file) == IF file.header THEN file.entries ELSE {}

\* What write_keytab writes.  The mutant drops the principal's other
\* versions.
RewrittenAlone(raw, row) ==
    {e \in raw : e.principal # row.principal} \cup {EntryOf(row)}
Rewritten(raw, row) ==
    {e \in raw : ~InSlot(e, SlotOf(row))} \cup {EntryOf(row)}

\* The bytes of content, garbled ones among them or not, on top of those the file
\* has by now.  Where these are more their tail stays: whole entries, with what
\* came after them, if all are of one length, else bytes that begin inside of an
\* entry, of which lengths are read that fit or do not.
WrittenOver(content, garbled, file) ==
    LET whole == Cardinality(file.entries)
        longer == file.torn \/ file.garbled \/ whole >= Cardinality(content)
        Written(rest, torn, bad) ==
            [header |-> TRUE, entries |-> content \cup rest,
             torn |-> torn, garbled |-> garbled \/ bad]
    IN  {Written({}, FALSE, FALSE)}
            \cup {Written({}, torn, bad) : torn \in {t \in BOOLEAN : longer},
                                          bad \in {g \in BOOLEAN : longer}}
            \cup {Written(rest, file.torn, file.garbled) :
                      rest \in {t \in SUBSET file.entries :
                                    Cardinality(content) + Cardinality(t) <= whole}}

\* load_keytab with a kvno: the keys it may return, none where it raises.
LoadKeytab(file, slot) ==
    IF ~file.header \/ file.torn \/ file.garbled THEN {}
    ELSE {e.key : e \in {f \in file.entries : InSlot(f, slot)}}
=============================================================================
