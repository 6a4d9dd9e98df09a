---------------------------- MODULE FileFormat ----------------------------
(***************************************************************************)
(* The header of an index file and its validation, from                    *)
(* qndx-core/src/format.rs.  A file is a sequence of units: the four       *)
(* header fields, then the payload.  The checksum is a library's; it is    *)
(* taken to tell any two payloads apart, so the payload stands for it.     *)
(***************************************************************************)
EXTENDS Integers, Sequences

CONSTANT
    Hole        \* a unit that never reached the disk and reads as zero

FormatVersion == 2
HeaderSize    == 4      \* units: magic, version, length, checksum

Magic == [ngrams |-> "QXNG", postings |-> "QXPO", manifest |-> "QXMF"]

ASSUME HoleAssumption == Hole \notin Nat /\ \A f \in DOMAIN Magic : Hole # Magic[f]

Checksum(payload) == payload

WriteWithHeader(magic, payload) ==
    <<magic, FormatVersion, Len(payload), Checksum(payload)>> \o payload

Number(unit) == IF unit = Hole THEN 0 ELSE unit

PayloadFromSlice(file) == SubSeq(file, HeaderSize + 1, Len(file))

\* What both ways of reading ask of the header.  Newer versions are refused.
HeaderFits(file, magic) ==
    /\ Len(file) >= HeaderSize
    /\ file[1] = magic
    /\ Number(file[2]) <= FormatVersion

\* Fault: the checksum is not compared.
ValidSliceUnsummed(file, magic) ==
    HeaderFits(file, magic) /\ Number(file[3]) = Len(file) - HeaderSize

\* validate_header_from_slice and validate_checksum_from_slice: the mapped
\* files.  The length must be that of the file.
ValidSlice(file, magic) ==
    /\ HeaderFits(file, magic)
    /\ Number(file[3]) = Len(file) - HeaderSize
    /\ file[4] = Checksum(PayloadFromSlice(file))

\* read_with_header: the manifest.  As many units as the header says are
\* read, and what follows them is not looked at.
Streamed(file) == SubSeq(file, HeaderSize + 1, HeaderSize + Number(file[3]))

ValidStream(file, magic) ==
    /\ HeaderFits(file, magic)
    /\ HeaderSize + Number(file[3]) <= Len(file)
    /\ file[4] = Checksum(Streamed(file))

-----------------------------------------------------------------------------
(* What a crash or a lost flush leaves of a file: its first n units, or    *)
(* the whole length with holes.  The header goes to the disk in one piece  *)
(* with the beginning of the payload, the rest in later writes.            *)

FirstOf(file, n) == SubSeq(file, 1, n)
HollowAfter(file, n) == [k \in 1 .. Len(file) |-> IF k <= n THEN file[k] ELSE Hole]

Damaged(file) ==
    {FirstOf(file, n) : n \in 0 .. Len(file)}
        \cup {HollowAfter(file, n) : n \in {0} \cup HeaderSize .. Len(file)}
=============================================================================
