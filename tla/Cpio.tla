-------------------------------- MODULE Cpio --------------------------------
(***************************************************************************)
(* The cpio archive in the ramdisk (cpio.rs), read through the memory      *)
(* iterator of memiter.rs.  An archive is a sequence of files; each takes  *)
(* a header, a name and the contents, the last two rounded up to an even   *)
(* number of bytes.  An iterator is an address, the bytes from there on and *)
(* the files that start there; the bytes behind the last file are zero.    *)
(***************************************************************************)
EXTENDS Integers, Sequences, SequencesExt

CONSTANT CpioHeaderSize     \* size_of::<CpioHeader>(), scaled down

ASSUME CpioAssumption == CpioHeaderSize \in Nat

\* The name of the entry that ends an archive.
EndMarker == "TRAILER!!!"

File(name, namesize, size) == [name |-> name, namesize |-> namesize, size |-> size]

Even(n) == n + (n % 2)

FileSpan(f) == CpioHeaderSize + Even(f.namesize) + Even(f.size)

MemIter(begin, end, files) == [at |-> begin, left |-> end - begin, files |-> files]

\* The bytes the files before the i-th take: how far MemIter::read has moved
\* the iterator when parse_cpio comes to that file.
Offset(files, i) ==
    FoldLeft(LAMBDA sum, f : sum + FileSpan(f), 0, SubSeq(files, 1, i - 1))

ContentsOffset(files, i) == Offset(files, i) + CpioHeaderSize + Even(files[i].namesize)

\* parse_cpio gets past the i-th file: the iterator holds it to its end, and
\* its name is not the end marker's letters and a newline.
parse_cpio(it, i) ==
    /\ Offset(it.files, i) + FileSpan(it.files[i]) <= it.left
    /\ it.files[i].name # EndMarker \o "\n"

\* The first file of a name, in the whole archive; 0 if there is none.
Named(files, name) == SelectInSeq(files, LAMBDA f : f.name = name)

\* find_file and find_file_memiter: the address and size of the contents of
\* the first file of that name, or the empty sequence.
find_file(it, name) ==
    LET i == Named(it.files, name)
    IN  IF i # 0 /\ \A k \in 1 .. i : parse_cpio(it, k)
        THEN <<[at |-> it.at + ContentsOffset(it.files, i), size |-> it.files[i].size]>>
        ELSE <<>>

\* The bytes find_file looks at: the headers and names of the files up to
\* the one it stops at.
looked_at(it, name) ==
    LET passed(k) == parse_cpio(it, k) /\ it.files[k].name # name
        reached   == {i \in DOMAIN it.files : \A k \in 1 .. i - 1 : passed(k)}
        from(i)   == it.at + Offset(it.files, i)
    IN  UNION {from(i) .. it.at + ContentsOffset(it.files, i) - 1 : i \in reached}
            \cap it.at .. it.at + it.left - 1
=============================================================================
