--------------------------- MODULE MetadataParcel ---------------------------
(***************************************************************************)
(* The parcel layout of camera metadata: the static writeToParcel and      *)
(* readFromParcel of src/shim/camera/CameraMetadata.cpp, one step per call *)
(* on the Parcel, any of which may fail.                                   *)
(*                                                                         *)
(* A blob is a function from byte offsets to bytes; a padding byte is 0    *)
(* and byte i of the metadata is i + 1, so that a copy taken from a wrong  *)
(* offset shows.  Sizes and offsets are size_t in the code and int32 in    *)
(* the parcel, and the casts between them wrap.  The parcel also reaches   *)
(* the reader from other senders, with any int32 for the size and the      *)
(* offset and a blob of any length.  Parcel and the camera_metadata        *)
(* library are not in the repository: what they do is marked external.     *)
(***************************************************************************)
EXTENDS Integers

CONSTANTS
    Alignment,  \* get_camera_metadata_alignment()
    MaxSize,    \* bound: compact size of the metadata sent
    MaxAddr,    \* bound: address at which the writer's blob starts
    Half,       \* 2^31: an int32 is in -Half .. Half - 1
    SizeMod     \* a size_t is in 0 .. SizeMod - 1: 2^32 or 2^64

ASSUME ParcelAssumption ==
    /\ Alignment \in Nat \ {0}
    /\ MaxSize \in Nat \ {0}
    /\ MaxAddr \in Nat
    /\ Half \in Nat \ {0}
    /\ SizeMod \in Nat /\ SizeMod >= 2 * Half
    /\ MaxSize + Alignment < 2 * Half
    /\ SizeMod > 2 * Half => MaxSize + Alignment < Half

None == -Half - 1   \* a NULL metadata pointer, a value not (yet) there

VARIABLES
    pc,         \* the call on the Parcel that comes next
    sent,       \* compact size of the metadata written, None for NULL
    foreign,    \* TRUE when another sender filled the parcel
    size,       \* arg0 of the parcel: blobSize
    blobLen,    \* arg1: length of the blob, None when there is none
    blob,       \* arg1: the bytes of the blob
    offset,     \* arg2: where the metadata starts in the blob
    wres,       \* status returned by writeToParcel
    rres,       \* status returned by readFromParcel
    out         \* what readFromParcel gives its caller: the bytes copied

parcelVars == <<pc, sent, foreign, size, blobLen, blob, offset, wres, rres, out>>

Int32s == -Half .. Half - 1

\* static_cast<int32_t> of a size_t below 2^32, static_cast<size_t> of an int32.
Int32(v) == IF v < Half THEN v ELSE v - 2 * Half
SizeT(v) == IF v < 0 THEN v + SizeMod ELSE v

\* The metadata of the given size, byte by byte, and the NULL metadata.
Bytes(n) == [i \in 0 .. n - 1 |-> i + 1]
NoBytes == Bytes(0)

\* ALIGN_TO rounds an address up; offset is the front padding this takes.
AlignTo(val) == (val + Alignment - 1) - ((val + Alignment - 1) % Alignment)
Padding(addr) == AlignTo(addr) - addr

\* The blob for metadata of size n at front padding pad.
Layout(n, pad) ==
    [i \in 0 .. n + Alignment - 1 |-> IF i \in pad .. pad + n - 1 THEN i - pad + 1 ELSE 0]

ParcelTypeOK ==
    /\ pc \in {"writeSize", "writeBlob", "writeOffset",
               "readSize", "readBlob", "readOffset", "copy", "done"}
    /\ sent \in 1 .. MaxSize \cup {None}
    /\ foreign \in BOOLEAN
    /\ size \in Int32s \cup {None}
    /\ blobLen \in 0 .. SizeMod - 1 \cup {None}
    /\ blobLen # None => blob \in [0 .. blobLen - 1 -> 0 .. SizeMod]
    /\ offset \in Int32s \cup 0 .. Alignment - 1 \cup {None}
    /\ wres \in {"none", "OK", "ERROR"}
    /\ rres \in {"none", "OK", "BAD_VALUE", "ERROR"}
    /\ \E n \in 0 .. SizeMod : out \in [0 .. n - 1 -> 0 .. SizeMod]

Blank ==
    /\ size = None
    /\ blobLen = None
    /\ blob = NoBytes
    /\ offset = None
    /\ wres = "none"
    /\ rres = "none"
    /\ out = NoBytes

\* writeToParcel is called with NULL or with metadata of some size.
WriterInit ==
    /\ pc = "writeSize"
    /\ sent \in 1 .. MaxSize \cup {None}
    /\ foreign = FALSE
    /\ Blank

\* external: a parcel of another sender, complete or cut short.  The size and
\* the offset are any int32 and the blob has any length, whatever the size
\* says; metadata of n bytes lies at some padding, as far as it fits.
ForeignBytes(len, n, pad) ==
    [i \in 0 .. len - 1 |-> IF i >= pad /\ i - pad < n THEN i - pad + 1 ELSE 0]
ForeignInit ==
    /\ pc = "readSize"
    /\ sent = None
    /\ foreign = TRUE
    /\ size \in Int32s
    /\ blobLen \in 0 .. SizeMod - 1 \cup {None}
    /\ \E pad \in 0 .. Alignment - 1 :
          blob = ForeignBytes(blobLen, SizeT(size) - Alignment, pad)
    /\ offset \in Int32s \cup {None}
    /\ wres = "none"
    /\ rres = "none"
    /\ out = NoBytes

ParcelInit == WriterInit \/ ForeignInit

-----------------------------------------------------------------------------
(* writeToParcel *)

\* A NULL metadata pointer is written as blob size 0, and nothing else.
writeNull ==
    /\ pc = "writeSize" /\ sent = None
    /\ \/ size' = 0 /\ wres' = "OK" /\ pc' = "readSize"
       \/ size' = size /\ wres' = "ERROR" /\ pc' = "done"
    /\ UNCHANGED <<sent, foreign, blobLen, blob, offset, rres, out>>

writeSize ==
    /\ pc = "writeSize" /\ sent # None
    /\ \/ size' = Int32(sent + Alignment) /\ wres' = wres /\ pc' = "writeBlob"
       \/ size' = size /\ wres' = "ERROR" /\ pc' = "done"
    /\ UNCHANGED <<sent, foreign, blobLen, blob, offset, rres, out>>

\* Mutant: the metadata is copied to the start of the blob.
PlaceBlob_unaligned_copy(addr) ==
    /\ blobLen' = sent + Alignment
    /\ blob' = Layout(sent, 0)
    /\ offset' = Padding(addr)

\* The front padding, computed into the local variable offset and written by
\* the next call.
PlaceBlob(addr) ==
    /\ blobLen' = sent + Alignment
    /\ blob' = Layout(sent, Padding(addr))
    /\ offset' = Padding(addr)

writeBlob ==
    /\ pc = "writeBlob"
    /\ \E addr \in 0 .. MaxAddr : PlaceBlob(addr)
    /\ pc' = "writeOffset"
    /\ UNCHANGED <<sent, foreign, size, wres, rres, out>>

\* writeBlob fails: the loop is left with offset still 0 and without a blob.
writeBlobFails ==
    /\ pc = "writeBlob"
    /\ offset' = 0
    /\ pc' = "writeOffset"
    /\ UNCHANGED <<sent, foreign, size, blobLen, blob, wres, rres, out>>

\* The status returned is the one of this last call, whatever writeBlob said.
writeOffset ==
    /\ pc = "writeOffset"
    /\ \/ offset' = Int32(offset) /\ wres' = "OK" /\ pc' = "readSize"
       \/ offset' = None /\ wres' = "ERROR" /\ pc' = "done"
    /\ UNCHANGED <<sent, foreign, size, blobLen, blob, rres, out>>

-----------------------------------------------------------------------------
(* readFromParcel, on a parcel whose writer reported success *)

ReturnFromRead(r) ==
    /\ rres' = r
    /\ pc' = "done"
    /\ UNCHANGED <<sent, foreign, size, blobLen, blob, offset, wres, out>>

ReadOn(next) ==
    /\ pc' = next
    /\ UNCHANGED <<sent, foreign, size, blobLen, blob, offset, wres, rres, out>>

\* arg0: 0 means NULL metadata, and the blob must be longer than the padding.
CheckSize(blobSize) ==
    \/ blobSize = 0 /\ ReturnFromRead("OK")
    \/ blobSize # 0 /\ blobSize <= Alignment /\ ReturnFromRead("BAD_VALUE")
    \/ blobSize > Alignment /\ ReadOn("readBlob")

readSize ==
    /\ pc = "readSize"
    /\ CheckSize(SizeT(size)) \/ ReturnFromRead("ERROR")

\* arg1: there must be a blob with that many bytes.
readBlob ==
    /\ pc = "readBlob"
    /\ \/ blobLen # None /\ blobLen >= SizeT(size) /\ ReadOn("readOffset")
       \/ ReturnFromRead("ERROR")

\* Mutant: the offset is compared before the cast.
CheckOffset_signed(offsetTmp) ==
    \/ offsetTmp >= Alignment /\ ReturnFromRead("BAD_VALUE")
    \/ offsetTmp < Alignment /\ ReadOn("copy")

\* arg2: less than the alignment, so that metadataSize bytes from there are
\* inside the blob.
CheckOffset(offsetTmp) ==
    \/ SizeT(offsetTmp) >= Alignment /\ ReturnFromRead("BAD_VALUE")
    \/ SizeT(offsetTmp) < Alignment /\ ReadOn("copy")

readOffset ==
    /\ pc = "readOffset"
    /\ (offset # None /\ CheckOffset(offset)) \/ ReturnFromRead("ERROR")

\* The bytes that are taken for the metadata: blobSize - Alignment of them.
MetadataSize == SizeT(size) - Alignment
Slice == [i \in 0 .. MetadataSize - 1 |-> blob[SizeT(offset) + i]]

\* external: the copy is made of a valid structure only, and memory for it
\* may be short.
copyMetadata ==
    /\ pc = "copy"
    /\ Slice = Bytes(MetadataSize)
    /\ out' = Slice
    /\ rres' = "OK"
    /\ pc' = "done"
    /\ UNCHANGED <<sent, foreign, size, blobLen, blob, offset, wres>>

copyFails == pc = "copy" /\ ReturnFromRead("BAD_VALUE")

Done == pc = "done" /\ UNCHANGED parcelVars

ParcelNext ==
    \/ writeNull \/ writeSize \/ writeBlob \/ writeBlobFails \/ writeOffset
    \/ readSize \/ readBlob \/ readOffset \/ copyMetadata \/ copyFails
    \/ Done

ParcelSpec == ParcelInit /\ [][ParcelNext]_parcelVars

-----------------------------------------------------------------------------
(* Properties *)

\* Whoever filled the parcel, with whatever int32 values and however long a
\* blob, readFromParcel hands the library a range that is not empty and lies
\* inside the bytes that readBlob gave it.
InBounds ==
    pc = "copy" =>
        /\ blobLen # None /\ offset # None
        /\ MetadataSize > 0
        /\ SizeT(offset) + MetadataSize <= SizeT(size)
        /\ SizeT(size) <= blobLen

\* Writer and reader agree on the layout wherever the writer's blob starts:
\* a parcel that was written in full passes every check of readFromParcel
\* and the bytes it takes for the metadata are the ones that were sent.  And
\* when readFromParcel reports OK it has read what was sent, also where
\* writeToParcel reports success without having written the blob.
ParcelAgrees ==
    /\ (~foreign /\ wres = "OK" /\ blobLen # None) =>
        /\ SizeT(size) > Alignment
        /\ SizeT(size) <= blobLen
        /\ SizeT(offset) < Alignment
        /\ MetadataSize = sent
        /\ Slice = Bytes(sent)
    /\ (~foreign /\ rres = "OK") =>
        out = IF sent = None THEN NoBytes ELSE Bytes(sent)
=============================================================================
