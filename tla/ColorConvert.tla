---------------------------- MODULE ColorConvert ----------------------------
(***************************************************************************)
(* The converter of libcolor/ColorConvert.cpp: a rectangle of an NV12      *)
(* decoder frame becomes an I420 image, which then becomes the NV12 input  *)
(* of an encoder.  A step is one row of one of the four loops.             *)
(*                                                                         *)
(* A byte is the place it has in the decoder's frame, so that every copy   *)
(* of it can be compared with where the formats say it belongs.            *)
(***************************************************************************)
EXTENDS Integers

CONSTANT MaxSide    \* bound: width and height of the decoder's frame

ASSUME SideAssumption == MaxSide \in Nat \ {0}

Unset == -1         \* a byte nobody has written

VARIABLES
    job,      \* the arguments: the frame's size and the rectangle
    pc,       \* the loop that runs
    y,        \* its row
    i420,     \* what convertDecoderOutputToI420 has written
    nv12,     \* what convertI420ToEncoderInput has written
    reads,    \* history: the offsets read so far, of the frame, then of i420
    writes    \* history: the offsets written by the running conversion

vars == <<job, pc, y, i420, nv12, reads, writes>>

\* The rectangle's corners are both inside.
Jobs == {j \in [srcWidth : 1..MaxSide, srcHeight : 1..MaxSide,
                left : 0..MaxSide-1, top : 0..MaxSide-1,
                right : 0..MaxSide-1, bottom : 0..MaxSide-1] :
            /\ j.left <= j.right /\ j.right < j.srcWidth
            /\ j.top <= j.bottom /\ j.bottom < j.srcHeight}

dstWidth  == job.right - job.left + 1
dstHeight == job.bottom - job.top + 1

\* getEncoderInputBufferInfo, for an image of w by h.
encoderBufferSize(w, h) == (w * h * 3) \div 2

Init ==
    /\ job \in Jobs
    /\ pc = "decodeY"
    /\ y = 0
    /\ i420 = <<>>
    /\ nv12 = <<>>
    /\ reads = {}
    /\ writes = {}

\* Buffers are functions from the offsets written so far.
Over(new, old) == [k \in DOMAIN new \cup DOMAIN old |->
                       IF k \in DOMAIN new THEN new[k] ELSE old[k]]

Byte(buffer, k) == IF k \in DOMAIN buffer THEN buffer[k] ELSE Unset

\* The next row of the running loop, or the first one of the next.
Row(rows, next) ==
    IF y + 1 < rows THEN y' = y + 1 /\ UNCHANGED pc
                    ELSE y' = 0 /\ pc' = next

-----------------------------------------------------------------------------
(* convertDecoderOutputToI420.                                             *)

pSrc_y == job.srcWidth * job.top + job.left

\* Mutant: the rows above the rectangle are not halved.
pSrc_uv_whole_rows == pSrc_y + job.srcWidth * job.srcHeight

pSrc_uv == pSrc_y + job.srcWidth * (job.srcHeight - job.top \div 2)

dst_uv_stride == dstWidth \div 2

\* Mutant: the chroma plane is halved once only.
dst_uv_size_unhalved == (dstWidth * dstHeight) \div 2

dst_uv_size == ((dstWidth \div 2) * dstHeight) \div 2
pDst_u == dstWidth * dstHeight
pDst_v == pDst_u + dst_uv_size

\* The offsets read of the frame, and the bytes from[k] that end up in i420 at k.
CopyRow(read, from) ==
    /\ i420' = Over(from, i420)
    /\ reads' = reads \cup read
    /\ writes' = writes \cup DOMAIN from
    /\ UNCHANGED <<job, nv12>>

decodeY ==
    /\ pc = "decodeY"
    /\ LET from == [k \in y * dstWidth .. (y + 1) * dstWidth - 1 |->
                        pSrc_y + y * job.srcWidth + k - y * dstWidth]
       IN  CopyRow({from[k] : k \in DOMAIN from}, from)
    /\ Row(dstHeight, "decodeUV")

\* The loop goes through U and V together.  Where the row of V starts behind
\* that of U and the two overlap (small images of odd width or of one row), a
\* byte is written for V first and for U in a later turn; where the two rows
\* coincide V has the last word.
decodeUV ==
    /\ pc = "decodeUV"
    /\ LET tmp == (dstWidth + 1) \div 2
           u == pDst_u + y * dst_uv_stride
           v == pDst_v + y * dst_uv_stride
           uv == pSrc_uv + y * job.srcWidth
           U == [k \in u .. u + tmp - 1 |-> uv + 2 * (k - u)]
           V == [k \in v .. v + tmp - 1 |-> uv + 2 * (k - v) + 1]
       IN  CopyRow(uv .. uv + 2 * tmp - 1, IF v > u THEN Over(U, V) ELSE Over(V, U))
    /\ Row((dstHeight + 1) \div 2, "check")

\* The image is handed on: the histories start again for the encoder.
handOver ==
    /\ pc = "check"
    /\ pc' = "encodeY"
    /\ reads' = {}
    /\ writes' = {}
    /\ UNCHANGED <<job, y, i420, nv12>>

-----------------------------------------------------------------------------
(* convertI420ToEncoderInput of that image, into a buffer as large as      *)
(* getEncoderInputBufferInfo says.                                         *)

\* Copies the bytes at from[k] of i420 to nv12 at k.
EncodeRow(from) ==
    /\ nv12' = Over([k \in DOMAIN from |-> Byte(i420, from[k])], nv12)
    /\ reads' = reads \cup {from[k] : k \in DOMAIN from}
    /\ writes' = writes \cup DOMAIN from
    /\ UNCHANGED <<job, i420>>

encodeY ==
    /\ pc = "encodeY"
    /\ EncodeRow([k \in y * dstWidth .. (y + 1) * dstWidth - 1 |-> k])
    /\ Row(dstHeight, IF dstHeight < 2 THEN "done" ELSE "encodeUV")

\* Mutant: U is taken to have as many rows as Y.
pSrc_v_all_rows == dstWidth * dstHeight + (dstWidth \div 2) * dstHeight

pSrc_v == dstWidth * dstHeight + (dstWidth \div 2) * (dstHeight \div 2)

encodeUV ==
    /\ pc = "encodeUV"
    /\ LET half == dstWidth \div 2
           base == dstWidth * dstHeight
           uv == base + y * dstWidth
       IN  EncodeRow([k \in uv .. uv + 2 * half - 1 |->
               IF (k - uv) % 2 = 0 THEN base + y * half + (k - uv) \div 2
                                   ELSE pSrc_v + y * half + (k - uv) \div 2])
    /\ Row(dstHeight \div 2, "done")

Next == decodeY \/ decodeUV \/ handOver \/ encodeY \/ encodeUV

Spec == Init /\ [][Next]_vars

-----------------------------------------------------------------------------
(* Properties.                                                             *)

TypeOK ==
    /\ job \in Jobs
    /\ pc \in {"decodeY", "decodeUV", "check", "encodeY", "encodeUV", "done"}
    /\ y \in 0 .. MaxSide - 1
    /\ \A k \in DOMAIN i420 : i420[k] \in Nat
    /\ \A k \in DOMAIN nv12 : nv12[k] \in Nat \cup {Unset}

Even(n) == n % 2 = 0
EvenRect == \A n \in {job.left, job.top, dstWidth, dstHeight} : Even(n)

\* Where the formats have sample (row, col) of a plane.
NV12(w, h, plane, row, col) ==
    CASE plane = "Y" -> row * w + col
      [] plane = "U" -> w * h + row * w + 2 * col
      [] plane = "V" -> w * h + row * w + 2 * col + 1

I420(w, h, plane, row, col) ==
    CASE plane = "Y" -> row * w + col
      [] plane = "U" -> w * h + row * (w \div 2) + col
      [] plane = "V" -> w * h + (w \div 2) * (h \div 2) + row * (w \div 2) + col

Samples == [plane : {"Y"}, row : 0..dstHeight-1, col : 0..dstWidth-1] \cup
           [plane : {"U", "V"}, row : 0..(dstHeight \div 2)-1,
            col : 0..(dstWidth \div 2)-1]

\* Sample s of the rectangle, as a place in the decoder's frame.
Source(s) == IF s.plane = "Y"
             THEN NV12(job.srcWidth, job.srcHeight, "Y",
                       job.top + s.row, job.left + s.col)
             ELSE NV12(job.srcWidth, job.srcHeight, s.plane,
                       job.top \div 2 + s.row, job.left \div 2 + s.col)

\* No conversion leaves its buffers, which are as large as the code's own
\* formula says: the decoder's side for every rectangle of even width and
\* height that starts in an even row (its writes for every even height), the
\* encoder's side for every size.
StaysInBuffers ==
    LET frame == 0 .. encoderBufferSize(job.srcWidth, job.srcHeight) - 1
        image == 0 .. encoderBufferSize(dstWidth, dstHeight) - 1
    IN  IF pc \in {"decodeY", "decodeUV", "check"}
        THEN /\ Even(dstHeight) => writes \subseteq image
             /\ Even(dstHeight) /\ Even(dstWidth) /\ Even(job.top) =>
                    reads \subseteq frame
        ELSE writes \subseteq image /\ reads \subseteq image

\* The I420 image has every sample of the rectangle where I420 has it: luma
\* always, chroma when the rectangle starts and ends on chroma samples.
ImageRight ==
    pc = "check" =>
        \A s \in Samples : s.plane = "Y" \/ EvenRect =>
            Byte(i420, I420(dstWidth, dstHeight, s.plane, s.row, s.col)) = Source(s)

\* The two conversions agree on I420: the encoder gets the rectangle back in
\* the NV12 it had in the decoder's frame.
EncoderSeesRect ==
    pc = "done" =>
        \A s \in Samples : s.plane = "Y" \/ EvenRect =>
            Byte(nv12, NV12(dstWidth, dstHeight, s.plane, s.row, s.col)) = Source(s)
=============================================================================
