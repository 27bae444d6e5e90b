------------------------- MODULE ColorConvertProofs -------------------------
(***************************************************************************)
(* The two conversions for frames and rectangles of every size: they stay  *)
(* inside their buffers and put every sample where the formats have it.    *)
(***************************************************************************)
EXTENDS ColorConvert, TLAPS

Decoding == {"decodeY", "decodeUV", "check"}

\* The loop that runs has a row left to treat.
RowInv ==
    /\ job \in Jobs
    /\ pc \in Decoding \cup {"encodeY", "encodeUV", "done"}
    /\ y \in Nat
    /\ pc \in {"decodeY", "encodeY"} => y < dstHeight
    /\ pc = "decodeUV" => y < (dstHeight + 1) \div 2
    /\ pc = "check" => y = 0
    /\ pc = "encodeUV" => y < dstHeight \div 2

\* The samples the properties speak of.
Wanted == {s \in Samples : s.plane = "Y" \/ EvenRect}

\* How many rows of its plane each conversion has behind it.
DecodedRows(plane) ==
    IF plane = "Y" THEN IF pc = "decodeY" THEN y ELSE dstHeight
    ELSE CASE pc = "decodeY" -> 0
           [] pc = "decodeUV" -> y
           [] OTHER -> dstHeight \div 2

EncodedRows(plane) ==
    CASE pc \in Decoding -> 0
      [] pc = "encodeY" -> IF plane = "Y" THEN y ELSE 0
      [] pc = "encodeUV" -> IF plane = "Y" THEN dstHeight ELSE y
      [] OTHER -> dstHeight

\* The place of a sample in the two images.
InI420(s) == I420(dstWidth, dstHeight, s.plane, s.row, s.col)
InNV12(s) == NV12(dstWidth, dstHeight, s.plane, s.row, s.col)

DecodeInv == \A s \in Wanted : s.row < DecodedRows(s.plane) =>
                                   Byte(i420, InI420(s)) = Source(s)
EncodeInv == \A s \in Wanted : s.row < EncodedRows(s.plane) =>
                                   Byte(nv12, InNV12(s)) = Source(s)

IInv == RowInv /\ StaysInBuffers /\ DecodeInv /\ EncodeInv

-----------------------------------------------------------------------------
(* Arithmetic.                                                             *)

\* Products of naturals are naturals, and grow with their factors.
LEMMA Products ==
    ASSUME NEW a \in Nat, NEW b \in Nat, NEW c \in Nat
    PROVE  /\ a * b \in Nat
           /\ (a + b) * c = a * c + b * c
           /\ a * b = b * a
           /\ a <= b => a * c <= b * c
<1>1. a * b \in Nat /\ (a + b) * c = a * c + b * c /\ a * b = b * a
  OBVIOUS
<1>2. ASSUME a <= b PROVE a * c <= b * c
  <2>1. (b - a) * c \in Nat
    BY <1>2
  <2>2. b * c = a * c + (b - a) * c
    BY <1>2
  <2> QED BY <2>1, <2>2
<1> QED BY <1>1, <1>2

\* Column col of row row, in a plane of rows rows of width w.
LEMMA RowFits ==
    ASSUME NEW w \in Nat, NEW row \in Nat, NEW rows \in Nat, NEW col \in Nat,
           row < rows, col < w
    PROVE  row * w + col \in Nat /\ row * w + col < rows * w
<1>1. (row + 1) * w <= rows * w
  BY Products
<1>2. (row + 1) * w = row * w + w
  OBVIOUS
<1>3. row * w \in Nat /\ rows * w \in Nat
  OBVIOUS
<1> QED BY <1>1, <1>2, <1>3

\* A place in a row that starts at a is some columns behind a.
LEMMA Column ==
    ASSUME NEW a \in Int, NEW n \in Nat, NEW k \in Int, a <= k, k < a + n
    PROVE  \E col \in Nat : col < n /\ k = a + col
<1>1. k - a \in Nat /\ k - a < n /\ k = a + (k - a)
  OBVIOUS
<1> QED BY <1>1

\* Two rows of a plane have no place in common.
LEMMA RowsApart ==
    ASSUME NEW w \in Nat, NEW row \in Nat, NEW other \in Nat,
           NEW col \in Nat, col < w, row # other
    PROVE  ~(other * w <= row * w + col /\ row * w + col < other * w + w)
<1>1. row * w \in Nat /\ other * w \in Nat /\ (other + 1) * w = other * w + w
  OBVIOUS
<1>2. CASE row < other
  BY <1>1, <1>2, RowFits
<1>3. CASE other < row
  <2>1. (other + 1) * w <= row * w
    BY <1>3, Products
  <2> QED BY <1>1, <2>1
<1> QED BY <1>2, <1>3

\* Halves are rounded down.
LEMMA Halves ==
    ASSUME NEW n \in Nat
    PROVE  /\ n \div 2 \in Nat /\ (n + 1) \div 2 \in Nat
           /\ n = 2 * (n \div 2) \/ n = 2 * (n \div 2) + 1
           /\ Even(n) => n = 2 * (n \div 2) /\ (n + 1) \div 2 = n \div 2
           /\ (n + 1) \div 2 <= n \div 2 + 1
BY DEF Even

\* A number and its half.
LEMMA Parity ==
    ASSUME NEW d \in Nat
    PROVE  /\ d \div 2 \in Nat /\ d % 2 \in {0, 1}
           /\ d = 2 * (d \div 2) + (d % 2)
OBVIOUS

\* A picture of w by h: how many bytes its buffer has at least, m of the rows
\* of chroma being as wide as a row of luma.
LEMMA BufferHolds ==
    ASSUME NEW w \in Nat, NEW h \in Nat, NEW m \in Nat, 2 * m <= h
    PROVE  /\ encoderBufferSize(w, h) \in Nat
           /\ w * h + m * w <= encoderBufferSize(w, h)
           /\ w * h \in Nat /\ m * w \in Nat
<1>1. w * h \in Nat /\ m * w \in Nat /\ (2 * m) * w = 2 * (m * w) /\ h * w = w * h
  OBVIOUS
<1>2. (2 * m) * w <= h * w
  BY Products
<1>3. ASSUME NEW p \in Nat, NEW q \in Nat, 2 * q <= p
      PROVE  (p * 3) \div 2 \in Nat /\ p + q <= (p * 3) \div 2
  BY <1>3
<1> QED BY <1>1, <1>2, <1>3 DEF encoderBufferSize

-----------------------------------------------------------------------------
(* The job and its samples.                                                *)

\* The rectangle lies in the frame.
LEMMA JobFacts ==
    ASSUME job \in Jobs
    PROVE  /\ job.srcWidth \in Nat /\ job.srcHeight \in Nat
           /\ job.left \in Nat /\ job.top \in Nat
           /\ dstWidth \in Nat /\ dstWidth > 0 /\ dstHeight \in Nat /\ dstHeight > 0
           /\ job.left + dstWidth <= job.srcWidth
           /\ job.top + dstHeight <= job.srcHeight
BY SideAssumption DEF Jobs, dstWidth, dstHeight

\* A sample lies in its plane; the chroma planes are half as wide and high.
LEMMA SampleFacts ==
    ASSUME job \in Jobs, NEW s \in Samples
    PROVE  /\ s.row \in Nat /\ s.col \in Nat
           /\ s.plane \in {"Y", "U", "V"}
           /\ s.plane = "Y" => s.row < dstHeight /\ s.col < dstWidth
           /\ s.plane # "Y" => s.row < dstHeight \div 2 /\ s.col < dstWidth \div 2
BY JobFacts, Halves DEF Samples

\* Nothing but job decides what the samples are and where they belong.
LEMMA SameJob ==
    ASSUME UNCHANGED job
    PROVE  /\ dstWidth' = dstWidth /\ dstHeight' = dstHeight
           /\ Wanted' = Wanted
           /\ \A s : /\ InI420(s)' = InI420(s) /\ InNV12(s)' = InNV12(s)
                     /\ Source(s)' = Source(s)
<1>1. dstWidth' = dstWidth /\ dstHeight' = dstHeight
  BY DEF dstWidth, dstHeight
<1>2. Wanted' = Wanted
  BY <1>1 DEF Wanted, Samples, EvenRect
<1>3. ASSUME NEW s
      PROVE  /\ InI420(s)' = InI420(s) /\ InNV12(s)' = InNV12(s)
             /\ Source(s)' = Source(s)
  BY <1>1 DEF InI420, InNV12, Source
<1> QED BY <1>1, <1>2, <1>3

\* A byte of a buffer after another has been copied over it.
LEMMA ByteOver ==
    ASSUME NEW new, NEW old, NEW k
    PROVE  Byte(Over(new, old), k) = IF k \in DOMAIN new THEN new[k] ELSE Byte(old, k)
BY DEF Byte, Over

Frame == 0 .. encoderBufferSize(job.srcWidth, job.srcHeight) - 1
Image == 0 .. encoderBufferSize(dstWidth, dstHeight) - 1

\* A row of a decoding loop whose offsets are in bounds keeps StaysInBuffers.
LEMMA CopyStays ==
    ASSUME StaysInBuffers, NEW read, NEW from, CopyRow(read, from),
           pc \in Decoding, pc' \in Decoding,
           Even(dstHeight) => DOMAIN from \subseteq Image,
           Even(dstHeight) /\ Even(dstWidth) /\ Even(job.top) => read \subseteq Frame
    PROVE  StaysInBuffers'
<1>1. UNCHANGED job /\ dstWidth' = dstWidth /\ dstHeight' = dstHeight
  BY SameJob DEF CopyRow
<1>2. /\ writes' = writes \cup DOMAIN from
      /\ reads' = reads \cup read
  BY DEF CopyRow
<1>3. /\ Even(dstHeight) => writes \subseteq Image
      /\ Even(dstHeight) /\ Even(dstWidth) /\ Even(job.top) => reads \subseteq Frame
  BY DEF StaysInBuffers, Decoding, Frame, Image
<1>4. /\ Even(dstHeight) => writes' \subseteq Image
      /\ Even(dstHeight) /\ Even(dstWidth) /\ Even(job.top) => reads' \subseteq Frame
  BY <1>2, <1>3
<1> QED BY <1>1, <1>4 DEF StaysInBuffers, Decoding, Frame, Image

\* The same for the encoder.
LEMMA EncodeStays ==
    ASSUME StaysInBuffers, NEW from, EncodeRow(from), pc \notin Decoding, pc' \notin Decoding,
           DOMAIN from \subseteq Image, \A k \in DOMAIN from : from[k] \in Image
    PROVE  StaysInBuffers'
<1>1. UNCHANGED job /\ dstWidth' = dstWidth /\ dstHeight' = dstHeight
  BY SameJob DEF EncodeRow
<1>2. /\ writes' = writes \cup DOMAIN from
      /\ reads' = reads \cup {from[k] : k \in DOMAIN from}
  BY DEF EncodeRow
<1>3. writes \subseteq Image /\ reads \subseteq Image
  BY DEF StaysInBuffers, Decoding, Image
<1>4. writes' \subseteq Image /\ reads' \subseteq Image
  BY <1>2, <1>3
<1> QED BY <1>1, <1>4 DEF StaysInBuffers, Decoding, Image

-----------------------------------------------------------------------------
(* convertDecoderOutputToI420.                                             *)

\* The luma loop: a row of the rectangle goes to the same row of the image.
LEMMA DecodeYStep ==
    ASSUME IInv, decodeY
    PROVE  IInv'
<1> DEFINE from == [k \in y * dstWidth .. (y + 1) * dstWidth - 1 |->
                       pSrc_y + y * job.srcWidth + k - y * dstWidth]
           read == {from[k] : k \in DOMAIN from}
<1>1. /\ pc = "decodeY" /\ CopyRow(read, from) /\ Row(dstHeight, "decodeUV")
      /\ y \in Nat /\ y < dstHeight /\ job \in Jobs /\ UNCHANGED <<job, nv12>>
  BY DEF decodeY, IInv, RowInv, CopyRow
<1>2. /\ dstWidth' = dstWidth /\ dstHeight' = dstHeight /\ Wanted' = Wanted
      /\ \A s : InI420(s)' = InI420(s) /\ Source(s)' = Source(s)
  BY <1>1, SameJob
<1>3. \/ pc' = "decodeY" /\ y' = y + 1 /\ y + 1 < dstHeight
      \/ pc' = "decodeUV" /\ y' = 0 /\ dstHeight = y + 1
  BY <1>1, JobFacts DEF Row
<1>j. /\ job.srcWidth \in Nat /\ job.srcHeight \in Nat
      /\ job.left \in Nat /\ job.top \in Nat
      /\ dstWidth \in Nat /\ dstHeight \in Nat
      /\ job.left + dstWidth <= job.srcWidth
      /\ job.top + dstHeight <= job.srcHeight
      /\ y \in Nat /\ y < dstHeight
  BY <1>1, JobFacts
<1>4. y * dstWidth \in Nat /\ (y + 1) * dstWidth = y * dstWidth + dstWidth
  BY <1>j
<1>5. ASSUME NEW col \in Nat, col < dstWidth
      PROVE  /\ y * dstWidth + col \in DOMAIN from
             /\ from[y * dstWidth + col] = (job.top + y) * job.srcWidth + (job.left + col)
  <2>1. y * dstWidth + col \in y * dstWidth .. (y + 1) * dstWidth - 1
    BY <1>4, <1>5, <1>j
  <2>2. pSrc_y + y * job.srcWidth + (y * dstWidth + col) - y * dstWidth
           = (job.top + y) * job.srcWidth + (job.left + col)
    BY <1>4, <1>j DEF pSrc_y
  <2> QED BY <2>1, <2>2
<1>d. \A k \in DOMAIN from :
         k \in Int /\ y * dstWidth <= k /\ k < y * dstWidth + dstWidth
  <2> DEFINE a == y * dstWidth
             b == (y + 1) * dstWidth
  <2>1. a \in Nat /\ b = a + dstWidth
    BY <1>4
  <2>2. DOMAIN from = a .. b - 1
    OBVIOUS
  <2> HIDE DEF a, b, from
  <2>3. \A k \in DOMAIN from : k \in Int /\ a <= k /\ k < a + dstWidth
    BY <2>1, <2>2, <1>j
  <2> QED BY <2>3 DEF a
<1> HIDE DEF from
<1>6. ASSUME NEW k \in DOMAIN from
      PROVE  \E col \in Nat : col < dstWidth /\ k = y * dstWidth + col
  BY <1>4, <1>j, <1>d, Column
<1>7. ASSUME NEW k \in DOMAIN from PROVE k \in Image /\ from[k] \in Frame
  <2>1. PICK col \in Nat : col < dstWidth /\ k = y * dstWidth + col
    BY <1>6
  <2>2. k \in Nat /\ k < dstHeight * dstWidth
    BY <1>j, <2>1, RowFits
  <2>3. from[k] \in Nat /\ from[k] < job.srcHeight * job.srcWidth
    <3>1. job.top + y \in Nat /\ job.top + y < job.srcHeight
      BY <1>j
    <3>2. job.left + col \in Nat /\ job.left + col < job.srcWidth
      BY <1>j, <2>1
    <3>3. /\ (job.top + y) * job.srcWidth + (job.left + col) \in Nat
          /\ (job.top + y) * job.srcWidth + (job.left + col) < job.srcHeight * job.srcWidth
      BY <1>j, <3>1, <3>2, RowFits
    <3> QED BY <1>5, <2>1, <3>3
  <2>4. 2 * 0 <= dstHeight /\ 2 * 0 <= job.srcHeight
    BY <1>j
  <2>5. /\ dstWidth * dstHeight + 0 * dstWidth <= encoderBufferSize(dstWidth, dstHeight)
        /\ encoderBufferSize(dstWidth, dstHeight) \in Nat
    BY <1>j, <2>4, BufferHolds
  <2>6. /\ job.srcWidth * job.srcHeight + 0 * job.srcWidth
              <= encoderBufferSize(job.srcWidth, job.srcHeight)
        /\ encoderBufferSize(job.srcWidth, job.srcHeight) \in Nat
    BY <1>j, <2>4, BufferHolds
  <2>7. k < encoderBufferSize(dstWidth, dstHeight)
    BY <1>j, <2>2, <2>5
  <2>8. from[k] < encoderBufferSize(job.srcWidth, job.srcHeight)
    BY <1>j, <2>3, <2>6
  <2> QED BY <2>2, <2>3, <2>5, <2>6, <2>7, <2>8 DEF Image, Frame
<1>8. StaysInBuffers'
  <2>1. pc \in Decoding /\ pc' \in Decoding /\ StaysInBuffers
    BY <1>1, <1>3 DEF Decoding, IInv
  <2>2. read \subseteq Frame /\ DOMAIN from \subseteq Image
    BY <1>7
  <2> QED BY <1>1, <2>1, <2>2, CopyStays
<1>9. DecodeInv'
  <2> SUFFICES ASSUME NEW s \in Wanted, s.row < DecodedRows(s.plane)'
               PROVE  Byte(i420', InI420(s)) = Source(s)
    BY <1>2 DEF DecodeInv
  <2>1. /\ s.plane = "Y" /\ s.row \in Nat /\ s.col \in Nat /\ s.col < dstWidth
        /\ s.row < y \/ s.row = y
    BY <1>1, <1>2, <1>3, SampleFacts DEF Wanted, DecodedRows
  <2>2. /\ InI420(s) = s.row * dstWidth + s.col
        /\ Source(s) = (job.top + s.row) * job.srcWidth + (job.left + s.col)
    BY <2>1 DEF InI420, I420, Source, NV12
  <2>3. \A k : Byte(i420', k) = IF k \in DOMAIN from THEN from[k] ELSE Byte(i420, k)
    BY <1>1, ByteOver DEF CopyRow
  <2>4. CASE s.row = y
    BY <2>1, <2>2, <2>3, <2>4, <1>5
  <2>5. CASE s.row < y
    <3>1. InI420(s) \notin DOMAIN from
      BY <1>j, <2>1, <2>2, <2>5, <1>d, RowsApart
    <3>2. Byte(i420, InI420(s)) = Source(s)
      BY <1>1, <2>1, <2>5 DEF IInv, DecodeInv, DecodedRows
    <3> QED BY <2>3, <3>1, <3>2
  <2> QED BY <2>1, <2>4, <2>5
<1>10. EncodeInv'
  BY <1>2, <1>3, SampleFacts, <1>1 DEF EncodeInv, EncodedRows, Decoding, Wanted
<1>11. RowInv'
  BY <1>1, <1>2, <1>3, JobFacts DEF RowInv, Decoding
<1> QED BY <1>8, <1>9, <1>10, <1>11 DEF IInv

\* A row of the chroma loop: what is copied to u and v from uv.
ChromaRow(u, v, uv, tmp) ==
    LET U == [k \in u .. u + tmp - 1 |-> uv + 2 * (k - u)]
        V == [k \in v .. v + tmp - 1 |-> uv + 2 * (k - v) + 1]
    IN  IF v > u THEN Over(U, V) ELSE Over(V, U)

\* Even bytes go to u, odd ones to v, and no others are written; nothing is
\* said of the bytes where the two overlap.
Splits(from, u, v, uv, tmp) ==
    /\ \A k \in DOMAIN from : \E c \in Nat :
          /\ c < tmp
          /\ \/ k = v + c /\ from[k] = uv + 2 * c + 1
             \/ k = u + c /\ from[k] = uv + 2 * c
    /\ \A c \in Nat : c < tmp /\ u + tmp <= v + c =>
          v + c \in DOMAIN from /\ from[v + c] = uv + 2 * c + 1
    /\ \A c \in Nat : c < tmp /\ u + c < v =>
          u + c \in DOMAIN from /\ from[u + c] = uv + 2 * c

\* This is what a row of the loop does.
LEMMA ChromaRowSplits ==
    ASSUME NEW u \in Int, NEW v \in Int, NEW uv \in Int, NEW tmp \in Nat,
           NEW from, from = ChromaRow(u, v, uv, tmp)
    PROVE  Splits(from, u, v, uv, tmp)
<1> DEFINE V == [k \in v .. v + tmp - 1 |-> uv + 2 * (k - v) + 1]
           U == [k \in u .. u + tmp - 1 |-> uv + 2 * (k - u)]
<1>1. /\ DOMAIN from = DOMAIN V \cup DOMAIN U
      /\ \A k \in DOMAIN from : \/ k \in DOMAIN V /\ from[k] = V[k]
                                \/ k \in DOMAIN U /\ from[k] = U[k]
      /\ \A k \in DOMAIN V \ DOMAIN U : from[k] = V[k]
      /\ \A k \in DOMAIN U \ DOMAIN V : from[k] = U[k]
  <2>1. from = Over(U, V) \/ from = Over(V, U)
    BY DEF ChromaRow
  <2> HIDE DEF V, U
  <2> QED BY <2>1 DEF Over
<1>2. /\ DOMAIN V = v .. v + tmp - 1 /\ DOMAIN U = u .. u + tmp - 1
      /\ \A k \in DOMAIN V : V[k] = uv + 2 * (k - v) + 1
      /\ \A k \in DOMAIN U : U[k] = uv + 2 * (k - u)
  OBVIOUS
<1> HIDE DEF V, U
<1>3. ASSUME NEW k \in DOMAIN from
      PROVE  \E c \in Nat : /\ c < tmp
                            /\ \/ k = v + c /\ from[k] = uv + 2 * c + 1
                               \/ k = u + c /\ from[k] = uv + 2 * c
  <2>1. CASE k \in DOMAIN V /\ from[k] = V[k]
    <3>1. k \in Int /\ v <= k /\ k < v + tmp
      BY <1>2, <2>1
    <3>2. PICK c \in Nat : c < tmp /\ k = v + c
      BY <3>1, Column
    <3>3. from[k] = uv + 2 * (k - v) + 1
      BY <1>1, <1>2, <2>1
    <3>4. k - v = c
      BY <3>2
    <3> QED BY <3>2, <3>3, <3>4
  <2>2. CASE k \in DOMAIN U /\ from[k] = U[k]
    <3>1. k \in DOMAIN U
      BY <2>2
    <3>2. k \in Int /\ u <= k /\ k < u + tmp
      BY <1>2, <3>1
    <3>3. PICK c \in Nat : c < tmp /\ k = u + c
      BY <3>2, Column
    <3>4. from[k] = uv + 2 * (k - u)
      BY <1>1, <1>2, <2>2, <3>1
    <3>5. k - u = c
      BY <3>3
    <3> QED BY <3>3, <3>4, <3>5
  <2> QED BY <1>1, <2>1, <2>2
<1>4. ASSUME NEW c \in Nat, c < tmp, u + tmp <= v + c
      PROVE  v + c \in DOMAIN from /\ from[v + c] = uv + 2 * c + 1
  <2>1. v + c \in v .. v + tmp - 1 /\ v + c \notin u .. u + tmp - 1 /\ (v + c) - v = c
    BY <1>4
  <2> QED BY <1>1, <1>2, <2>1
<1>5. ASSUME NEW c \in Nat, c < tmp, u + c < v
      PROVE  u + c \in DOMAIN from /\ from[u + c] = uv + 2 * c
  <2>1. u + c \in u .. u + tmp - 1 /\ u + c \notin v .. v + tmp - 1 /\ (u + c) - u = c
    BY <1>5
  <2> QED BY <1>1, <1>2, <2>1
<1> QED BY <1>3, <1>4, <1>5 DEF Splits

\* The two chroma planes fill the image from its luma on, for every width.
LEMMA ChromaFits ==
    ASSUME NEW w \in Nat, NEW S \in Nat, NEW Q \in Nat, NEW row \in Nat, NEW c \in Nat,
           NEW tmp \in Nat, row < Q, c < tmp,
           (w = 2 * S /\ tmp = S) \/ (w = 2 * S + 1 /\ tmp = S + 1)
    PROVE  row * S + c \in Nat /\ Q * S \in Nat /\ Q * S + row * S + c < Q * w
<1>1. (row + 1) * S <= Q * S
  BY Products
<1>2. (row + 1) * S = row * S + S /\ row * S \in Nat /\ Q * S \in Nat
  OBVIOUS
<1>3. CASE w = 2 * S /\ tmp = S
  <2>1. Q * w = 2 * (Q * S)
    BY <1>3
  <2> QED BY <1>1, <1>2, <1>3, <2>1
<1>4. CASE w = 2 * S + 1 /\ tmp = S + 1
  <2>1. Q * w = 2 * (Q * S) + Q
    BY <1>4
  <2> QED BY <1>1, <1>2, <1>4, <2>1
<1> QED BY <1>3, <1>4

\* The chroma loop: every second byte of a row of the frame goes to the U
\* plane and the ones in between to the V plane.
LEMMA DecodeUVStep ==
    ASSUME IInv, decodeUV
    PROVE  IInv'
<1> DEFINE P == dstWidth * dstHeight
           S == dstWidth \div 2
           Q == dstHeight \div 2
           t == job.top \div 2
           tmp == (dstWidth + 1) \div 2
           u == pDst_u + y * dst_uv_stride
           v == pDst_v + y * dst_uv_stride
           uv == pSrc_uv + y * job.srcWidth
           from == ChromaRow(u, v, uv, tmp)
           read == uv .. uv + 2 * tmp - 1
<1>1. /\ pc = "decodeUV" /\ CopyRow(read, from) /\ Row((dstHeight + 1) \div 2, "check")
      /\ job \in Jobs /\ UNCHANGED <<job, nv12>>
  BY DEF decodeUV, ChromaRow, IInv, RowInv, CopyRow
<1>2. /\ dstWidth' = dstWidth /\ dstHeight' = dstHeight /\ Wanted' = Wanted
      /\ \A s : InI420(s)' = InI420(s) /\ Source(s)' = Source(s)
  BY <1>1, SameJob
<1>j. /\ job.srcWidth \in Nat /\ job.srcHeight \in Nat
      /\ job.left \in Nat /\ job.top \in Nat
      /\ dstWidth \in Nat /\ dstHeight \in Nat /\ dstHeight > 0
      /\ job.left + dstWidth <= job.srcWidth
      /\ job.top + dstHeight <= job.srcHeight
      /\ y \in Nat
  BY <1>1, JobFacts DEF IInv, RowInv
<1>h. /\ S \in Nat /\ Q \in Nat /\ t \in Nat /\ tmp \in Nat
      /\ (dstWidth = 2 * S /\ tmp = S) \/ (dstWidth = 2 * S + 1 /\ tmp = S + 1)
      /\ dstHeight = 2 * Q \/ dstHeight = 2 * Q + 1
      /\ job.top = 2 * t \/ job.top = 2 * t + 1
      /\ Even(dstWidth) => dstWidth = 2 * S /\ tmp = S
      /\ Even(dstHeight) => dstHeight = 2 * Q /\ (dstHeight + 1) \div 2 = Q /\ y < Q
      /\ Even(job.top) => job.top = 2 * t
  <2>1. /\ S \in Nat /\ tmp \in Nat /\ (Even(dstWidth) => dstWidth = 2 * S /\ tmp = S)
        /\ (dstWidth = 2 * S /\ tmp = S) \/ (dstWidth = 2 * S + 1 /\ tmp = S + 1)
    BY <1>j DEF Even
  <2>2. /\ Q \in Nat /\ (dstHeight = 2 * Q \/ dstHeight = 2 * Q + 1)
        /\ Even(dstHeight) => dstHeight = 2 * Q /\ (dstHeight + 1) \div 2 = Q
    BY <1>j, Halves
  <2>3. /\ t \in Nat /\ (job.top = 2 * t \/ job.top = 2 * t + 1)
        /\ Even(job.top) => job.top = 2 * t
    BY <1>j, Halves
  <2>4. y < (dstHeight + 1) \div 2
    BY <1>1 DEF IInv, RowInv
  <2> QED BY <2>1, <2>2, <2>3, <2>4
<1>u. /\ P \in Nat /\ y * S \in Nat /\ dst_uv_size \in Nat
      /\ u = P + y * S /\ v = P + dst_uv_size + y * S
      /\ Even(dstHeight) => dst_uv_size = Q * S
  <2>1. P \in Nat /\ y * S \in Nat /\ S * dstHeight \in Nat
    BY <1>j, <1>h
  <2>2. dst_uv_size \in Nat
    BY <2>1 DEF dst_uv_size
  <2>3. u = P + y * S /\ v = P + dst_uv_size + y * S
    BY DEF pDst_u, pDst_v, dst_uv_stride
  <2>4. ASSUME Even(dstHeight) PROVE dst_uv_size = Q * S
    <3>1. S * dstHeight = 2 * (Q * S) /\ Q * S \in Nat
      BY <1>h, <2>4
    <3>2. \A n \in Nat : (2 * n) \div 2 = n
      OBVIOUS
    <3> QED BY <3>1, <3>2 DEF dst_uv_size
  <2> QED BY <2>1, <2>2, <2>3, <2>4
<1>v. /\ u \in Int /\ v \in Int /\ uv \in Int
      /\ Even(job.top) => uv = (job.srcHeight + t + y) * job.srcWidth + job.left
  <2>1. pSrc_y \in Int /\ pSrc_uv \in Int
    BY <1>j, <1>h DEF pSrc_y, pSrc_uv
  <2>2. y * job.srcWidth \in Int
    BY <1>j
  <2>3. ASSUME Even(job.top)
        PROVE  uv = (job.srcHeight + t + y) * job.srcWidth + job.left
    <3>1. job.top = 2 * t
      BY <1>h, <2>3
    <3>2. uv = job.srcWidth * (2 * t) + job.left + job.srcWidth * (job.srcHeight - t)
                  + y * job.srcWidth
      BY <3>1 DEF pSrc_y, pSrc_uv
    <3> QED BY <1>j, <1>h, <3>2
  <2> QED BY <1>u, <2>1, <2>2, <2>3
<1>f. from = ChromaRow(u, v, uv, tmp) /\ read = uv .. uv + 2 * tmp - 1
  OBVIOUS
<1> HIDE DEF P, S, Q, t, tmp, u, v, uv, from, read
<1>3. \/ pc' = "decodeUV" /\ y' = y + 1 /\ y + 1 < (dstHeight + 1) \div 2
      \/ pc' = "check" /\ y' = 0 /\ ~(y + 1 < (dstHeight + 1) \div 2)
  BY <1>1 DEF Row
<1>4. /\ \A k \in DOMAIN from : \E c \in Nat :
            /\ c < tmp
            /\ \/ k = v + c /\ from[k] = uv + 2 * c + 1
               \/ k = u + c /\ from[k] = uv + 2 * c
      /\ \A c \in Nat : c < tmp /\ u + tmp <= v + c =>
            v + c \in DOMAIN from /\ from[v + c] = uv + 2 * c + 1
      /\ \A c \in Nat : c < tmp /\ u + c < v =>
            u + c \in DOMAIN from /\ from[u + c] = uv + 2 * c
  <2>1. u \in Int /\ v \in Int /\ uv \in Int /\ tmp \in Nat
    BY <1>h, <1>v
  <2>2. Splits(from, u, v, uv, tmp)
    BY <2>1, <1>f, ChromaRowSplits
  <2> QED BY <2>2 DEF Splits
<1>5. ASSUME Even(dstHeight), NEW k \in DOMAIN from PROVE k \in Image
  <2>1. PICK c \in Nat : c < tmp /\ (k = v + c \/ k = u + c)
    BY <1>4
  <2>2. y * S + c \in Nat /\ Q * S \in Nat /\ Q * S + y * S + c < Q * dstWidth
    BY <1>5, <1>h, <1>j, <2>1, ChromaFits
  <2>3. /\ P + Q * dstWidth <= encoderBufferSize(dstWidth, dstHeight)
        /\ encoderBufferSize(dstWidth, dstHeight) \in Nat /\ Q * dstWidth \in Nat
    BY <1>5, <1>h, <1>j, BufferHolds DEF P
  <2>4. k \in Nat /\ k <= P + (Q * S + y * S + c)
    BY <1>5, <1>u, <2>1, <2>2
  <2>5. k < encoderBufferSize(dstWidth, dstHeight)
    BY <1>u, <2>2, <2>3, <2>4
  <2> QED BY <2>3, <2>4, <2>5 DEF Image
<1>6. ASSUME Even(dstHeight), Even(dstWidth), Even(job.top), NEW a \in read
      PROVE  a \in Frame
  <2> DEFINE r == job.srcHeight + t + y
             n == job.srcHeight + (t + Q)
  <2>1. a \in Int /\ uv <= a /\ a < uv + 2 * tmp /\ 2 * tmp \in Nat
    BY <1>f, <1>h, <1>v
  <2>2. PICK d \in Nat : d < 2 * tmp /\ a = uv + d
    BY <1>v, <2>1, Column
  <2>3. job.left + d \in Nat /\ job.left + d < job.srcWidth
    BY <1>6, <1>h, <1>j, <2>1, <2>2
  <2>4. r \in Nat /\ n \in Nat /\ r < n
    BY <1>6, <1>h, <1>j
  <2>5. t + Q \in Nat /\ 2 * (t + Q) <= job.srcHeight
    BY <1>6, <1>h, <1>j
  <2>6. a = r * job.srcWidth + (job.left + d)
    <3>1. r * job.srcWidth \in Int
      BY <2>4, <1>j
    <3>2. uv = r * job.srcWidth + job.left
      BY <1>6, <1>v
    <3> QED BY <2>2, <3>1, <3>2, <1>j
  <2> HIDE DEF r
  <2>7. a \in Nat /\ a < n * job.srcWidth
    BY <2>3, <2>4, <2>6, <1>j, RowFits
  <2>8. n * job.srcWidth = job.srcWidth * job.srcHeight + (t + Q) * job.srcWidth
    BY <1>j, <2>5
  <2>9. /\ job.srcWidth * job.srcHeight + (t + Q) * job.srcWidth
              <= encoderBufferSize(job.srcWidth, job.srcHeight)
        /\ encoderBufferSize(job.srcWidth, job.srcHeight) \in Nat
    BY <1>j, <2>5, BufferHolds
  <2> HIDE DEF n
  <2>10. n * job.srcWidth \in Nat
    BY <1>j, <2>4
  <2>11. a < encoderBufferSize(job.srcWidth, job.srcHeight)
    BY <2>7, <2>8, <2>9, <2>10
  <2> QED BY <2>7, <2>9, <2>11 DEF Frame
<1>7. StaysInBuffers'
  <2>1. pc \in Decoding /\ pc' \in Decoding /\ StaysInBuffers
    BY <1>1, <1>3 DEF Decoding, IInv
  <2>2. /\ Even(dstHeight) => DOMAIN from \subseteq Image
        /\ Even(dstHeight) /\ Even(dstWidth) /\ Even(job.top) => read \subseteq Frame
    BY <1>5, <1>6
  <2> QED BY <1>1, <2>1, <2>2, CopyStays
<1>8. \A k : Byte(i420', k) = IF k \in DOMAIN from THEN from[k] ELSE Byte(i420, k)
  BY <1>1, ByteOver DEF CopyRow
<1>9. ASSUME NEW s \in Wanted, s.plane = "Y"
      PROVE  Byte(i420', InI420(s)) = Source(s)
  <2>1. s.row \in Nat /\ s.col \in Nat /\ s.row < dstHeight /\ s.col < dstWidth
    BY <1>1, <1>9, SampleFacts DEF Wanted
  <2>2. InI420(s) = s.row * dstWidth + s.col
    BY <1>9 DEF InI420, I420
  <2>3. InI420(s) \in Nat /\ InI420(s) < P
    BY <1>j, <2>1, <2>2, RowFits, Products DEF P
  <2>4. InI420(s) \notin DOMAIN from
    BY <2>3, <1>4, <1>u
  <2>5. Byte(i420, InI420(s)) = Source(s)
    BY <1>1, <1>9, <2>1 DEF IInv, DecodeInv, DecodedRows
  <2> QED BY <1>8, <2>4, <2>5
<1>10. ASSUME NEW s \in Wanted, s.plane # "Y", s.row <= y
       PROVE  Byte(i420', InI420(s)) = Source(s)
  <2>e. Even(dstHeight) /\ Even(dstWidth) /\ Even(job.top) /\ Even(job.left)
    BY <1>10 DEF Wanted, EvenRect
  <2>1. /\ s.row \in Nat /\ s.col \in Nat /\ s.row < Q /\ s.col < tmp /\ y < Q /\ tmp = S
        /\ s.plane \in {"U", "V"}
    BY <1>1, <1>h, <1>10, <2>e, SampleFacts DEF Wanted, Q, S
  <2>2. /\ s.row * S \in Nat /\ Q * S \in Nat /\ s.row * S + s.col \in Nat
        /\ s.row * S + s.col < Q * S
        /\ v = P + Q * S + y * S
    BY <2>1, <2>e, <1>h, <1>u, RowFits
  <2>3. InI420(s) = IF s.plane = "U" THEN P + s.row * S + s.col
                                     ELSE P + S * Q + s.row * S + s.col
    BY <2>1 DEF InI420, I420, P, S, Q
  <2>4. Source(s) = IF s.plane = "U" THEN uv + (s.row - y) * job.srcWidth + 2 * s.col
                                     ELSE uv + (s.row - y) * job.srcWidth + 2 * s.col + 1
    <3>1. job.left = 2 * (job.left \div 2)
      BY <1>j, <2>e DEF Even
    <3>2. Source(s) = IF s.plane = "U"
              THEN job.srcWidth * job.srcHeight + (t + s.row) * job.srcWidth
                       + 2 * (job.left \div 2 + s.col)
              ELSE job.srcWidth * job.srcHeight + (t + s.row) * job.srcWidth
                       + 2 * (job.left \div 2 + s.col) + 1
      BY <2>1 DEF Source, NV12, t
    <3>3. uv = (job.srcHeight + t + y) * job.srcWidth + job.left
      BY <1>v, <2>e
    <3>4. job.srcWidth * job.srcHeight + (t + s.row) * job.srcWidth
             = (job.srcHeight + t + y) * job.srcWidth + (s.row - y) * job.srcWidth
      BY <1>j, <1>h, <2>1
    <3> QED BY <1>j, <1>h, <2>1, <3>1, <3>2, <3>3, <3>4
  <2>5. CASE s.row = y
    <3>1. (s.row - y) * job.srcWidth = 0
      BY <1>j, <2>5
    <3>2. CASE s.plane = "U"
      <4>1. InI420(s) = u + s.col /\ u + s.col < v
        BY <1>u, <2>1, <2>2, <2>3, <2>5, <3>2
      <4>2. Source(s) = uv + 2 * s.col
        BY <1>v, <2>1, <2>4, <3>1, <3>2
      <4> QED BY <1>4, <1>8, <2>1, <4>1, <4>2
    <3>3. CASE s.plane = "V"
      <4>1. InI420(s) = v + s.col
        BY <1>u, <1>h, <2>1, <2>2, <2>3, <2>5, <3>3
      <4>2. Source(s) = uv + 2 * s.col + 1
        BY <1>v, <2>1, <2>4, <3>1, <3>3
      <4>3. u + tmp <= v + s.col
        <5>1. 1 * S <= Q * S /\ 1 * S = S
          BY <1>h, <1>j, <2>1, Products
        <5> QED BY <1>h, <1>u, <2>1, <2>2, <5>1
      <4> QED BY <1>4, <1>8, <2>1, <4>1, <4>2, <4>3
    <3> QED BY <2>1, <3>2, <3>3
  <2>6. CASE s.row < y
    <3>1. /\ (s.row + 1) * S <= y * S /\ (s.row + 1) * S = s.row * S + S
          /\ y * S + S <= Q * S
      <4>1. (s.row + 1) * S <= y * S
        BY <1>h, <1>j, <2>1, <2>6, Products
      <4>2. (y + 1) * S <= Q * S /\ (y + 1) * S = y * S + S
        BY <1>h, <1>j, <2>1, Products
      <4>3. (s.row + 1) * S = s.row * S + S
        BY <1>h, <2>1
      <4> QED BY <4>1, <4>2, <4>3
    <3>2. InI420(s) \notin DOMAIN from
      <4> SUFFICES ASSUME NEW c \in Nat, c < S, InI420(s) = v + c \/ InI420(s) = u + c
                   PROVE  FALSE
        BY <1>4, <2>1
      <4>1. S * Q = Q * S
        BY <1>h
      <4> QED BY <1>h, <1>u, <2>1, <2>2, <2>3, <3>1, <4>1
    <3>3. Byte(i420, InI420(s)) = Source(s)
      BY <1>1, <1>10, <2>6 DEF IInv, DecodeInv, DecodedRows
    <3> QED BY <1>8, <3>2, <3>3
  <2> QED BY <1>10, <1>j, <2>1, <2>5, <2>6
<1>11. DecodeInv'
  <2> SUFFICES ASSUME NEW s \in Wanted, s.row < DecodedRows(s.plane)'
               PROVE  Byte(i420', InI420(s)) = Source(s)
    BY <1>2 DEF DecodeInv
  <2>1. CASE s.plane = "Y"
    BY <1>9, <2>1
  <2>2. CASE s.plane # "Y"
    <3>1. Even(dstHeight) /\ s.row \in Nat
      BY <1>1, <2>2, SampleFacts DEF Wanted, EvenRect
    <3>2. y < Q /\ (dstHeight + 1) \div 2 = Q /\ Q \in Nat
      BY <1>h, <3>1
    <3>3. \/ pc' = "decodeUV" /\ y' = y + 1
          \/ pc' = "check" /\ Q = y + 1
      BY <1>3, <1>j, <3>2
    <3>4. DecodedRows(s.plane)' = y + 1
      BY <1>2, <2>2, <3>3 DEF DecodedRows, Q
    <3> QED BY <1>10, <1>j, <2>2, <3>1, <3>4
  <2> QED BY <2>1, <2>2
<1>12. EncodeInv'
  BY <1>2, <1>3, SampleFacts, <1>1 DEF EncodeInv, EncodedRows, Decoding, Wanted
<1>13. RowInv'
  BY <1>1, <1>2, <1>3, <1>j DEF RowInv, Decoding
<1> QED BY <1>7, <1>11, <1>12, <1>13 DEF IInv

\* The image is complete when it is handed to the encoder.
LEMMA HandOverStep ==
    ASSUME IInv, handOver
    PROVE  IInv'
<1>1. /\ pc = "check" /\ pc' = "encodeY" /\ reads' = {} /\ writes' = {}
      /\ UNCHANGED <<job, y, i420, nv12>> /\ job \in Jobs /\ y = 0
  BY DEF handOver, IInv, RowInv
<1>2. /\ dstWidth' = dstWidth /\ dstHeight' = dstHeight /\ Wanted' = Wanted
      /\ \A s : /\ InI420(s)' = InI420(s) /\ Source(s)' = Source(s)
                /\ InNV12(s)' = InNV12(s)
  BY <1>1, SameJob
<1>3. RowInv'
  BY <1>1, <1>2, JobFacts DEF RowInv, Decoding
<1>4. StaysInBuffers'
  BY <1>1 DEF StaysInBuffers
<1>5. DecodeInv'
  BY <1>1, <1>2 DEF DecodeInv, DecodedRows, IInv
<1>6. EncodeInv'
  BY <1>1, <1>2, SampleFacts DEF EncodeInv, EncodedRows, Decoding, Wanted
<1> QED BY <1>3, <1>4, <1>5, <1>6 DEF IInv

-----------------------------------------------------------------------------
(* convertI420ToEncoderInput.                                              *)

\* A byte of the encoder's buffer after a row.
LEMMA EncodedByte ==
    ASSUME NEW from, EncodeRow(from), NEW k
    PROVE  Byte(nv12', k) = IF k \in DOMAIN from THEN Byte(i420, from[k])
                                                 ELSE Byte(nv12, k)
<1> DEFINE new == [j \in DOMAIN from |-> Byte(i420, from[j])]
<1>1. nv12' = Over(new, nv12)
  BY DEF EncodeRow
<1>2. DOMAIN new = DOMAIN from /\ \A j \in DOMAIN from : new[j] = Byte(i420, from[j])
  OBVIOUS
<1> HIDE DEF new
<1> QED BY <1>1, <1>2, ByteOver

\* Before it, every sample is in the image.
LEMMA ImageKept ==
    ASSUME IInv, pc \in {"encodeY", "encodeUV"}, UNCHANGED <<job, i420>>,
           pc' \in {"encodeY", "encodeUV", "done"}
    PROVE  /\ \A s \in Wanted : Byte(i420, InI420(s)) = Source(s)
           /\ DecodeInv'
<1>1. \A s \in Wanted : Byte(i420, InI420(s)) = Source(s)
  <2> SUFFICES ASSUME NEW s \in Wanted PROVE Byte(i420, InI420(s)) = Source(s)
    OBVIOUS
  <2>1. s.row < DecodedRows(s.plane)
    BY SampleFacts DEF IInv, RowInv, Wanted, DecodedRows
  <2> QED BY <2>1 DEF IInv, DecodeInv
<1> QED BY <1>1, SameJob DEF DecodeInv

\* The luma loop copies a row to where it was.
LEMMA EncodeYStep ==
    ASSUME IInv, encodeY
    PROVE  IInv'
<1> DEFINE from == [k \in y * dstWidth .. (y + 1) * dstWidth - 1 |-> k]
<1>1. /\ pc = "encodeY" /\ EncodeRow(from) /\ job \in Jobs /\ UNCHANGED <<job, i420>>
      /\ Row(dstHeight, IF dstHeight < 2 THEN "done" ELSE "encodeUV")
  BY DEF encodeY, IInv, RowInv, EncodeRow
<1>2. /\ dstWidth' = dstWidth /\ dstHeight' = dstHeight /\ Wanted' = Wanted
      /\ \A s : InNV12(s)' = InNV12(s) /\ Source(s)' = Source(s)
  BY <1>1, SameJob
<1>j. /\ dstWidth \in Nat /\ dstHeight \in Nat
      /\ y \in Nat /\ y < dstHeight
  BY <1>1, JobFacts DEF IInv, RowInv
<1>3. \/ pc' = "encodeY" /\ y' = y + 1 /\ y + 1 < dstHeight
      \/ pc' = "encodeUV" /\ y' = 0 /\ dstHeight = y + 1 /\ dstHeight >= 2
      \/ pc' = "done" /\ y' = 0 /\ dstHeight = y + 1 /\ dstHeight < 2
  BY <1>1, <1>j DEF Row
<1>4. y * dstWidth \in Nat /\ (y + 1) * dstWidth = y * dstWidth + dstWidth
  BY <1>j
<1>5. /\ \A k \in DOMAIN from :
            k \in Int /\ y * dstWidth <= k /\ k < y * dstWidth + dstWidth
      /\ \A col \in Nat : col < dstWidth => y * dstWidth + col \in DOMAIN from
      /\ \A k \in DOMAIN from : from[k] = k
  <2> DEFINE a == y * dstWidth
             b == (y + 1) * dstWidth
  <2>1. a \in Nat /\ b = a + dstWidth
    BY <1>4
  <2>2. DOMAIN from = a .. b - 1 /\ \A k \in DOMAIN from : from[k] = k
    OBVIOUS
  <2> HIDE DEF a, b, from
  <2>3. /\ \A k \in DOMAIN from : k \in Int /\ a <= k /\ k < a + dstWidth
        /\ \A col \in Nat : col < dstWidth => a + col \in DOMAIN from
    BY <2>1, <2>2, <1>j
  <2> QED BY <2>2, <2>3 DEF a
<1> HIDE DEF from
<1>6. ASSUME NEW k \in DOMAIN from PROVE k \in Image /\ from[k] \in Image
  <2>1. PICK col \in Nat : col < dstWidth /\ k = y * dstWidth + col
    BY <1>4, <1>5, <1>j, Column
  <2>2. k \in Nat /\ k < dstHeight * dstWidth
    BY <1>j, <2>1, RowFits
  <2>3. 2 * 0 <= dstHeight
    BY <1>j
  <2>4. /\ dstWidth * dstHeight + 0 * dstWidth <= encoderBufferSize(dstWidth, dstHeight)
        /\ encoderBufferSize(dstWidth, dstHeight) \in Nat
    BY <1>j, <2>3, BufferHolds
  <2>5. k < encoderBufferSize(dstWidth, dstHeight)
    BY <1>j, <2>2, <2>4
  <2> QED BY <1>5, <2>2, <2>4, <2>5 DEF Image
<1>7. StaysInBuffers'
  <2>1. pc \notin Decoding /\ pc' \notin Decoding /\ StaysInBuffers
    BY <1>1, <1>3 DEF Decoding, IInv
  <2> QED BY <1>1, <1>6, <2>1, EncodeStays
<1>8. DecodeInv' /\ \A s \in Wanted : Byte(i420, InI420(s)) = Source(s)
  BY <1>1, <1>3, ImageKept
<1>9. EncodeInv'
  <2> SUFFICES ASSUME NEW s \in Wanted, s.row < EncodedRows(s.plane)'
               PROVE  Byte(nv12', InNV12(s)) = Source(s)
    BY <1>2 DEF EncodeInv
  <2>1. /\ s.row \in Nat /\ s.col \in Nat /\ s.plane \in {"Y", "U", "V"}
        /\ s.plane = "Y" => s.col < dstWidth
        /\ s.plane # "Y" => s.row < dstHeight \div 2
    BY <1>1, SampleFacts DEF Wanted
  <2>2. s.plane = "Y" /\ s.row <= y
    BY <1>2, <1>3, <1>j, <2>1 DEF EncodedRows, Decoding
  <2>3. InNV12(s) = s.row * dstWidth + s.col /\ InI420(s) = s.row * dstWidth + s.col
    BY <2>2 DEF InNV12, NV12, InI420, I420
  <2>4. CASE s.row = y
    <3>1. InNV12(s) \in DOMAIN from /\ from[InNV12(s)] = InI420(s)
      BY <1>5, <2>1, <2>2, <2>3, <2>4
    <3> QED BY <1>1, <1>8, <3>1, EncodedByte
  <2>5. CASE s.row < y
    <3>1. InNV12(s) \notin DOMAIN from
      BY <1>5, <1>j, <2>1, <2>2, <2>3, <2>5, RowsApart
    <3>2. Byte(nv12, InNV12(s)) = Source(s)
      BY <1>1, <2>2, <2>5 DEF IInv, EncodeInv, EncodedRows, Decoding
    <3> QED BY <1>1, <3>1, <3>2, EncodedByte
  <2> QED BY <1>j, <2>1, <2>2, <2>4, <2>5
<1>10. RowInv'
  <2>1. dstHeight >= 2 => 0 < dstHeight \div 2
    BY <1>j
  <2> QED BY <1>1, <1>2, <1>3, <1>j, <2>1 DEF RowInv, Decoding
<1> QED BY <1>7, <1>8, <1>9, <1>10 DEF IInv

\* The chroma loop interleaves a row of the U plane with one of the V plane.
LEMMA EncodeUVStep ==
    ASSUME IInv, encodeUV
    PROVE  IInv'
<1> DEFINE P == dstWidth * dstHeight
           S == dstWidth \div 2
           Q == dstHeight \div 2
           uv == P + y * dstWidth
           from == [k \in uv .. uv + 2 * S - 1 |->
                       IF (k - uv) % 2 = 0 THEN P + y * S + (k - uv) \div 2
                                           ELSE pSrc_v + y * S + (k - uv) \div 2]
<1>1. /\ pc = "encodeUV" /\ EncodeRow(from) /\ Row(Q, "done")
      /\ job \in Jobs /\ UNCHANGED <<job, i420>>
  BY DEF encodeUV, IInv, RowInv, EncodeRow
<1>2. /\ dstWidth' = dstWidth /\ dstHeight' = dstHeight /\ Wanted' = Wanted
      /\ \A s : InNV12(s)' = InNV12(s) /\ Source(s)' = Source(s)
  BY <1>1, SameJob
<1>j. /\ dstWidth \in Nat /\ dstHeight \in Nat /\ S \in Nat /\ Q \in Nat
      /\ y \in Nat /\ y < Q /\ 2 * Q <= dstHeight
      /\ dstWidth = 2 * S \/ dstWidth = 2 * S + 1
  <2>1. dstWidth \in Nat /\ dstHeight \in Nat
    BY <1>1, JobFacts
  <2>2. S \in Nat /\ Q \in Nat /\ 2 * Q <= dstHeight
        /\ (dstWidth = 2 * S \/ dstWidth = 2 * S + 1)
    BY <2>1
  <2>3. y \in Nat /\ y < Q
    BY <1>1 DEF IInv, RowInv
  <2> QED BY <2>1, <2>2, <2>3
<1>u. /\ P \in Nat /\ y * S \in Nat /\ y * dstWidth \in Nat /\ Q * S \in Nat
      /\ Q * dstWidth \in Nat /\ uv \in Nat /\ pSrc_v = P + Q * S
  <2>1. /\ P \in Nat /\ y * S \in Nat /\ y * dstWidth \in Nat /\ Q * S \in Nat
        /\ Q * dstWidth \in Nat
    BY <1>j
  <2>2. pSrc_v = P + S * Q /\ S * Q = Q * S
    BY <1>j DEF pSrc_v
  <2> QED BY <2>1, <2>2
<1>f. /\ DOMAIN from = uv .. uv + 2 * S - 1
      /\ \A k \in DOMAIN from :
            from[k] = IF (k - uv) % 2 = 0 THEN P + y * S + (k - uv) \div 2
                                          ELSE pSrc_v + y * S + (k - uv) \div 2
  OBVIOUS
<1>w. uv = P + y * dstWidth
  OBVIOUS
<1> HIDE DEF P, S, Q, uv, from
<1>3. \/ pc' = "encodeUV" /\ y' = y + 1 /\ y + 1 < Q
      \/ pc' = "done" /\ y' = 0 /\ Q = y + 1
  BY <1>1, <1>j DEF Row
<1>d. ASSUME NEW k \in DOMAIN from
      PROVE  \E d \in Nat : d < 2 * S /\ k = uv + d
  <2>1. k \in Int /\ uv <= k /\ k < uv + 2 * S
    BY <1>f, <1>j, <1>u
  <2>2. k - uv \in Nat /\ k - uv < 2 * S /\ k = uv + (k - uv)
    BY <1>j, <1>u, <2>1
  <2> QED BY <2>2
<1>4. ASSUME NEW k \in DOMAIN from
      PROVE  \E c \in Nat : /\ c < S
                            /\ \/ k = uv + 2 * c /\ from[k] = P + y * S + c
                               \/ k = uv + 2 * c + 1 /\ from[k] = P + Q * S + y * S + c
  <2>2. PICK d \in Nat : d < 2 * S /\ k = uv + d
    BY <1>d
  <2>3. k - uv = d
    BY <1>u, <2>2
  <2>4. PICK c \in Nat : c < S /\ c = d \div 2 /\ d = 2 * c + (d % 2) /\ d % 2 \in {0, 1}
    <3>1. /\ d \div 2 \in Nat /\ d = 2 * (d \div 2) + (d % 2) /\ d % 2 \in {0, 1}
          /\ d \div 2 < S
      BY <1>j, <2>2, Parity
    <3> QED BY <3>1
  <2>5. from[k] = IF d % 2 = 0 THEN P + y * S + c ELSE P + Q * S + y * S + c
    BY <1>f, <1>u, <2>3, <2>4
  <2>6. CASE d % 2 = 0
    BY <1>u, <2>2, <2>4, <2>5, <2>6
  <2>7. CASE d % 2 = 1
    BY <1>u, <2>2, <2>4, <2>5, <2>7
  <2> QED BY <2>4, <2>6, <2>7
<1>5. ASSUME NEW c \in Nat, c < S
      PROVE  /\ uv + 2 * c \in DOMAIN from /\ from[uv + 2 * c] = P + y * S + c
             /\ uv + 2 * c + 1 \in DOMAIN from
             /\ from[uv + 2 * c + 1] = P + Q * S + y * S + c
  <2>1. uv + 2 * c \in DOMAIN from /\ uv + 2 * c + 1 \in DOMAIN from
    BY <1>5, <1>f, <1>j, <1>u
  <2>2. (uv + 2 * c) - uv = 2 * c /\ (uv + 2 * c + 1) - uv = 2 * c + 1
    BY <1>u
  <2>3. /\ (2 * c) % 2 = 0 /\ (2 * c) \div 2 = c
        /\ (2 * c + 1) % 2 # 0 /\ (2 * c + 1) \div 2 = c
    OBVIOUS
  <2>4. from[uv + 2 * c] = P + y * S + c
    BY <1>f, <2>1, <2>2, <2>3
  <2>5. from[uv + 2 * c + 1] = pSrc_v + y * S + c
    BY <1>f, <2>1, <2>2, <2>3
  <2> QED BY <1>u, <2>1, <2>4, <2>5
<1>6. ASSUME NEW k \in DOMAIN from PROVE k \in Image /\ from[k] \in Image
  <2>1. PICK c \in Nat : /\ c < S
                         /\ \/ k = uv + 2 * c /\ from[k] = P + y * S + c
                            \/ k = uv + 2 * c + 1 /\ from[k] = P + Q * S + y * S + c
    BY <1>4
  <2>2. PICK tmp \in Nat : (dstWidth = 2 * S /\ tmp = S) \/ (dstWidth = 2 * S + 1 /\ tmp = S + 1)
    BY <1>j
  <2>3. c < tmp
    BY <1>j, <2>1, <2>2
  <2>4. y * S + c \in Nat /\ Q * S + y * S + c < Q * dstWidth
    BY <1>j, <2>1, <2>2, <2>3, ChromaFits
  <2>5. PICK d \in Nat : d < dstWidth /\ k = uv + d
    BY <1>d, <1>j
  <2>6. y * dstWidth + d \in Nat /\ y * dstWidth + d < Q * dstWidth
    BY <1>j, <2>5, RowFits
  <2>7. /\ P + Q * dstWidth <= encoderBufferSize(dstWidth, dstHeight)
        /\ encoderBufferSize(dstWidth, dstHeight) \in Nat
    BY <1>j, BufferHolds DEF P
  <2>8. k \in Nat /\ k < encoderBufferSize(dstWidth, dstHeight)
    BY <1>u, <1>w, <2>5, <2>6, <2>7
  <2>9. from[k] \in Nat /\ from[k] < encoderBufferSize(dstWidth, dstHeight)
    BY <1>u, <2>1, <2>4, <2>7
  <2> QED BY <2>7, <2>8, <2>9 DEF Image
<1>7. StaysInBuffers'
  <2>1. pc \notin Decoding /\ pc' \notin Decoding /\ StaysInBuffers
    BY <1>1, <1>3 DEF Decoding, IInv
  <2> QED BY <1>1, <1>6, <2>1, EncodeStays
<1>8. DecodeInv' /\ \A s \in Wanted : Byte(i420, InI420(s)) = Source(s)
  BY <1>1, <1>3, ImageKept
<1>9. EncodeInv'
  <2> SUFFICES ASSUME NEW s \in Wanted, s.row < EncodedRows(s.plane)'
               PROVE  Byte(nv12', InNV12(s)) = Source(s)
    BY <1>2 DEF EncodeInv
  <2>1. /\ s.row \in Nat /\ s.col \in Nat /\ s.plane \in {"Y", "U", "V"}
        /\ s.plane = "Y" => s.row < dstHeight /\ s.col < dstWidth
        /\ s.plane # "Y" => s.row < Q /\ s.col < S
    BY <1>1, SampleFacts DEF Wanted, Q, S
  <2>2. CASE s.plane = "Y"
    <3>1. InNV12(s) = s.row * dstWidth + s.col
      BY <2>2 DEF InNV12, NV12
    <3>2. InNV12(s) \in Nat /\ InNV12(s) < P
      BY <1>j, <2>1, <2>2, <3>1, RowFits, Products DEF P
    <3>3. InNV12(s) \notin DOMAIN from
      BY <1>4, <1>u, <1>w, <3>2
    <3>4. Byte(nv12, InNV12(s)) = Source(s)
      BY <1>1, <2>1, <2>2 DEF IInv, EncodeInv, EncodedRows, Decoding
    <3> QED BY <1>1, <3>3, <3>4, EncodedByte
  <2>3. CASE s.plane # "Y"
    <3>1. s.row <= y
      BY <1>2, <1>3, <1>j, <2>1, <2>3 DEF EncodedRows, Decoding
    <3>2. dstWidth = 2 * S
      BY <1>1, <2>3, JobFacts, Halves DEF Wanted, EvenRect, S
    <3>3. PICK d \in Nat : /\ d < dstWidth
                           /\ d = IF s.plane = "U" THEN 2 * s.col ELSE 2 * s.col + 1
      BY <1>j, <2>1, <2>3, <3>2
    <3>4. InNV12(s) = P + s.row * dstWidth + d
      <4>1. InNV12(s) = IF s.plane = "U" THEN P + s.row * dstWidth + 2 * s.col
                                         ELSE P + s.row * dstWidth + 2 * s.col + 1
        BY <2>1, <2>3 DEF InNV12, NV12, P
      <4>2. s.row * dstWidth \in Nat
        BY <1>j, <2>1
      <4> QED BY <1>u, <2>1, <3>3, <4>1, <4>2
    <3>5. CASE s.row = y
      <4>1. InI420(s) = IF s.plane = "U" THEN P + y * S + s.col
                                         ELSE P + Q * S + y * S + s.col
        <5>1. InI420(s) = IF s.plane = "U" THEN P + s.row * S + s.col
                                           ELSE P + S * Q + s.row * S + s.col
          BY <2>1, <2>3 DEF InI420, I420, P, S, Q
        <5>2. S * Q = Q * S
          BY <1>j
        <5> QED BY <3>5, <5>1, <5>2
      <4>2. InNV12(s) = IF s.plane = "U" THEN uv + 2 * s.col ELSE uv + 2 * s.col + 1
        BY <1>u, <1>w, <2>1, <3>3, <3>4, <3>5
      <4>3. InNV12(s) \in DOMAIN from /\ from[InNV12(s)] = InI420(s)
        BY <1>5, <2>1, <2>3, <4>1, <4>2
      <4> QED BY <1>1, <1>8, <4>3, EncodedByte
    <3>6. CASE s.row < y
      <4>1. ~(/\ y * dstWidth <= s.row * dstWidth + d
              /\ s.row * dstWidth + d < y * dstWidth + dstWidth)
        <5>1. /\ dstWidth \in Nat /\ s.row \in Nat /\ y \in Nat /\ d < dstWidth
              /\ s.row # y
          BY <1>j, <2>1, <3>3, <3>6
        <5> QED BY <5>1, RowsApart
      <4>2. ASSUME InNV12(s) \in DOMAIN from PROVE FALSE
        <5>1. PICK e \in Nat : e < dstWidth /\ InNV12(s) = uv + e
          BY <1>d, <1>j, <4>2
        <5>2. s.row * dstWidth \in Nat
          BY <1>j, <2>1
        <5> QED BY <1>j, <1>u, <1>w, <3>3, <3>4, <4>1, <5>1, <5>2
      <4>3. Byte(nv12, InNV12(s)) = Source(s)
        BY <1>1, <2>3, <3>6 DEF IInv, EncodeInv, EncodedRows, Decoding
      <4> QED BY <1>1, <4>2, <4>3, EncodedByte
    <3> QED BY <1>j, <2>1, <3>1, <3>5, <3>6
  <2> QED BY <2>2, <2>3
<1>10. RowInv'
  BY <1>1, <1>2, <1>3, <1>j DEF RowInv, Decoding, Q
<1> QED BY <1>7, <1>8, <1>9, <1>10 DEF IInv

-----------------------------------------------------------------------------
(* The theorems.                                                           *)

\* A job starts with empty buffers.
LEMMA InitIInv == Init => IInv
<1> SUFFICES ASSUME Init PROVE IInv
  OBVIOUS
<1>1. RowInv
  BY JobFacts DEF Init, RowInv, Decoding
<1>2. StaysInBuffers
  BY DEF Init, StaysInBuffers
<1>3. DecodeInv /\ EncodeInv
  BY SampleFacts DEF Init, DecodeInv, EncodeInv, DecodedRows, EncodedRows, Decoding, Wanted
<1> QED BY <1>1, <1>2, <1>3 DEF IInv

\* Every row keeps the invariant.
LEMMA NextIInv == IInv /\ [Next]_vars => IInv'
<1> SUFFICES ASSUME IInv, [Next]_vars PROVE IInv'
  OBVIOUS
<1>1. CASE UNCHANGED vars
  <2>1. /\ UNCHANGED <<pc, y, i420, nv12, reads, writes, job>>
        /\ dstWidth' = dstWidth /\ dstHeight' = dstHeight /\ Wanted' = Wanted
        /\ \A s : /\ InI420(s)' = InI420(s) /\ Source(s)' = Source(s)
                  /\ InNV12(s)' = InNV12(s)
    BY <1>1, SameJob DEF vars
  <2>2. RowInv' /\ StaysInBuffers'
    BY <2>1 DEF IInv, RowInv, StaysInBuffers
  <2>3. DecodeInv' /\ EncodeInv'
    BY <2>1 DEF IInv, DecodeInv, EncodeInv, DecodedRows, EncodedRows
  <2> QED BY <2>2, <2>3 DEF IInv
<1> QED
  BY <1>1, DecodeYStep, DecodeUVStep, HandOverStep, EncodeYStep, EncodeUVStep DEF Next

\* The invariant holds in every state.
LEMMA Invariant == Spec => []IInv
BY InitIInv, NextIInv, PTL DEF Spec

\* Neither conversion reads or writes outside its buffers, for frames of every
\* size: the decoder's side for even rectangles that start in an even row, the
\* encoder's side always.
THEOREM ConversionsInBounds == Spec => []StaysInBuffers
<1>1. IInv => StaysInBuffers
  BY DEF IInv
<1> QED BY Invariant, <1>1, PTL

\* convertDecoderOutputToI420 has put every sample of the rectangle where I420
\* has it.
THEOREM ImageIsRight == Spec => []ImageRight
<1>1. IInv => ImageRight
  <2> SUFFICES ASSUME IInv, pc = "check", NEW s \in Samples, s.plane = "Y" \/ EvenRect
               PROVE  Byte(i420, InI420(s)) = Source(s)
    BY DEF ImageRight, InI420
  <2>1. s \in Wanted /\ s.row < DecodedRows(s.plane)
    BY SampleFacts DEF IInv, RowInv, Wanted, DecodedRows
  <2> QED BY <2>1 DEF IInv, DecodeInv
<1> QED BY Invariant, <1>1, PTL

\* Both conversions together give the encoder the rectangle of the decoder's
\* frame, sample by sample.
THEOREM EncoderGetsRect == Spec => []EncoderSeesRect
<1>1. IInv => EncoderSeesRect
  <2> SUFFICES ASSUME IInv, pc = "done", NEW s \in Samples, s.plane = "Y" \/ EvenRect
               PROVE  Byte(nv12, InNV12(s)) = Source(s)
    BY DEF EncoderSeesRect, InNV12
  <2>1. s.row < dstHeight
    BY JobFacts, SampleFacts DEF IInv, RowInv
  <2>2. s \in Wanted /\ s.row < EncodedRows(s.plane)
    BY <2>1 DEF Wanted, EncodedRows, Decoding
  <2> QED BY <2>2 DEF IInv, EncodeInv
<1> QED BY Invariant, <1>1, PTL
=============================================================================
