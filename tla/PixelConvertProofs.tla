------------------------- MODULE PixelConvertProofs -------------------------
(* Theorems of PixelConvert, for any frames: sizes, types, and the range of *)
(* every sample the converter computes.                                     *)
EXTENDS PixelConvert, TLAPS

----------------------------------------------------------------------------
(* The colour arithmetic, over every byte *)

\* A byte, as the bounds the arithmetic steps use.
LEMMA ByteBounds == \A n : n \in Byte <=> (n \in Int /\ 0 <= n /\ n <= 255)
BY DEF Byte

\* convert.rs rgb_to_y: no 16-bit overflow, and a limited-range luma.
LEMMA LumaRange ==
    ASSUME NEW r \in Byte, NEW g \in Byte, NEW b \in Byte
    PROVE  RgbToY(r, g, b) \in 16..235
<1> DEFINE s == 66 * r + 129 * g + 25 * b + 128
<1>1. /\ r \in Int /\ 0 <= r /\ r <= 255
      /\ g \in Int /\ 0 <= g /\ g <= 255
      /\ b \in Int /\ 0 <= b /\ b <= 255
  BY ByteBounds
<1>2. s \in Int /\ 128 <= s /\ s <= 56228
  BY <1>1
<1>3. RgbToY(r, g, b) = ((s % 65536) \div 256 + 16) % 256
  BY DEF RgbToY
<1> HIDE DEF s
<1>4. s % 65536 = s
  BY <1>2
<1>5. s \div 256 \in 0..219
  BY <1>2
<1> QED
  BY <1>3, <1>4, <1>5

\* convert.rs rgb_to_u and rgb_to_v: the arithmetic shift of a negative sum included.
LEMMA ChromaRange ==
    ASSUME NEW r \in Byte, NEW g \in Byte, NEW b \in Byte
    PROVE  RgbToU(r, g, b) \in 16..240 /\ RgbToV(r, g, b) \in 16..240
<1> DEFINE su == -38 * r - 74 * g + 112 * b + 128
           sv == 112 * r - 94 * g - 18 * b + 128
<1>1. /\ r \in Int /\ 0 <= r /\ r <= 255
      /\ g \in Int /\ 0 <= g /\ g <= 255
      /\ b \in Int /\ 0 <= b /\ b <= 255
  BY ByteBounds
<1>2. su \in Int /\ -28432 <= su /\ su <= 28688
  BY <1>1
<1>3. sv \in Int /\ -28432 <= sv /\ sv <= 28688
  BY <1>1
<1>4. /\ RgbToU(r, g, b) = (su \div 256 + 128) % 256
      /\ RgbToV(r, g, b) = (sv \div 256 + 128) % 256
  BY DEF RgbToU, RgbToV
<1> HIDE DEF su, sv
<1>5. su \div 256 \in -112..112
  BY <1>2
<1>6. sv \div 256 \in -112..112
  BY <1>3
<1> DEFINE qu == su \div 256  qv == sv \div 256
<1> HIDE DEF qu, qv
<1>7. (qu + 128) % 256 \in 16..240
  BY <1>5 DEF qu
<1>8. (qv + 128) % 256 \in 16..240
  BY <1>6 DEF qv
<1> QED
  BY <1>4, <1>7, <1>8 DEF qu, qv

\* convert.rs full_to_limited_y and full_to_limited_c.
LEMMA FullRange ==
    ASSUME NEW s \in Byte
    PROVE  FullToLimitedY(s) \in 16..235 /\ FullToLimitedC(s) \in 16..240
<1> DEFINE sy == s * 219 + 127  sc == s * 224 + 127
<1>1. s \in Int /\ 0 <= s /\ s <= 255
  BY ByteBounds
<1>2. sy \in Int /\ 127 <= sy /\ sy <= 55972 /\ sc \in Int /\ 127 <= sc /\ sc <= 57247
  BY <1>1
<1>3. FullToLimitedY(s) = (16 + sy \div 255) % 256 /\ FullToLimitedC(s) = (16 + sc \div 255) % 256
  BY DEF FullToLimitedY, FullToLimitedC
<1> HIDE DEF sy, sc
<1>4. sy \div 255 \in 0..219
  BY <1>2
<1>5. sc \div 255 \in 0..224
  BY <1>2
<1> QED
  BY <1>3, <1>4, <1>5

\* convert.rs yuyv_to_i420: div_ceil(2) of two bytes, added as u16.
LEMMA MeanOfTwo ==
    ASSUME NEW a \in Byte, NEW b \in Byte
    PROVE  (a + b + 1) \div 2 \in Byte
<1>1. a + b + 1 \in Int /\ 1 <= a + b + 1 /\ a + b + 1 <= 511
  BY ByteBounds
<1> DEFINE s == a + b + 1
<1> HIDE DEF s
<1>2. s \div 2 \in 0..255
  BY <1>1 DEF s
<1> QED
  BY <1>2 DEF s, Byte

----------------------------------------------------------------------------
(* Index arithmetic *)

\* The index of a cell of a table of h rows and w columns is below their product.
LEMMA RowIndex ==
    ASSUME NEW h \in Nat, NEW w \in Nat, NEW row \in Nat, NEW col \in Nat, row < h, col < w
    PROVE  row * w + col \in Nat /\ row * w + col < w * h
<1>1. (h - 1 - row) * w >= 0
  OBVIOUS
<1>2. (h - 1 - row) * w = w * h - w - row * w
  OBVIOUS
<1> QED
  BY <1>1, <1>2

\* The quotient and the remainder of an index.
LEMMA DivMod ==
    ASSUME NEW i \in Nat, NEW n \in Nat, n > 0
    PROVE  /\ i \div n \in Nat /\ i % n \in Nat
           /\ i % n < n /\ i = n * (i \div n) + (i % n)
OBVIOUS

\* The row of an index below the size of a table is one of its rows.
LEMMA DivLess ==
    ASSUME NEW i \in Nat, NEW n \in Nat, n > 0, NEW m \in Nat, i < n * m
    PROVE  i \div n < m
<1>1. i \div n \in Nat /\ i >= n * (i \div n)
  BY DivMod
<1>2. SUFFICES ASSUME i \div n >= m PROVE FALSE
  BY <1>1
<1>3. ((i \div n) - m) * n >= 0
  BY <1>1, <1>2
<1>4. ((i \div n) - m) * n = n * (i \div n) - n * m
  BY <1>1
<1> QED
  BY <1>1, <1>3, <1>4

\* What an accepted frame's dimensions are: both even, so that a quarter of the pixels
\* is the product of the halves.
LEMMA AcceptedSize ==
    ASSUME NEW f \in FrameType, Accepted(f)
    PROVE  /\ Width(f) \in Nat /\ Height(f) \in Nat
           /\ Width(f) = 2 * (Width(f) \div 2) /\ Height(f) = 2 * (Height(f) \div 2)
           /\ Width(f) \div 2 \in Nat /\ Height(f) \div 2 \in Nat
           /\ Width(f) \div 2 > 0 /\ Height(f) \div 2 > 0
           /\ (Width(f) * Height(f)) \div 4 = (Width(f) \div 2) * (Height(f) \div 2)
           /\ Width(f) * Height(f) \in Nat
<1>1. Width(f) \in Nat /\ Height(f) \in Nat
  BY DEF FrameType, Image, Width, Height
<1>2. Width(f) > 0 /\ Width(f) % 2 = 0 /\ Height(f) > 0 /\ Height(f) % 2 = 0
  BY DEF Accepted, Even
<1> DEFINE a == Width(f) \div 2  b == Height(f) \div 2
<1>3. a \in Nat /\ b \in Nat /\ a > 0 /\ b > 0 /\ Width(f) = 2 * a /\ Height(f) = 2 * b
  BY <1>1, <1>2
<1> HIDE DEF a, b
<1>4. (2 * a) * (2 * b) = 4 * (a * b) /\ a * b \in Nat
  BY <1>3
<1>5. \A k \in Nat : (4 * k) \div 4 = k
  OBVIOUS
<1>6. (Width(f) * Height(f)) \div 4 = a * b /\ Width(f) * Height(f) \in Nat
  BY <1>3, <1>4, <1>5
<1> QED
  BY <1>1, <1>3, <1>6 DEF a, b

\* Every index of a conversion is within its payload, and what is read there is a byte.
LEMMA ByteAt ==
    ASSUME NEW f \in FrameType, NEW k \in Nat, k < Len(f.data)
    PROVE  At(f, k) \in Byte
<1>1. f.data \in Seq(Byte)
  BY DEF FrameType
<1>2. k + 1 \in 1..Len(f.data)
  BY <1>1
<1> QED
  BY <1>1, <1>2 DEF At

\* The four samples that block_avg adds up are four bytes of the payload.
FourBytes == 0..1020
LEMMA BlockSumRange ==
    ASSUME NEW f \in FrameType, Accepted(f), f.format \in {"rgb24", "mjpeg"},
           NEW i \in ChromaSamples(f), NEW c \in 0..2
    PROVE  BlockSum(f, i, c) \in FourBytes
<1> DEFINE w == Width(f)  h == Height(f)  cw == w \div 2  ch == h \div 2
           P(dx, dy) == ((i \div cw) * 2 + dy) * w + ((i % cw) * 2 + dx)
<1>1. /\ w \in Nat /\ h \in Nat /\ cw \in Nat /\ ch \in Nat /\ cw > 0
      /\ w = 2 * cw /\ h = 2 * ch
  BY AcceptedSize
<1>2. i \in Nat /\ i < cw * ch
  BY <1>1 DEF ChromaSamples
<1>3. Len(f.data) = (w * h) * 3
  BY DEF Accepted, Expected
<1> HIDE DEF w, h, cw, ch
<1>4. i \div cw \in Nat /\ i \div cw < ch /\ i % cw \in Nat /\ i % cw < cw
  BY <1>1, <1>2, DivMod, DivLess
<1>5. ASSUME NEW dx \in 0..1, NEW dy \in 0..1
      PROVE  At(f, (((i \div cw) * 2 + dy) * w + (i % cw) * 2 + dx) * 3 + c) \in Byte
  <2> DEFINE row == (i \div cw) * 2 + dy  col == (i % cw) * 2 + dx
  <2>1. row \in Nat /\ col \in Nat /\ row < h /\ col < w
    BY <1>1, <1>4
  <2> HIDE DEF row, col
  <2>2. row * w + col \in Nat /\ row * w + col < w * h
    BY <2>1, <1>1, RowIndex
  <2>3. w * h \in Nat /\ row * w \in Nat
    BY <1>1, <2>1
  <2>4. (row * w + col) * 3 + c \in Nat /\ (row * w + col) * 3 + c < Len(f.data)
    BY <2>2, <2>3, <1>3
  <2>5. At(f, (row * w + col) * 3 + c) \in Byte
    BY <2>4, ByteAt
  <2>6. row * w + col = ((i \div cw) * 2 + dy) * w + (i % cw) * 2 + dx
    BY <2>3, <1>4 DEF row, col
  <2> QED
    BY <2>5, <2>6
<1>6. PICK s1 \in Byte, s2 \in Byte, s3 \in Byte, s4 \in Byte :
        BlockSum(f, i, c) = s1 + s2 + s3 + s4
  BY <1>5 DEF BlockSum, w, cw
<1>7. BlockSum(f, i, c) \in Int /\ 0 <= BlockSum(f, i, c) /\ BlockSum(f, i, c) <= 1020
  BY <1>6, ByteBounds
<1> QED
  BY <1>7 DEF FourBytes

\* block_avg returns a byte.
LEMMA BlockMeanByte ==
    ASSUME NEW f \in FrameType, Accepted(f), f.format \in {"rgb24", "mjpeg"},
           NEW i \in ChromaSamples(f), NEW c \in 0..2
    PROVE  BlockMean(f, i, c) \in Byte
<1>1. BlockSum(f, i, c) \in FourBytes
  BY BlockSumRange
<1>2. (BlockSum(f, i, c) + 2) \div 4 \in 0..255
  BY <1>1 DEF FourBytes
<1> QED
  BY <1>2 DEF BlockMean, Byte

\* Every byte of a quad of an accepted YUYV frame is one of its payload.
LEMMA QuadByte ==
    ASSUME NEW f \in FrameType, Accepted(f), f.format = "yuyv",
           NEW row \in Nat, row < Height(f), NEW pair \in Nat, pair < Width(f) \div 2,
           NEW k \in 0..3
    PROVE  Quad(f, row, pair, k) \in Byte
<1> DEFINE w == Width(f)  h == Height(f)  cw == w \div 2
<1>1. w \in Nat /\ h \in Nat /\ cw \in Nat /\ w = 2 * cw
  BY AcceptedSize
<1>2. Len(f.data) = (w * h) * 2
  BY DEF Accepted, Expected
<1>3. pair < cw /\ row < h
  OBVIOUS
<1> HIDE DEF w, h, cw
<1>4. pair * 4 + k \in Nat /\ pair * 4 + k < w * 2 /\ w * 2 \in Nat
  BY <1>1, <1>3
<1>5. row * (w * 2) + (pair * 4 + k) \in Nat /\ row * (w * 2) + (pair * 4 + k) < (w * 2) * h
  BY <1>1, <1>3, <1>4, RowIndex
<1>6. (w * 2) * h = (w * h) * 2
  BY <1>1
<1>7. row * (w * 2) \in Nat
  BY <1>1
<1>8. row * (w * 2) + pair * 4 + k = row * (w * 2) + (pair * 4 + k)
  BY <1>7
<1>9. At(f, row * (w * 2) + pair * 4 + k) \in Byte
  BY <1>2, <1>5, <1>6, <1>8, ByteAt
<1> QED
  BY <1>9 DEF Quad, w

----------------------------------------------------------------------------
(* The planes a conversion writes *)

\* What a luma sample can be: any byte, within the limited range where it is computed.
Computed(f) == f.format \in {"rgb24", "mjpeg"}
LEMMA LumaSample ==
    ASSUME NEW f \in FrameType, Accepted(f), NEW i \in 0..Width(f) * Height(f) - 1
    PROVE  Luma(f)[i] \in Byte /\ (Computed(f) => Luma(f)[i] \in 16..235)
<1> DEFINE w == Width(f)  h == Height(f)  n == w * h
<1>1. /\ w \in Nat /\ h \in Nat /\ n \in Nat /\ w > 0
      /\ w = 2 * (w \div 2) /\ w \div 2 \in Nat
  BY AcceptedSize
<1>2. i \in Nat /\ i < n
  BY <1>1
<1>3. \A m \in 16..235 : m \in Byte
  BY DEF Byte
<1>4. CASE f.format = "rgb24"
  <2>1. Len(f.data) = n * 3
    BY <1>4 DEF Accepted, Expected
  <2> HIDE DEF n
  <2>2. At(f, 3 * i) \in Byte /\ At(f, 3 * i + 1) \in Byte /\ At(f, 3 * i + 2) \in Byte
    <3>1. /\ 3 * i \in Nat /\ 3 * i < Len(f.data)
          /\ 3 * i + 1 \in Nat /\ 3 * i + 1 < Len(f.data)
          /\ 3 * i + 2 \in Nat /\ 3 * i + 2 < Len(f.data)
      BY <1>1, <1>2, <2>1
    <3> QED
      BY <3>1, ByteAt
  <2>3. Luma(f)[i] = RgbToY(At(f, 3 * i), At(f, 3 * i + 1), At(f, 3 * i + 2))
    BY <1>4 DEF Luma
  <2>4. RgbToY(At(f, 3 * i), At(f, 3 * i + 1), At(f, 3 * i + 2))
        \in 16..235
    BY <2>2, LumaRange
  <2> QED
    BY <1>3, <2>3, <2>4
<1>5. CASE f.format = "mjpeg"
  <2>1. Len(f.data) = n * 3
    BY <1>5 DEF Accepted, Expected
  <2> HIDE DEF n
  <2>2. At(f, 3 * i) \in Byte
    BY <1>1, <1>2, <2>1, ByteAt
  <2>3. Luma(f)[i] = FullToLimitedY(At(f, 3 * i))
    BY <1>5 DEF Luma
  <2> QED
    BY <1>3, <2>2, <2>3, FullRange
<1>6. CASE f.format \in {"nv12", "luma8"}
  <2>1. Len(f.data) >= n
    <3>1. Len(f.data) = (n * 3) \div 2 \/ Len(f.data) = n
      BY <1>6 DEF Accepted, Expected
    <3>2. n \in Nat
      BY <1>1
    <3> HIDE DEF n
    <3> QED
      BY <3>1, <3>2
  <2>2. Luma(f)[i] = At(f, i)
    BY <1>6 DEF Luma
  <2>3. i < Len(f.data)
    BY <1>1, <1>2, <2>1 DEF FrameType
  <2> QED
    BY <1>2, <1>6, <2>2, <2>3, ByteAt DEF Computed
<1>7. CASE f.format = "yuyv"
  <2> DEFINE row == i \div w  col == i % w
  <2>1. row \in Nat /\ row < h /\ col \in Nat /\ col < w
    BY <1>1, <1>2, DivMod, DivLess
  <2>2. Luma(f)[i] = Quad(f, row, col \div 2, 2 * (col % 2))
    BY <1>7 DEF Luma
  <2> HIDE DEF row, col
  <2>3. col \div 2 \in Nat /\ col \div 2 < w \div 2 /\ 2 * (col % 2) \in 0..3
    BY <1>1, <2>1
  <2> QED
    BY <1>7, <2>1, <2>2, <2>3, QuadByte DEF Computed
<1> QED
  BY <1>4, <1>5, <1>6, <1>7 DEF FrameType, Format

\* What a chroma sample can be: any byte, within the limited range where it is computed.
LEMMA ChromaSample ==
    ASSUME NEW f \in FrameType, Accepted(f), NEW c \in 1..2, NEW i \in ChromaSamples(f)
    PROVE  Chroma(f, c)[i] \in Byte /\ (Computed(f) => Chroma(f, c)[i] \in 16..240)
<1> DEFINE w == Width(f)  h == Height(f)  cw == w \div 2  ch == h \div 2
<1>1. /\ w \in Nat /\ h \in Nat /\ cw \in Nat /\ ch \in Nat /\ cw > 0
      /\ w = 2 * cw /\ h = 2 * ch /\ w * h \in Nat /\ (w * h) \div 4 = cw * ch
  BY AcceptedSize
<1>2. i \in Nat /\ i < cw * ch
  BY <1>1 DEF ChromaSamples
<1>3. \A m \in 16..240 : m \in Byte
  BY DEF Byte
<1>4. CASE f.format = "rgb24"
  <2>1. BlockMean(f, i, 0) \in Byte /\ BlockMean(f, i, 1) \in Byte /\ BlockMean(f, i, 2) \in Byte
    BY <1>4, BlockMeanByte
  <2> DEFINE r == BlockMean(f, i, 0)  g == BlockMean(f, i, 1)  b == BlockMean(f, i, 2)
  <2>2. Chroma(f, c)[i] = RgbToU(r, g, b) \/ Chroma(f, c)[i] = RgbToV(r, g, b)
    BY <1>4 DEF Chroma
  <2> HIDE DEF r, g, b
  <2>3. RgbToU(r, g, b) \in 16..240 /\ RgbToV(r, g, b) \in 16..240
    BY <2>1, ChromaRange DEF r, g, b
  <2>4. Chroma(f, c)[i] \in 16..240
    BY <2>2, <2>3
  <2> QED
    BY <1>3, <2>4
<1>5. CASE f.format = "mjpeg"
  <2>1. BlockMean(f, i, c) \in Byte
    BY <1>5, BlockMeanByte
  <2>2. Chroma(f, c)[i] = FullToLimitedC(BlockMean(f, i, c))
    BY <1>5 DEF Chroma
  <2> QED
    BY <1>3, <2>1, <2>2, FullRange
<1>6. CASE f.format = "luma8"
  BY <1>6 DEF Chroma, Computed, Byte
<1>7. CASE f.format = "nv12"
  <2>1. Len(f.data) = ((w * h) * 3) \div 2
    BY <1>7 DEF Accepted, Expected
  <2>2. Chroma(f, c)[i] = At(f, w * h + 2 * i + c - 1)
    BY <1>7 DEF Chroma
  <2>3. w * h = 4 * (cw * ch) /\ cw * ch \in Nat
    BY <1>1
  <2> DEFINE n == w * h  q == cw * ch
  <2>4. n = 4 * q /\ q \in Nat /\ i < q /\ Len(f.data) = (n * 3) \div 2
    BY <1>2, <2>1, <2>3
  <2> HIDE DEF n, q
  <2>5. n + 2 * i + c - 1 \in Nat /\ n + 2 * i + c - 1 < Len(f.data)
    BY <1>2, <2>4
  <2>6. At(f, n + 2 * i + c - 1) \in Byte
    BY <2>5, ByteAt
  <2> QED
    BY <1>7, <2>2, <2>6 DEF Computed, n
<1>8. CASE f.format = "yuyv"
  <2> DEFINE row == i \div cw  pair == i % cw
             Row(dy) == Quad(f, row * 2 + dy, pair, 2 * c - 1)
  <2>1. row \in Nat /\ row < ch /\ pair \in Nat /\ pair < cw
    BY <1>1, <1>2, DivMod, DivLess
  <2>2. Chroma(f, c)[i] = (Row(0) + Row(1) + 1) \div 2
    BY <1>8 DEF Chroma
  <2>3. /\ row * 2 + 0 \in Nat /\ row * 2 + 0 < h
        /\ row * 2 + 1 \in Nat /\ row * 2 + 1 < h /\ 2 * c - 1 \in 0..3
    BY <1>1, <2>1
  <2>4. Row(0) \in Byte /\ Row(1) \in Byte
    BY <1>8, <2>1, <2>3, QuadByte
  <2> HIDE DEF Row
  <2>5. (Row(0) + Row(1) + 1) \div 2 \in Byte
    BY <2>4, MeanOfTwo
  <2> QED
    BY <1>8, <2>2, <2>5 DEF Computed
<1> QED
  BY <1>4, <1>5, <1>6, <1>7, <1>8 DEF FrameType, Format

\* A chroma plane holds a quarter as many samples as the frame has pixels.
LEMMA QuarterOfPixels ==
    ASSUME NEW f \in FrameType, Accepted(f)
    PROVE  /\ (Width(f) * Height(f)) \div 4 \in Nat
           /\ ChromaSamples(f) = 0..(Width(f) * Height(f)) \div 4 - 1
<1> DEFINE q == (Width(f) * Height(f)) \div 4  a == Width(f) \div 2  b == Height(f) \div 2
<1>1. q = a * b /\ a \in Nat /\ b \in Nat /\ ChromaSamples(f) = 0..a * b - 1
  BY AcceptedSize DEF ChromaSamples
<1> HIDE DEF q, a, b
<1>2. q \in Nat /\ ChromaSamples(f) = 0..q - 1
  BY <1>1
<1> QED
  BY <1>2 DEF q

\* convert.rs I420Buffer::prepare and the writes that follow it leave exactly the samples
\* of the frame in the planes: no byte of an older picture is kept, and none is missing.
LEMMA ConvertedBuffer ==
    ASSUME NEW f \in FrameType, Converts(f)
    PROVE  LET n == Width(f) * Height(f) IN
           buf' = [width |-> Width(f), height |-> Height(f),
                   y |-> [i \in 0..n - 1 |-> Luma(f)[i]],
                   u |-> [i \in 0..n \div 4 - 1 |-> Chroma(f, 1)[i]],
                   v |-> [i \in 0..n \div 4 - 1 |-> Chroma(f, 2)[i]]]
<1> DEFINE n == Width(f) * Height(f)  q == n \div 4
<1>1. DOMAIN Luma(f) = 0..n - 1
  BY DEF Luma
<1>2. ChromaSamples(f) = 0..q - 1
  BY QuarterOfPixels DEF Converts
<1>3. DOMAIN Chroma(f, 1) = 0..q - 1 /\ DOMAIN Chroma(f, 2) = 0..q - 1
  BY <1>2 DEF Chroma
<1>4. buf' = [width |-> Width(f), height |-> Height(f),
              y |-> Stored(buf.y, n, Luma(f)),
              u |-> Stored(buf.u, q, Chroma(f, 1)),
              v |-> Stored(buf.v, q, Chroma(f, 2))]
  BY DEF Converts
<1> HIDE DEF n, q
<1>5. Stored(buf.y, n, Luma(f)) = [i \in 0..n - 1 |-> Luma(f)[i]]
  BY <1>1 DEF Stored, Resized
<1>6. Stored(buf.u, q, Chroma(f, 1)) = [i \in 0..q - 1 |-> Chroma(f, 1)[i]]
  BY <1>3 DEF Stored, Resized
<1>7. Stored(buf.v, q, Chroma(f, 2)) = [i \in 0..q - 1 |-> Chroma(f, 2)[i]]
  BY <1>3 DEF Stored, Resized
<1> QED
  BY <1>4, <1>5, <1>6, <1>7 DEF n, q

----------------------------------------------------------------------------
(* What a conversion shows: its samples against the exact colours *)

\* rgb_to_y, full_to_limited_y: within one code of the exact luma, for every colour.
LEMMA LumaAccuracy ==
    ASSUME NEW r \in Byte, NEW g \in Byte, NEW b \in Byte
    PROVE  /\ Within(255000 * (RgbToY(r, g, b) - 16),
                     65481 * r + 128553 * g + 24966 * b, 255000)
           /\ Within(255000 * (FullToLimitedY(r) - 16), 219000 * r, 255000)
<1> DEFINE s == 66 * r + 129 * g + 25 * b + 128  t == r * 219 + 127
           q == s \div 256  d == t \div 255
<1>1. /\ r \in Int /\ 0 <= r /\ r <= 255
      /\ g \in Int /\ 0 <= g /\ g <= 255
      /\ b \in Int /\ 0 <= b /\ b <= 255
  BY ByteBounds
<1>2. s \in Int /\ 128 <= s /\ s <= 56228 /\ t \in Int /\ 127 <= t /\ t <= 55972
  BY <1>1
<1>3. /\ RgbToY(r, g, b) = ((s % 65536) \div 256 + 16) % 256
      /\ FullToLimitedY(r) = (16 + d) % 256
  BY DEF RgbToY, FullToLimitedY
<1>4. s = 66 * r + 129 * g + 25 * b + 128 /\ t = 219 * r + 127
  BY <1>1
<1> HIDE DEF s, t
<1>5. s % 65536 = s
  BY <1>2
<1>6. q \in 0..219 /\ 256 * q <= s /\ s <= 256 * q + 255
  BY <1>2
<1>7. d \in 0..219 /\ 255 * d <= t /\ t <= 255 * d + 254
  BY <1>2
<1>8. RgbToY(r, g, b) - 16 = q /\ FullToLimitedY(r) - 16 = d
  <2> HIDE DEF q, d
  <2>1. (q + 16) % 256 = q + 16 /\ (16 + d) % 256 = 16 + d
    BY <1>6, <1>7
  <2>2. RgbToY(r, g, b) = (q + 16) % 256
    BY <1>3, <1>5 DEF q
  <2> QED
    BY <1>3, <1>6, <1>7, <2>1, <2>2
<1> HIDE DEF q, d
<1>9. Within(255000 * q, 65481 * r + 128553 * g + 24966 * b, 255000)
  BY <1>1, <1>4, <1>6 DEF Within
<1>10. Within(255000 * d, 219000 * r, 255000)
  BY <1>1, <1>4, <1>7 DEF Within
<1> QED
  BY <1>8, <1>9, <1>10

\* The mean of four bytes that add up to n is within half a code of the exact one.
Mean(n) == (n + 2) \div 4
LEMMA MeanOfFour ==
    ASSUME NEW n \in Nat, n <= 1020
    PROVE  Mean(n) \in Byte /\ n - 2 <= 4 * Mean(n) /\ 4 * Mean(n) <= n + 2
<1>1. (n + 2) \div 4 \in 0..255
  OBVIOUS
<1> QED
  BY <1>1 DEF Byte, Mean

\* A chroma sample computed from four pixels whose components add up to r, g and b (or
\* whose chroma adds up to n) is within one and a half codes of their exact mean.
UShows(r, g, b) == Within(1020000 * (RgbToU(Mean(r), Mean(g), Mean(b)) - 128),
                          -37797 * r - 74203 * g + 112000 * b, 1530000)
VShows(r, g, b) == Within(1020000 * (RgbToV(Mean(r), Mean(g), Mean(b)) - 128),
                          112000 * r - 93786 * g - 18214 * b, 1530000)
FullShows(n) == Within(1020000 * (FullToLimitedC(Mean(n)) - 128), 224000 * (n - 512), 1530000)

\* rgb_to_u and rgb_to_v of the means of four pixels.
LEMMA ChromaAccuracy ==
    ASSUME NEW r \in FourBytes, NEW g \in FourBytes, NEW b \in FourBytes
    PROVE  UShows(r, g, b) /\ VShows(r, g, b)
<1> DEFINE R == Mean(r)  G == Mean(g)  B == Mean(b)
           su == -38 * R - 74 * G + 112 * B + 128
           sv == 112 * R - 94 * G - 18 * B + 128
           qu == su \div 256  qv == sv \div 256
<1>1. /\ R \in Byte /\ r - 2 <= 4 * R /\ 4 * R <= r + 2
      /\ G \in Byte /\ g - 2 <= 4 * G /\ 4 * G <= g + 2
      /\ B \in Byte /\ b - 2 <= 4 * B /\ 4 * B <= b + 2
      /\ r \in Int /\ g \in Int /\ b \in Int
  BY MeanOfFour DEF FourBytes
<1> HIDE DEF R, G, B
<1>2. /\ R \in Int /\ 0 <= R /\ R <= 255
      /\ G \in Int /\ 0 <= G /\ G <= 255
      /\ B \in Int /\ 0 <= B /\ B <= 255
  BY <1>1, ByteBounds
<1>3. /\ su \in Int /\ -28432 <= su /\ su <= 28688
      /\ sv \in Int /\ -28432 <= sv /\ sv <= 28688
  BY <1>2
<1>4. RgbToU(R, G, B) = (qu + 128) % 256 /\ RgbToV(R, G, B) = (qv + 128) % 256
  BY DEF RgbToU, RgbToV
<1>5. su = -38 * R - 74 * G + 112 * B + 128 /\ sv = 112 * R - 94 * G - 18 * B + 128
  BY <1>2
<1> HIDE DEF su, sv
<1>6. qu \in -112..112 /\ 256 * qu <= su /\ su <= 256 * qu + 255
  BY <1>3
<1>7. qv \in -112..112 /\ 256 * qv <= sv /\ sv <= 256 * qv + 255
  BY <1>3
<1> HIDE DEF qu, qv
<1>8. RgbToU(R, G, B) - 128 = qu /\ RgbToV(R, G, B) - 128 = qv
  BY <1>4, <1>6, <1>7
<1>9. Within(1020000 * qu, -37797 * r - 74203 * g + 112000 * b, 1530000)
  BY SMT, <1>1, <1>2, <1>5, <1>6 DEF Within
<1>10. Within(1020000 * qv, 112000 * r - 93786 * g - 18214 * b, 1530000)
  BY SMT, <1>1, <1>2, <1>5, <1>7 DEF Within
<1> QED
  BY SMT, <1>8, <1>9, <1>10 DEF R, G, B, UShows, VShows

\* full_to_limited_c of the mean of four samples.
LEMMA FullChromaAccuracy ==
    ASSUME NEW n \in FourBytes
    PROVE  FullShows(n)
<1> DEFINE m == Mean(n)  s == m * 224 + 127  d == s \div 255
<1>1. m \in Byte /\ n - 2 <= 4 * m /\ 4 * m <= n + 2 /\ n \in Int
  BY MeanOfFour DEF FourBytes
<1> HIDE DEF m
<1>2. m \in Int /\ 0 <= m /\ m <= 255
  BY <1>1, ByteBounds
<1>3. s \in Int /\ 127 <= s /\ s <= 57247 /\ s = 224 * m + 127
  BY <1>2
<1>4. FullToLimitedC(m) = (16 + d) % 256
  BY DEF FullToLimitedC
<1> HIDE DEF s
<1>5. d \in 0..224 /\ 255 * d <= s /\ s <= 255 * d + 254
  BY <1>3
<1> HIDE DEF d
<1>6. FullToLimitedC(m) - 128 = d - 112
  BY <1>4, <1>5
<1>7. Within(1020000 * (d - 112), 224000 * (n - 512), 1530000)
  BY SMT, <1>1, <1>2, <1>3, <1>5 DEF Within
<1> QED
  BY SMT, <1>6, <1>7 DEF m, FullShows

\* The row and the column of a sample are those its index is made of.
LEMMA RowAndColumn ==
    ASSUME NEW w \in Nat, NEW row \in Nat, NEW col \in Nat, col < w
    PROVE  /\ row * w + col \in Nat
           /\ (row * w + col) \div w = row /\ (row * w + col) % w = col
<1> DEFINE i == row * w + col  q == i \div w  r == i % w
<1>1. i \in Nat /\ w > 0 /\ row * w \in Nat
  OBVIOUS
<1> HIDE DEF i
<1>2. q \in Nat /\ r \in Nat /\ r < w /\ i = w * q + r
  BY <1>1, DivMod
<1>3. i = row * w + col
  BY DEF i
<1> HIDE DEF q, r
<1>4. (q - row) * w = col - r
  BY <1>2, <1>3
<1>5. ~(q >= row + 1)
  <2> SUFFICES ASSUME q >= row + 1 PROVE FALSE
    OBVIOUS
  <2>1. (q - row - 1) * w >= 0
    BY <1>1, <1>2
  <2>2. (q - row - 1) * w = (q - row) * w - w
    BY <1>2
  <2> QED
    BY <1>2, <1>4, <2>1, <2>2
<1>6. ~(q <= row - 1)
  <2> SUFFICES ASSUME q <= row - 1 PROVE FALSE
    OBVIOUS
  <2>1. (row - 1 - q) * w >= 0
    BY <1>1, <1>2
  <2>2. (row - 1 - q) * w = -((q - row) * w) - w
    BY <1>2
  <2> QED
    BY <1>2, <1>4, <2>1, <2>2
<1>7. q = row
  BY <1>2, <1>5, <1>6
<1>8. r = col
  BY <1>2, <1>3, <1>7
<1> QED
  BY <1>1, <1>7, <1>8 DEF i, q, r

\* Every luma sample of a converted frame shows the pixel it stands for.
LEMMA LumaShown ==
    ASSUME NEW f \in FrameType, Accepted(f),
           NEW x \in 0..Width(f) - 1, NEW y \in 0..Height(f) - 1
    PROVE  Within(255000 * (Luma(f)[y * Width(f) + x] - 16), Exact(f, x, y, 0), 255000)
<1> DEFINE w == Width(f)  h == Height(f)  p == y * w + x  n == w * h
<1>1. /\ w \in Nat /\ h \in Nat /\ n \in Nat /\ w > 0 /\ w \div 2 \in Nat
      /\ w = 2 * (w \div 2)
  BY AcceptedSize
<1>2. x \in Nat /\ y \in Nat /\ x < w /\ y < h
  BY <1>1
<1>3. p \in Nat /\ p < n /\ p \div w = y /\ p % w = x
  <2> HIDE DEF w, h
  <2> QED
    BY <1>1, <1>2, RowIndex, RowAndColumn
<1>4. p \in 0..w * h - 1
  BY <1>1, <1>3
<1>5. Luma(f)[p] = CASE
          f.format = "rgb24" -> RgbToY(At(f, 3 * p), At(f, 3 * p + 1), At(f, 3 * p + 2))
        [] f.format = "yuyv"  -> Quad(f, y, x \div 2, 2 * (x % 2))
        [] f.format \in {"nv12", "luma8"} -> At(f, p)
        [] f.format = "mjpeg" -> FullToLimitedY(At(f, 3 * p))
  BY <1>3, <1>4 DEF Luma
<1>6. \A a \in Byte : Within(255000 * (a - 16), 255000 * (a - 16), 255000)
  BY ByteBounds DEF Within
<1>7. CASE f.format = "rgb24"
  <2>1. Len(f.data) = n * 3
    BY <1>7 DEF Accepted, Expected
  <2> DEFINE r == At(f, 3 * p)  g == At(f, 3 * p + 1)  b == At(f, 3 * p + 2)
  <2>2. Luma(f)[p] = RgbToY(r, g, b)
    BY <1>5, <1>7
  <2>3. Exact(f, x, y, 0) = 65481 * r + 128553 * g + 24966 * b
    BY <1>7 DEF Exact
  <2>4. r \in Byte /\ g \in Byte /\ b \in Byte
    <3> HIDE DEF p, n
    <3>1. /\ 3 * p \in Nat /\ 3 * p + 1 \in Nat /\ 3 * p + 2 \in Nat
          /\ 3 * p + 2 < Len(f.data) /\ 3 * p + 1 < Len(f.data) /\ 3 * p < Len(f.data)
      BY <1>1, <1>3, <2>1
    <3> QED
      BY <3>1, ByteAt
  <2> HIDE DEF r, g, b
  <2> QED
    BY <2>2, <2>3, <2>4, LumaAccuracy
<1>8. CASE f.format = "mjpeg"
  <2>1. Len(f.data) = n * 3
    BY <1>8 DEF Accepted, Expected
  <2> DEFINE r == At(f, 3 * p)
  <2>2. Luma(f)[p] = FullToLimitedY(r)
    BY <1>5, <1>8
  <2>3. Exact(f, x, y, 0) = 219000 * r
    BY <1>8 DEF Exact
  <2>4. r \in Byte
    <3> HIDE DEF p, n
    <3>1. 3 * p \in Nat /\ 3 * p < Len(f.data)
      BY <1>1, <1>3, <2>1
    <3> QED
      BY <3>1, ByteAt
  <2> HIDE DEF r
  <2> QED
    BY <2>2, <2>3, <2>4, LumaAccuracy
<1>9. CASE f.format \in {"nv12", "luma8"}
  <2>1. Luma(f)[p] = At(f, p)
    BY <1>5, <1>9
  <2>2. Exact(f, x, y, 0) = 255000 * (At(f, p) - 16)
    BY <1>9 DEF Exact
  <2>3. Luma(f)[p] \in Byte
    BY <1>4, LumaSample
  <2> QED
    BY <1>6, <2>1, <2>2, <2>3
<1>10. CASE f.format = "yuyv"
  <2>1. y * (w * 2) + (x \div 2) * 4 + 2 * (x % 2) = 2 * p
    <3>1. x = 2 * (x \div 2) + (x % 2) /\ x \div 2 \in Nat /\ x % 2 \in Nat
      BY <1>2
    <3>2. y * (w * 2) = 2 * (y * w) /\ y * w \in Nat
      BY <1>1, <1>2
    <3> DEFINE yw == y * w  y2w == y * (w * 2)
    <3>3. y2w = 2 * yw /\ yw \in Nat /\ p = yw + x
      BY <3>2
    <3> HIDE DEF yw, y2w, p
    <3>4. y2w + (x \div 2) * 4 + 2 * (x % 2) = 2 * p
      BY <3>1, <3>3, <1>2
    <3> QED
      BY <3>4 DEF y2w
  <2>2. Luma(f)[p] = At(f, 2 * p)
    BY <1>5, <1>10, <2>1 DEF Quad
  <2>3. Exact(f, x, y, 0) = 255000 * (At(f, 2 * p) - 16)
    BY <1>10 DEF Exact
  <2>4. Luma(f)[p] \in Byte
    BY <1>4, LumaSample
  <2> QED
    BY <1>6, <2>2, <2>3, <2>4
<1> QED
  BY <1>7, <1>8, <1>9, <1>10 DEF FrameType, Format

\* Where the pixels of a chroma block are: for a sample at row y and column x, its index,
\* and its four pixels, which are pixels of the frame.
LEMMA ChromaBlock ==
    ASSUME NEW f \in FrameType, Accepted(f),
           NEW x \in 0..Width(f) \div 2 - 1, NEW y \in 0..Height(f) \div 2 - 1
    PROVE  LET cw == Width(f) \div 2 IN
           /\ Width(f) = 2 * cw /\ cw \in Nat /\ x \in Nat /\ y \in Nat /\ x < cw
           /\ y * cw + x \in ChromaSamples(f)
           /\ (y * cw + x) \div cw = y /\ (y * cw + x) % cw = x
           /\ \A dx, dy \in 0..1 :
                LET p == (2 * y + dy) * Width(f) + (2 * x + dx) IN
                p \in Nat /\ p < Width(f) * Height(f)
<1> DEFINE w == Width(f)  h == Height(f)  cw == w \div 2  ch == h \div 2
<1>1. /\ w \in Nat /\ h \in Nat /\ cw \in Nat /\ ch \in Nat
      /\ w = 2 * cw /\ h = 2 * ch
  BY AcceptedSize
<1>2. x \in Nat /\ y \in Nat /\ x < cw /\ y < ch
  BY <1>1
<1>3. ChromaSamples(f) = 0..cw * ch - 1
  BY DEF ChromaSamples
<1> HIDE DEF w, h, cw, ch
<1>4. y * cw + x \in Nat /\ y * cw + x < cw * ch
  BY <1>1, <1>2, RowIndex
<1>5. (y * cw + x) \div cw = y /\ (y * cw + x) % cw = x
  BY <1>1, <1>2, RowAndColumn
<1>6. y * cw + x \in 0..cw * ch - 1
  BY <1>1, <1>4
<1>7. ASSUME NEW dx \in 0..1, NEW dy \in 0..1
      PROVE  (2 * y + dy) * w + (2 * x + dx) \in Nat /\ (2 * y + dy) * w + (2 * x + dx) < w * h
  <2>1. 2 * y + dy \in Nat /\ 2 * y + dy < h /\ 2 * x + dx \in Nat /\ 2 * x + dx < w
    BY <1>1, <1>2
  <2> QED
    BY <1>1, <2>1, RowIndex
<1> QED
  BY <1>1, <1>2, <1>3, <1>5, <1>6, <1>7 DEF w, h, cw, ch

\* Pixel (dx, dy) of the chroma block at column x and row y, its three components in an
\* interleaved format, and what the four pixels of the block add up to.
BlockPixel(f, x, y, dx, dy) == (2 * y + dy) * Width(f) + (2 * x + dx)
Part(f, x, y, dx, dy, k) == At(f, 3 * BlockPixel(f, x, y, dx, dy) + k)
Shown(f, x, y, c) ==
    LET Px(dx, dy) == Exact(f, 2 * x + dx, 2 * y + dy, c)
    IN  Px(0, 0) + Px(1, 0) + Px(0, 1) + Px(1, 1)

\* The four samples of component k that block_avg adds up.
LEMMA BlockOf ==
    ASSUME NEW f \in FrameType, Accepted(f), f.format \in {"rgb24", "mjpeg"},
           NEW x \in 0..Width(f) \div 2 - 1, NEW y \in 0..Height(f) \div 2 - 1,
           NEW k \in 0..2
    PROVE  LET P(dx, dy) == Part(f, x, y, dx, dy, k) IN
           /\ \A dx, dy \in 0..1 : P(dx, dy) \in Byte
           /\ BlockSum(f, y * (Width(f) \div 2) + x, k) = P(0, 0) + P(1, 0) + P(0, 1) + P(1, 1)
<1> DEFINE w == Width(f)  cw == w \div 2  n == w * Height(f)  i == y * cw + x
<1>1. /\ w \in Nat /\ cw \in Nat /\ x \in Nat /\ y \in Nat /\ i \div cw = y /\ i % cw = x
      /\ \A dx, dy \in 0..1 :
           BlockPixel(f, x, y, dx, dy) \in Nat /\ BlockPixel(f, x, y, dx, dy) < n
  BY ChromaBlock, AcceptedSize DEF BlockPixel
<1>2. Len(f.data) = n * 3 /\ n \in Nat
  BY AcceptedSize DEF Accepted, Expected
<1>3. ASSUME NEW dx \in 0..1, NEW dy \in 0..1 PROVE Part(f, x, y, dx, dy, k) \in Byte
  <2> DEFINE p == BlockPixel(f, x, y, dx, dy)
  <2>1. p \in Nat /\ p < n
    BY <1>1
  <2> HIDE DEF p, n
  <2>2. 3 * p + k \in Nat /\ 3 * p + k < Len(f.data)
    BY <1>2, <2>1
  <2>3. At(f, 3 * p + k) \in Byte
    BY <2>2, ByteAt
  <2> QED
    BY <2>3 DEF p, Part
<1>4. ASSUME NEW dx \in 0..1, NEW dy \in 0..1
      PROVE  At(f, ((y * 2 + dy) * w + x * 2 + dx) * 3 + k) = Part(f, x, y, dx, dy, k)
  <2> DEFINE m == (2 * y + dy) * w
  <2>1. y \in Nat /\ x \in Nat /\ w \in Nat
    BY <1>1
  <2>2. y * 2 + dy = 2 * y + dy /\ 2 * y + dy \in Nat
    BY <2>1
  <2>3. m \in Nat
    <3> HIDE DEF w
    <3> QED
      BY <2>1, <2>2
  <2> HIDE DEF m
  <2>4. (m + x * 2 + dx) * 3 + k = 3 * (m + (2 * x + dx)) + k
    BY <2>1, <2>3
  <2> QED
    BY <2>2, <2>4 DEF m, Part, BlockPixel
<1> DEFINE A(dx, dy) == At(f, ((y * 2 + dy) * w + x * 2 + dx) * 3 + k)
           P(dx, dy) == Part(f, x, y, dx, dy, k)
<1>5. BlockSum(f, i, k) = P(0, 0) + P(1, 0) + P(0, 1) + P(1, 1)
  <2>1. BlockSum(f, i, k) = A(0, 0) + A(1, 0) + A(0, 1) + A(1, 1)
    BY <1>1 DEF BlockSum
  <2>2. A(0, 0) = P(0, 0) /\ A(1, 0) = P(1, 0) /\ A(0, 1) = P(0, 1) /\ A(1, 1) = P(1, 1)
    BY <1>4
  <2> QED
    BY <2>1, <2>2
<1> QED
  BY <1>3, <1>5

\* What the exact colours of an RGB or JPEG block add up to, by component.
LEMMA BlockShown ==
    ASSUME NEW f \in FrameType, Accepted(f), f.format \in {"rgb24", "mjpeg"},
           NEW x \in 0..Width(f) \div 2 - 1, NEW y \in 0..Height(f) \div 2 - 1,
           NEW c \in 1..2
    PROVE  LET B(k) == BlockSum(f, y * (Width(f) \div 2) + x, k) IN
           /\ f.format = "rgb24" /\ c = 1 =>
                Shown(f, x, y, c) = -37797 * B(0) - 74203 * B(1) + 112000 * B(2)
           /\ f.format = "rgb24" /\ c = 2 =>
                Shown(f, x, y, c) = 112000 * B(0) - 93786 * B(1) - 18214 * B(2)
           /\ f.format = "mjpeg" => Shown(f, x, y, c) = 224000 * (B(c) - 512)
<1> DEFINE P(dx, dy, k) == Part(f, x, y, dx, dy, k)
           B(k) == BlockSum(f, y * (Width(f) \div 2) + x, k)
           E(dx, dy) == Exact(f, 2 * x + dx, 2 * y + dy, c)
<1>1. ASSUME NEW k \in 0..2
      PROVE  /\ P(0, 0, k) \in Int /\ P(1, 0, k) \in Int
             /\ P(0, 1, k) \in Int /\ P(1, 1, k) \in Int
             /\ B(k) = P(0, 0, k) + P(1, 0, k) + P(0, 1, k) + P(1, 1, k)
  <2>1. /\ P(0, 0, k) \in Byte /\ P(1, 0, k) \in Byte
        /\ P(0, 1, k) \in Byte /\ P(1, 1, k) \in Byte
    BY BlockOf
  <2>2. B(k) = P(0, 0, k) + P(1, 0, k) + P(0, 1, k) + P(1, 1, k)
    BY BlockOf
  <2> QED
    BY <2>1, <2>2, ByteBounds
<1>2. ASSUME NEW dx \in 0..1, NEW dy \in 0..1, NEW r, NEW g, NEW b,
             r = P(dx, dy, 0), g = P(dx, dy, 1), b = P(dx, dy, 2),
             r \in Int, g \in Int, b \in Int
      PROVE  /\ f.format = "rgb24" /\ c = 1 => E(dx, dy) = -37797 * r - 74203 * g + 112000 * b
             /\ f.format = "rgb24" /\ c = 2 => E(dx, dy) = 112000 * r - 93786 * g - 18214 * b
             /\ f.format = "mjpeg" => E(dx, dy) = 224000 * ((IF c = 1 THEN g ELSE b) - 128)
  <2> DEFINE p == BlockPixel(f, x, y, dx, dy)
  <2>1. p \in Nat
    BY ChromaBlock DEF BlockPixel
  <2>2. 3 * p = 3 * p + 0
    <3> HIDE DEF p
    <3> QED
      BY <2>1
  <2>3. At(f, 3 * p) = r /\ At(f, 3 * p + 1) = g /\ At(f, 3 * p + 2) = b
    BY <1>2, <2>2 DEF Part
  <2>4. p = (2 * y + dy) * Width(f) + (2 * x + dx)
    BY DEF BlockPixel
  <2> HIDE DEF p
  <2>5. f.format = "mjpeg" => E(dx, dy) = 224000 * (At(f, 3 * p + c) - 128)
    BY SMT, <2>4 DEF Exact
  <2>6. f.format = "rgb24" /\ c = 1 => E(dx, dy) = -37797 * r + -74203 * g + 112000 * b
    BY SMT, <1>2, <2>3, <2>4 DEF Exact
  <2>7. f.format = "rgb24" /\ c = 2 => E(dx, dy) = 112000 * r + -93786 * g + -18214 * b
    BY SMT, <1>2, <2>3, <2>4 DEF Exact
  <2>8. At(f, 3 * p + c) = IF c = 1 THEN g ELSE b
    BY <2>3
  <2> HIDE DEF E
  <2> QED
    BY SMT, <1>2, <2>5, <2>6, <2>7, <2>8
<1>3. Shown(f, x, y, c) = E(0, 0) + E(1, 0) + E(0, 1) + E(1, 1)
  BY DEF Shown
<1> HIDE DEF P, B, E
<1>4. \A dx, dy \in 0..1, k \in 0..2 : P(dx, dy, k) \in Int
  BY <1>1
<1>5. ASSUME f.format = "rgb24", c = 1
      PROVE  Shown(f, x, y, c) = -37797 * B(0) - 74203 * B(1) + 112000 * B(2)
  <2>1. ASSUME NEW dx \in 0..1, NEW dy \in 0..1
        PROVE  E(dx, dy) = -37797 * P(dx, dy, 0) - 74203 * P(dx, dy, 1) + 112000 * P(dx, dy, 2)
    BY SMT, <1>2, <1>4, <1>5
  <2> QED
    BY SMT, <1>1, <1>3, <2>1
<1>6. ASSUME f.format = "rgb24", c = 2
      PROVE  Shown(f, x, y, c) = 112000 * B(0) - 93786 * B(1) - 18214 * B(2)
  <2>1. ASSUME NEW dx \in 0..1, NEW dy \in 0..1
        PROVE  E(dx, dy) = 112000 * P(dx, dy, 0) - 93786 * P(dx, dy, 1) - 18214 * P(dx, dy, 2)
    BY SMT, <1>2, <1>4, <1>6
  <2> QED
    BY SMT, <1>1, <1>3, <2>1
<1>7. ASSUME f.format = "mjpeg"
      PROVE  Shown(f, x, y, c) = 224000 * (B(c) - 512)
  <2>1. ASSUME NEW dx \in 0..1, NEW dy \in 0..1
        PROVE  E(dx, dy) = 224000 * (P(dx, dy, c) - 128)
    BY SMT, <1>2, <1>4, <1>7
  <2> QED
    BY SMT, <1>1, <1>3, <2>1
<1> QED
  BY SMT, <1>5, <1>6, <1>7 DEF B

\* Every chroma sample of a converted frame shows the four pixels it stands for, within
\* one and a half codes of their mean.
LEMMA ChromaShown ==
    ASSUME NEW f \in FrameType, Accepted(f), NEW c \in 1..2,
           NEW x \in 0..Width(f) \div 2 - 1, NEW y \in 0..Height(f) \div 2 - 1
    PROVE  Within(4 * 255000 * (Chroma(f, c)[y * (Width(f) \div 2) + x] - 128),
                  Shown(f, x, y, c), 6 * 255000)
<1> DEFINE w == Width(f)  h == Height(f)  cw == w \div 2  i == y * cw + x
           E(dx, dy) == Exact(f, 2 * x + dx, 2 * y + dy, c)
           Sample == Chroma(f, c)[i]
<1>1. /\ w = 2 * cw /\ cw \in Nat /\ x \in Nat /\ y \in Nat /\ x < cw
      /\ i \in ChromaSamples(f) /\ i \div cw = y /\ i % cw = x
      /\ w * h \in Nat /\ y * cw \in Nat
  <2>1. /\ w = 2 * cw /\ cw \in Nat /\ x \in Nat /\ y \in Nat /\ x < cw
        /\ i \in ChromaSamples(f) /\ i \div cw = y /\ i % cw = x
    BY ChromaBlock
  <2>2. w * h \in Nat
    BY AcceptedSize
  <2> HIDE DEF cw, w, h
  <2>3. y * cw \in Nat
    BY <2>1
  <2> QED
    BY <2>1, <2>2, <2>3
<1>2. Sample \in Int
  BY <1>1, ChromaSample, ByteBounds
<1>3. Shown(f, x, y, c) = E(0, 0) + E(1, 0) + E(0, 1) + E(1, 1)
  BY DEF Shown
<1>4. SUFFICES Within(1020000 * (Sample - 128), Shown(f, x, y, c), 1530000)
  <2>1. 4 * 255000 * (Sample - 128) = 1020000 * (Sample - 128) /\ 6 * 255000 = 1530000
    <3> HIDE DEF Sample
    <3> QED
      BY SMT, <1>2
  <2> QED
    BY SMT, <2>1
<1>5. CASE f.format \in {"rgb24", "mjpeg"}
  <2> DEFINE B(k) == BlockSum(f, i, k)
  <2>1. B(0) \in FourBytes /\ B(1) \in FourBytes /\ B(2) \in FourBytes
    BY <1>1, <1>5, BlockSumRange
  <2>2. /\ f.format = "rgb24" /\ c = 1 => Sample = RgbToU(Mean(B(0)), Mean(B(1)), Mean(B(2)))
        /\ f.format = "rgb24" /\ c = 2 => Sample = RgbToV(Mean(B(0)), Mean(B(1)), Mean(B(2)))
        /\ f.format = "mjpeg" => Sample = FullToLimitedC(Mean(B(c)))
    BY SMT, <1>1 DEF Chroma, BlockMean, Mean
  <2>3. /\ f.format = "rgb24" /\ c = 1 =>
             Shown(f, x, y, c) = -37797 * B(0) - 74203 * B(1) + 112000 * B(2)
        /\ f.format = "rgb24" /\ c = 2 =>
             Shown(f, x, y, c) = 112000 * B(0) - 93786 * B(1) - 18214 * B(2)
        /\ f.format = "mjpeg" => Shown(f, x, y, c) = 224000 * (B(c) - 512)
    BY SMT, <1>5, BlockShown
  <2> DEFINE r == B(0)  g == B(1)  b == B(2)  m == B(c)
  <2>4. m \in FourBytes
    BY <2>1
  <2> HIDE DEF Sample, r, g, b, m
  <2>5. UShows(r, g, b) /\ VShows(r, g, b)
    <3>1. r \in FourBytes /\ g \in FourBytes /\ b \in FourBytes
      BY <2>1 DEF r, g, b
    <3> QED
      BY <3>1, ChromaAccuracy
  <2>6. FullShows(m)
    BY <2>4, FullChromaAccuracy
  <2>7. c = 1 \/ c = 2
    OBVIOUS
  <2> HIDE DEF B
  <2> QED
    BY SMT, <1>5, <2>2, <2>3, <2>5, <2>6, <2>7 DEF r, g, b, m, UShows, VShows, FullShows
<1>6. CASE f.format = "luma8"
  <2>1. E(0, 0) = 0 /\ E(1, 0) = 0 /\ E(0, 1) = 0 /\ E(1, 1) = 0
    BY SMT, <1>6 DEF Exact
  <2>2. Sample = 128
    BY <1>1, <1>6 DEF Chroma
  <2> QED
    BY SMT, <1>3, <2>1, <2>2 DEF Within
<1>7. CASE f.format = "nv12"
  <2> DEFINE k == w * h + 2 * i + c - 1
  <2>1. Sample = At(f, k)
    BY <1>1, <1>7 DEF Chroma
  <2>2. ASSUME NEW dx \in 0..1, NEW dy \in 0..1 PROVE E(dx, dy) = 255000 * (Sample - 128)
    <3>0. (2 * y + dy) \div 2 = y
      <4>1. y \in Nat
        BY <1>1
      <4> QED
        BY <4>1
    <3>1. (2 * y + dy) \div 2 = y /\ (2 * x + dx) \div 2 = x
      <4>1. x \in Nat
        BY <1>1
      <4>2. (2 * x + dx) \div 2 = x
        BY <4>1
      <4> QED
        BY <3>0, <4>2
    <3>2. y * w = 2 * (y * cw)
      BY <1>1
    <3> DEFINE n == w * h  yw == y * w  ycw == y * cw
    <3>3. n + yw + 2 * x + c - 1 = n + 2 * (ycw + x) + c - 1
      <4>1. yw = 2 * ycw /\ ycw \in Nat /\ n \in Nat
        BY <1>1, <3>2
      <4> HIDE DEF n, yw, ycw
      <4> QED
        BY <1>1, <4>1
    <3>4. At(f, w * h + y * w + 2 * x + c - 1) = Sample
      BY <2>1, <3>3
    <3> HIDE DEF Sample
    <3>5. E(dx, dy) = 255000 * (At(f, w * h + y * w + 2 * x + c - 1) - 128)
      BY SMT, <1>7, <3>1 DEF Exact
    <3> QED
      BY SMT, <3>4, <3>5
  <2> HIDE DEF E, Sample
  <2> QED
    BY SMT, <1>2, <1>3, <2>2 DEF Within
<1>8. CASE f.format = "yuyv"
  <2> DEFINE R(dy) == Quad(f, 2 * y + dy, x, 2 * c - 1)
  <2>1. ASSUME NEW dx \in 0..1, NEW dy \in 0..1 PROVE E(dx, dy) = 255000 * (R(dy) - 128)
    <3> DEFINE row == 2 * y + dy  p == row * w + (2 * x + dx)
    <3>1. row \in Nat
      BY <1>1
    <3> HIDE DEF row, w, cw
    <3>2. row * w = 2 * (row * cw) /\ row * cw \in Nat /\ row * (w * 2) = 4 * (row * cw)
      BY <1>1, <3>1
    <3> DEFINE rcw == row * cw
    <3>3. p = 2 * (rcw + x) + dx /\ rcw + x \in Nat
      BY <1>1, <3>2
    <3> HIDE DEF rcw, p
    <3>4. p \div 2 = rcw + x
      BY <3>3
    <3>5. 4 * (p \div 2) + 2 * c - 1 = row * (w * 2) + x * 4 + (2 * c - 1)
      <4>1. row * (w * 2) = 4 * rcw /\ rcw \in Nat
        BY <3>2 DEF rcw
      <4> DEFINE rw == row * (w * 2)
      <4> HIDE DEF rw
      <4>2. 4 * (rcw + x) + 2 * c - 1 = 4 * rcw + x * 4 + (2 * c - 1)
        BY <1>1, <4>1
      <4> QED
        BY <3>4, <4>1, <4>2
    <3>6. R(dy) = At(f, 4 * (p \div 2) + 2 * c - 1)
      BY <3>5 DEF Quad, row, w
    <3>7. E(dx, dy) = 255000 * (At(f, 4 * (p \div 2) + 2 * c - 1) - 128)
      BY SMT, <1>8 DEF Exact, p, row, w
    <3> QED
      BY SMT, <3>6, <3>7
  <2>2. Sample = (R(0) + R(1) + 1) \div 2
    <3>1. Sample = (Quad(f, y * 2 + 0, x, 2 * c - 1) + Quad(f, y * 2 + 1, x, 2 * c - 1) + 1) \div 2
      BY <1>1, <1>8 DEF Chroma
    <3>2. y * 2 + 0 = 2 * y + 0 /\ y * 2 + 1 = 2 * y + 1
      BY <1>1
    <3> QED
      BY <3>1, <3>2
  <2>3. R(0) \in Byte /\ R(1) \in Byte
    <3>1. /\ 2 * y + 0 \in Nat /\ 2 * y + 0 < h /\ 2 * y + 1 \in Nat /\ 2 * y + 1 < h
          /\ 2 * c - 1 \in 0..3 /\ x < Width(f) \div 2 /\ x \in Nat
      <4>1. h = 2 * (h \div 2) /\ h \div 2 \in Nat /\ y < h \div 2
        BY <1>1, AcceptedSize
      <4> QED
        BY <1>1, <4>1
    <3> QED
      BY <1>8, <3>1, QuadByte
  <2> DEFINE a == R(0)  b == R(1)
  <2> HIDE DEF E, Sample, R
  <2>4. a \in Int /\ b \in Int /\ Sample = (a + b + 1) \div 2
    BY <2>2, <2>3, ByteBounds
  <2>5. E(0, 0) = 255000 * (a - 128) /\ E(1, 0) = 255000 * (a - 128)
    BY SMT, <2>1
  <2>6. E(0, 1) = 255000 * (b - 128) /\ E(1, 1) = 255000 * (b - 128)
    BY SMT, <2>1
  <2> HIDE DEF a, b
  <2>7. a + b <= 2 * Sample /\ 2 * Sample <= a + b + 1
    BY <2>4
  <2> QED
    BY SMT, <1>2, <1>3, <2>4, <2>5, <2>6, <2>7 DEF Within
<1> QED
  BY SMT, <1>5, <1>6, <1>7, <1>8 DEF FrameType, Format

----------------------------------------------------------------------------
(* The invariant *)

ConvertInv == TypeOK /\ ComputedIsLimited

\* The empty buffer is of its type, and in range.
LEMMA InitConvert == Init => ConvertInv
BY DEF Init, ConvertInv, TypeOK, ComputedIsLimited, NoFrame, Plane, Byte

\* A conversion and a refusal keep the types and the range.
LEMMA StepConvert == ConvertInv /\ [Next]_vars => ConvertInv'
<1> SUFFICES ASSUME ConvertInv, [Next]_vars PROVE ConvertInv'
  OBVIOUS
<1> USE DEF ConvertInv
<1>1. ASSUME NEW f \in Frame, Converts(f) PROVE ConvertInv'
  <2> DEFINE n == Width(f) * Height(f)  q == n \div 4
             yy == [i \in 0..n - 1 |-> Luma(f)[i]]
             uu == [i \in 0..q - 1 |-> Chroma(f, 1)[i]]
             vv == [i \in 0..q - 1 |-> Chroma(f, 2)[i]]
  <2>1. f \in FrameType /\ Accepted(f)
    BY <1>1, FrameAssumption DEF Converts
  <2>2. Width(f) \in Nat /\ Height(f) \in Nat /\ n \in Nat
    BY <2>1, AcceptedSize
  <2>3. q \in Nat /\ ChromaSamples(f) = 0..q - 1
    BY <2>1, QuarterOfPixels
  <2>5. /\ buf' = [width |-> Width(f), height |-> Height(f), y |-> yy, u |-> uu, v |-> vv]
        /\ result' = "ok" /\ last' = f
    BY <1>1, <2>1, ConvertedBuffer DEF Converts
  <2>6. \A i \in 0..n - 1 : Luma(f)[i] \in Byte /\ (Computed(f) => Luma(f)[i] \in 16..235)
    BY <2>1, LumaSample
  <2>7. \A c \in 1..2, i \in 0..q - 1 :
            Chroma(f, c)[i] \in Byte /\ (Computed(f) => Chroma(f, c)[i] \in 16..240)
    BY <2>1, <2>3, ChromaSample
  <2>8. yy \in Plane(n) /\ uu \in Plane(q) /\ vv \in Plane(q)
    BY <2>6, <2>7 DEF Plane
  <2>9. Computed(f) => /\ \A i \in DOMAIN yy : yy[i] \in 16..235
                       /\ \A i \in DOMAIN uu : uu[i] \in 16..240
                       /\ \A i \in DOMAIN vv : vv[i] \in 16..240
    BY <2>6, <2>7
  <2> HIDE DEF yy, uu, vv
  <2>10. TypeOK'
    BY <2>2, <2>5, <2>8 DEF TypeOK
  <2>11. ComputedIsLimited'
    BY <2>5, <2>9 DEF ComputedIsLimited, Limited, Computed
  <2> QED
    BY <2>10, <2>11
<1>2. ASSUME NEW f \in Frame, Refuses(f) PROVE ConvertInv'
  BY <1>2 DEF Refuses, TypeOK, ComputedIsLimited, Limited
<1>3. CASE UNCHANGED vars
  BY <1>3 DEF vars, TypeOK, ComputedIsLimited, Limited
<1> QED
  BY <1>1, <1>2, <1>3 DEF Next

\* convert.rs: the planes always have the size of the picture they hold and contain bytes,
\* whatever frames were converted or refused before.
THEOREM TypeCorrect == Spec => []TypeOK
<1>1. ConvertInv => TypeOK
  BY DEF ConvertInv
<1> QED
  BY InitConvert, StepConvert, <1>1, PTL DEF Spec

\* convert.rs: pictures computed from RGB or decoded from JPEG are in limited range, for
\* every colour, size and history of the scratch buffer.
THEOREM LimitedRange == Spec => []ComputedIsLimited
<1>1. ConvertInv => ComputedIsLimited
  BY DEF ConvertInv
<1> QED
  BY InitConvert, StepConvert, <1>1, PTL DEF Spec

\* A conversion leaves a buffer that shows the frame it converted.
LEMMA ConversionShows == ASSUME NEW f \in Frame, Converts(f) PROVE PictureKept'
<1> DEFINE n == Width(f) * Height(f)  q == n \div 4  cw == Width(f) \div 2
           plane(c) == [i \in 0..q - 1 |-> Chroma(f, c)[i]]
<1>1. f \in FrameType /\ Accepted(f) /\ last' = f
  BY FrameAssumption DEF Converts
<1>2. /\ buf'.width = Width(f) /\ buf'.height = Height(f)
      /\ buf'.y = [i \in 0..n - 1 |-> Luma(f)[i]]
      /\ buf'.u = plane(1) /\ buf'.v = plane(2)
  <2>1. buf' = [width |-> Width(f), height |-> Height(f),
                y |-> [i \in 0..n - 1 |-> Luma(f)[i]], u |-> plane(1), v |-> plane(2)]
    BY <1>1, ConvertedBuffer
  <2> QED
    BY <2>1
<1>3. LumaKept'
  <2> SUFFICES ASSUME NEW x \in 0..Width(f) - 1, NEW y \in 0..Height(f) - 1
               PROVE  Within(255000 * (buf'.y[y * Width(f) + x] - 16),
                             Exact(f, x, y, 0), 255000)
    BY SMT, <1>1, <1>2 DEF LumaKept
  <2>1. y * Width(f) + x \in 0..n - 1
    <3> DEFINE w == Width(f)  h == Height(f)
    <3>1. w \in Nat /\ h \in Nat
      BY <1>1, AcceptedSize
    <3> HIDE DEF w, h
    <3>2. x \in Nat /\ y \in Nat /\ x < w /\ y < h
      BY <3>1 DEF w, h
    <3>3. y * w + x \in Nat /\ y * w + x < w * h /\ w * h \in Nat
      BY <3>1, <3>2, RowIndex
    <3>4. y * w + x \in 0..w * h - 1
      BY <3>3
    <3> QED
      BY <3>4 DEF w, h
  <2>2. buf'.y[y * Width(f) + x] = Luma(f)[y * Width(f) + x]
    BY <1>2, <2>1
  <2> QED
    BY SMT, <1>1, <2>2, LumaShown
<1>4. ASSUME NEW c \in 1..2 PROVE ChromaKept(plane(c), c)'
  <2> SUFFICES ASSUME NEW x \in 0..cw - 1, NEW y \in 0..Height(f) \div 2 - 1
               PROVE  Within(4 * 255000 * (plane(c)[y * cw + x] - 128), Shown(f, x, y, c),
                             6 * 255000)
    <3> HIDE DEF plane
    <3> QED
      BY SMT, <1>1, <1>2 DEF ChromaKept, Shown
  <2>1. y * cw + x \in 0..q - 1
    BY <1>1, ChromaBlock, QuarterOfPixels
  <2>2. plane(c)[y * cw + x] = Chroma(f, c)[y * cw + x]
    BY <2>1
  <2> QED
    BY SMT, <1>1, <2>2, ChromaShown
<1>5. ChromaKept(buf.u, 1)' /\ ChromaKept(buf.v, 2)'
  BY SMT, <1>2, <1>4
<1> QED
  BY <1>1, <1>2, <1>3, <1>5 DEF PictureKept

\* convert.rs: whatever was converted or refused before, the buffer shows the last frame
\* converted and nothing else, for every format, size and colour: luma within one code of
\* the exact colour, chroma within one and a half of the mean of its four pixels.
THEOREM PictureIsKept == Spec => []PictureKept
<1>1. Init => PictureKept
  BY DEF Init, PictureKept
<1>2. PictureKept /\ [Next]_vars => PictureKept'
  <2> SUFFICES ASSUME PictureKept, [Next]_vars PROVE PictureKept'
    OBVIOUS
  <2>1. ASSUME NEW f \in Frame, Converts(f) PROVE PictureKept'
    BY <2>1, ConversionShows
  <2>2. CASE UNCHANGED <<buf, last>>
    BY <2>2 DEF PictureKept, LumaKept, ChromaKept
  <2> QED
    BY <2>1, <2>2 DEF Next, Refuses, vars
<1> QED
  BY <1>1, <1>2, PTL DEF Spec
=============================================================================
