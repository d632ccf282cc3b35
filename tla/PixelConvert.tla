---------------------------- MODULE PixelConvert ----------------------------
(***************************************************************************)
(* joy-media convert.rs: frames of any pixel format become planar I420 in   *)
(* one scratch buffer, which is reused across formats and resolutions, also *)
(* after frames that were refused.                                          *)
(*                                                                          *)
(* A plane is a function on its byte indices.  The JPEG decoder is          *)
(* external: an MJPEG frame carries what it decodes to, with the JPEG's own *)
(* dimensions, or the decoder's failure.                                    *)
(***************************************************************************)
EXTENDS Integers, Sequences

CONSTANT Frame  \* the frames a source may publish

Byte   == 0..255
Format == {"rgb24", "yuyv", "nv12", "luma8", "mjpeg"}
Image  == [width : Nat, height : Nat]
\* image: what the JPEG says; decodes: the decoder succeeds. Both for MJPEG only.
FrameType == [format : Format, width : Nat, height : Nat, data : Seq(Byte),
              image : Image, decodes : BOOLEAN]

ASSUME FrameAssumption == \A f \in Frame : f \in FrameType

VARIABLES
    buf,     \* the I420Buffer
    result,  \* what to_i420 returned: "none" | "ok" | "err"
    last     \* history: the last frame converted, or NoFrame

vars == <<buf, result, last>>

NoFrame == [format |-> "none", width |-> 0, height |-> 0, data |-> <<>>,
            image |-> [width |-> 0, height |-> 0], decodes |-> FALSE]
Plane(n) == [0..n - 1 -> Byte]

Init ==
    /\ buf = [width |-> 0, height |-> 0, y |-> <<>>, u |-> <<>>, v |-> <<>>]
    /\ result = "none" /\ last = NoFrame

----------------------------------------------------------------------------
(* Colour arithmetic, with the widths of its integer types *)

RgbToY(r, g, b) ==
    (((66 * r + 129 * g + 25 * b + 128) % 65536) \div 256 + 16) % 256
RgbToU(r, g, b) == ((-38 * r - 74 * g + 112 * b + 128) \div 256 + 128) % 256
RgbToV(r, g, b) == ((112 * r - 94 * g - 18 * b + 128) \div 256 + 128) % 256
\* (The Wrong... operators are faulty variants that the properties must notice.)
WrongFullToLimitedY(y) == (16 + (y * 220 + 127) \div 255) % 256
FullToLimitedY(y) == (16 + (y * 219 + 127) \div 255) % 256
FullToLimitedC(c) == (16 + (c * 224 + 127) \div 255) % 256

----------------------------------------------------------------------------
(* to_i420: the guards *)

Width(f)  == IF f.format = "mjpeg" THEN f.image.width ELSE f.width
Height(f) == IF f.format = "mjpeg" THEN f.image.height ELSE f.height
Expected(f) ==
    LET pixels == Width(f) * Height(f) IN
    CASE f.format \in {"rgb24", "mjpeg"} -> pixels * 3
      [] f.format = "yuyv"  -> pixels * 2
      [] f.format = "nv12"  -> (pixels * 3) \div 2
      [] f.format = "luma8" -> pixels

\* Zero and odd dimensions, another payload length than the format's, and a JPEG
\* that does not decode are refused. (Every format of PixelFormat is supported.)
Even(n) == n > 0 /\ n % 2 = 0
Accepted(f) ==
    /\ f.format = "mjpeg" => f.decodes
    /\ Even(Width(f)) /\ Even(Height(f))
    /\ Len(f.data) = Expected(f)

----------------------------------------------------------------------------
(* The conversions: the bytes each one writes, by index *)

At(f, k) == f.data[k + 1]

\* The four pixels of chroma sample i, component c, in interleaved three-byte pixels.
BlockSum(f, i, c) ==
    LET cw == Width(f) \div 2
        Px(dx, dy) == At(f, (((i \div cw) * 2 + dy) * Width(f) + (i % cw) * 2 + dx) * 3 + c)
    IN  Px(0, 0) + Px(1, 0) + Px(0, 1) + Px(1, 1)
BlockMean(f, i, c) == (BlockSum(f, i, c) + 2) \div 4

\* Byte k of the quad [Y0 U Y1 V] at row and pixel pair.
Quad(f, row, pair, k) == At(f, row * (Width(f) * 2) + pair * 4 + k)

Luma(f) ==
    [i \in 0..Width(f) * Height(f) - 1 |->
        CASE f.format = "rgb24" -> RgbToY(At(f, 3 * i), At(f, 3 * i + 1), At(f, 3 * i + 2))
          [] f.format = "yuyv"  ->
               Quad(f, i \div Width(f), (i % Width(f)) \div 2, 2 * ((i % Width(f)) % 2))
          [] f.format \in {"nv12", "luma8"} -> At(f, i)
          [] f.format = "mjpeg" -> FullToLimitedY(At(f, 3 * i))]

\* c = 1 for U, 2 for V.
WrongChromaSamples(f) == 0..(Width(f) \div 2) * (Height(f) \div 2) - 2
ChromaSamples(f)      == 0..(Width(f) \div 2) * (Height(f) \div 2) - 1
Chroma(f, c) ==
    [i \in ChromaSamples(f) |->
        LET cw == Width(f) \div 2
            Row(dy) == Quad(f, (i \div cw) * 2 + dy, i % cw, 2 * c - 1)
            Mean(k) == BlockMean(f, i, k)
        IN  CASE f.format = "rgb24" /\ c = 1 -> RgbToU(Mean(0), Mean(1), Mean(2))
              [] f.format = "rgb24" /\ c = 2 -> RgbToV(Mean(0), Mean(1), Mean(2))
              [] f.format = "yuyv"  -> (Row(0) + Row(1) + 1) \div 2
              [] f.format = "nv12"  -> At(f, Width(f) * Height(f) + 2 * i + c - 1)
              [] f.format = "luma8" -> 128
              [] f.format = "mjpeg" -> FullToLimitedC(Mean(c))]

\* Vec::resize(n, 0): the old bytes as far as they fit, then zeros.
WrongResized(plane, n) ==
    [i \in 0..n - 1 \cup DOMAIN plane |-> IF i \in DOMAIN plane THEN plane[i] ELSE 0]
Resized(plane, n) ==
    [i \in 0..n - 1 |-> IF i \in DOMAIN plane THEN plane[i] ELSE 0]
\* The writes of a conversion on top of what is left there.
Stored(plane, n, writes) ==
    LET old == Resized(plane, n) IN
    [i \in DOMAIN old |-> IF i \in DOMAIN writes THEN writes[i] ELSE old[i]]

\* I420Buffer::prepare, then the writes.
Converts(f) ==
    /\ Accepted(f)
    /\ LET n == Width(f) * Height(f) IN
       buf' = [width |-> Width(f), height |-> Height(f),
               y |-> Stored(buf.y, n, Luma(f)),
               u |-> Stored(buf.u, n \div 4, Chroma(f, 1)),
               v |-> Stored(buf.v, n \div 4, Chroma(f, 2))]
    /\ result' = "ok" /\ last' = f

Refuses(f) ==
    /\ ~Accepted(f)
    /\ result' = "err"
    /\ UNCHANGED <<buf, last>>

Next == \E f \in Frame : Converts(f) \/ Refuses(f)
Spec == Init /\ [][Next]_vars

----------------------------------------------------------------------------
(* What must hold *)

TypeOK ==
    /\ buf \in [width : Nat, height : Nat, y : Plane(buf.width * buf.height),
                u : Plane((buf.width * buf.height) \div 4),
                v : Plane((buf.width * buf.height) \div 4)]
    /\ result \in {"none", "ok", "err"}
    /\ last \in Frame \cup {NoFrame}
\* The picture a frame shows, pixel by pixel, from the formats' definitions: component c
\* (luma, Cb, Cr) of pixel (x, y) in limited-range BT.601, in 1/255000 of a code above
\* its zero point.
Exact(f, x, y, c) ==
    LET p == y * Width(f) + x
        D(k) == At(f, k)
        Rgb(wr, wg, wb) == wr * D(3 * p) + wg * D(3 * p + 1) + wb * D(3 * p + 2)
        Zero == IF c = 0 THEN 16 ELSE 128
        Chroma420 == Width(f) * Height(f) + (y \div 2) * Width(f) + 2 * (x \div 2) + c - 1
    IN  CASE f.format = "rgb24" -> (CASE c = 0 -> Rgb(65481, 128553, 24966)
                                      [] c = 1 -> Rgb(-37797, -74203, 112000)
                                      [] c = 2 -> Rgb(112000, -93786, -18214))
          [] f.format = "mjpeg" -> IF c = 0 THEN 219000 * D(3 * p)
                                   ELSE 224000 * (D(3 * p + c) - 128)
          [] f.format = "yuyv"  -> 255000 * ((IF c = 0 THEN D(2 * p)
                                              ELSE D(4 * (p \div 2) + 2 * c - 1)) - Zero)
          [] f.format = "nv12"  -> 255000 * (D(IF c = 0 THEN p ELSE Chroma420) - Zero)
          [] f.format = "luma8" -> IF c = 0 THEN 255000 * (D(p) - Zero) ELSE 0

Within(a, b, tolerance) == a - b <= tolerance /\ b - a <= tolerance

\* The buffer shows the last frame converted and nothing else, whatever formats and
\* resolutions it held before and whatever was refused since: luma within one code of
\* the exact colour, chroma within one and a half of the mean of its four pixels.
LumaKept ==
    \A x \in 0..buf.width - 1, y \in 0..buf.height - 1 :
        Within(255000 * (buf.y[y * buf.width + x] - 16), Exact(last, x, y, 0), 255000)
ChromaKept(plane, c) ==
    \A x \in 0..buf.width \div 2 - 1, y \in 0..buf.height \div 2 - 1 :
        LET Px(dx, dy) == Exact(last, 2 * x + dx, 2 * y + dy, c) IN
        Within(4 * 255000 * (plane[y * (buf.width \div 2) + x] - 128),
               Px(0, 0) + Px(1, 0) + Px(0, 1) + Px(1, 1), 6 * 255000)
PictureKept ==
    last # NoFrame =>
        /\ buf.width = Width(last) /\ buf.height = Height(last)
        /\ LumaKept /\ ChromaKept(buf.u, 1) /\ ChromaKept(buf.v, 2)

\* Frames that are converted from full range, or from RGB, come out in the limited
\* range: no intermediate overflows its type, for any colour.
Limited ==
    /\ \A i \in DOMAIN buf.y : buf.y[i] \in 16..235
    /\ \A i \in DOMAIN buf.u : buf.u[i] \in 16..240
    /\ \A i \in DOMAIN buf.v : buf.v[i] \in 16..240
ComputedIsLimited == last.format \in {"rgb24", "mjpeg"} => Limited
=============================================================================
