--------------------------- MODULE MCPixelConvert ---------------------------
(* Frames for TLC: every format, even, odd and empty sizes, payloads that fit or *)
(* are a byte short or long, flat extremes and two patterns without symmetry.    *)
EXTENDS PixelConvert

Ramp(n, first, step) == [k \in 1..n |-> (first + step * k) % 256]
Ramps == {<<0, 0>>, <<255, 0>>, <<7, 89>>, <<250, 37>>}
Payloads(n) == {Ramp(n, r[1], r[2]) : r \in Ramps}

Sizes == {<<2, 2>>, <<4, 2>>, <<2, 4>>}
Good(fmt, w, h, d, jpeg) ==
    [format |-> fmt, width |-> w, height |-> h, data |-> d,
     image |-> [width |-> IF jpeg THEN w ELSE 0, height |-> IF jpeg THEN h ELSE 0],
     decodes |-> jpeg]
Fitting ==
    UNION {LET n == s[1] * s[2]
               Of(fmt, len) == {Good(fmt, s[1], s[2], d, fmt = "mjpeg") : d \in Payloads(len)}
           IN  Of("rgb24", 3 * n) \cup Of("yuyv", 2 * n) \cup Of("nv12", (3 * n) \div 2)
               \cup Of("luma8", n) \cup Of("mjpeg", 3 * n)
           : s \in Sizes}
\* The JPEG's own size wins over the frame header's.
Disagreeing ==
    {[Good("mjpeg", 2, 2, d, TRUE) EXCEPT !.image = [width |-> 4, height |-> 2]]
     : d \in Payloads(24)}
Bad ==
    {Good("rgb24", 3, 2, Ramp(18, 7, 89), FALSE), Good("luma8", 2, 3, Ramp(6, 7, 89), FALSE),
     Good("nv12", 0, 2, <<>>, FALSE), Good("mjpeg", 3, 2, Ramp(18, 7, 89), TRUE),
     Good("mjpeg", 2, 2, Ramp(12, 7, 89), FALSE)}
    \cup {Good(fmt, 2, 2, Ramp(n, 7, 89), fmt = "mjpeg")
           : fmt \in {"rgb24", "yuyv", "nv12", "luma8", "mjpeg"}, n \in {3, 5, 7, 9, 11, 13}}
AnyFrame == Fitting \cup Disagreeing \cup Bad
=============================================================================
