----------------------------- MODULE PlanesProofs -----------------------------
(***************************************************************************)
(* Proofs about Planes for formats, windows, pitches, strides and lengths  *)
(* of any size: the index arithmetic of display_callback and upload_nv12   *)
(* takes every sample from where it should come from. All of it rests on   *)
(* Place: in rows of w, column c of row r is at r * w + c and nowhere else. *)
(***************************************************************************)
EXTENDS Planes, Integers, TLAPS

-----------------------------------------------------------------------------
(* Places in a plane.                                                      *)

LEMMA ProductGrows ==
  ASSUME NEW a \in Nat, NEW b \in Nat, NEW k \in Nat, a <= b
  PROVE  a * k <= b * k
<1>1. b - a \in Nat /\ (b - a) * k \in Nat
  BY SMT
<1>2. (b - a) * k = b * k - a * k
  BY SMT
<1>3. QED
  BY <1>1, <1>2

\* The row and the column of an offset.
LEMMA RowColumn ==
  ASSUME NEW w \in Nat, NEW r \in Nat, NEW c \in Nat, c < w
  PROVE  (r * w + c) \div w = r /\ (r * w + c) % w = c
<1>1. r * w \in Nat /\ w > 0
  BY SMT
<1>2. (r * w + c) \div w = r
  BY <1>1, SMT
<1>3. (r * w + c) % w = c
  BY <1>1, SMT
<1>4. QED
  BY <1>2, <1>3

\* Row r of h rows of w lies among them.
LEMMA RowFits ==
  ASSUME NEW w \in Nat, NEW h \in Nat, NEW r \in Nat, r < h
  PROVE  r * w \in Nat /\ w * h \in Nat /\ r * w + w <= w * h
<1>1. r * w \in Nat /\ w * h \in Nat
  BY SMT
<1>2. (r + 1) * w <= h * w
  BY ProductGrows
<1>3. (r + 1) * w = r * w + w /\ h * w = w * h
  BY SMT
<1>4. QED
  BY <1>1, <1>2, <1>3

\* Column c of row r, in h rows of w.
LEMMA Place ==
  ASSUME NEW w \in Nat, NEW h \in Nat, NEW r \in Nat, NEW c \in Nat, r < h, c < w
  PROVE  /\ r * w + c \in 0..(w * h - 1)
         /\ (r * w + c) \div w = r
         /\ (r * w + c) % w = c
<1>1. r * w \in Nat /\ w * h \in Nat /\ r * w + w <= w * h
  BY RowFits
<1>2. r * w + c \in 0..(w * h - 1)
  BY <1>1
<1>3. QED
  BY <1>2, RowColumn

\* The same, as one fact for the provers to match.
IsPlace(w, h, r, c) ==
  r * w + c \in 0..(w * h - 1) /\ (r * w + c) \div w = r /\ (r * w + c) % w = c
LEMMA PlaceIn ==
  ASSUME NEW w \in Nat, NEW h \in Nat, NEW r \in Nat, NEW c \in Nat, r < h, c < w
  PROVE  IsPlace(w, h, r, c)
BY Place DEF IsPlace

\* Every offset is such a place.
LEMMA PlaceOf ==
  ASSUME NEW w \in Nat, NEW h \in Nat, NEW i \in 0..(w * h - 1)
  PROVE  \E r \in Nat, c \in Nat : r < h /\ c < w /\ i = r * w + c
<1>1. w > 0 /\ i < w * h
  BY SMT
<1>2. i \div w \in Nat /\ i % w \in 0..(w - 1)
  BY <1>1, SMT
<1>3. i = (i \div w) * w + (i % w)
  BY <1>1, SMT
<1>4. i \div w < h
  <2>1. i \div w >= h => h * w <= (i \div w) * w
    BY <1>2, ProductGrows
  <2>2. (i \div w) * w \in Nat /\ h * w = w * h
    BY <1>2, SMT
  <2>3. QED
    BY <1>1, <1>2, <1>3, <2>1, <2>2
<1>5. i % w \in Nat /\ i % w < w
  BY <1>1, <1>2
<1> WITNESS i \div w \in Nat, i % w \in Nat
<1>6. QED
  BY <1>3, <1>4, <1>5

LEMMA HalfType == ASSUME NEW n \in Nat PROVE Half(n) \in Nat /\ 2 * Half(n) >= n
BY DEF Half

-----------------------------------------------------------------------------
(* The crop of display_callback.                                           *)

\* What SeqCallback makes of a format.
Shown(f) ==
  [cw |-> f.cw, ch |-> f.ch,
   w |-> IF Monus(f.right, f.left) = 0 THEN f.cw ELSE Monus(f.right, f.left),
   h |-> IF Monus(f.bottom, f.top) = 0 THEN f.ch ELSE Monus(f.bottom, f.top),
   left |-> f.left, top |-> f.top]

\* The width and height of the output are those of the window.
LEMMA WindowSize ==
  ASSUME NEW f \in FormatRecords
  PROVE  /\ Out(f.cw, Shown(f).w, f.left) = Monus(Right(f), f.left)
         /\ Out(f.ch, Shown(f).h, f.top) = Monus(Bottom(f), f.top)
         /\ Monus(Right(f), f.left) \in Nat /\ Monus(Bottom(f), f.top) \in Nat
         /\ Monus(Right(f), f.left) > 0 => f.left + Monus(Right(f), f.left) <= f.cw
         /\ Monus(Bottom(f), f.top) > 0 => f.top + Monus(Bottom(f), f.top) <= f.ch
BY DEF FormatRecords, Out, Shown, Monus, Lesser, Right, Bottom

\* A plane of w by h samples is the window of picture n at the left and top of f.
IsWindow(luma, n, f, w, h) ==
  \A r \in Nat, c \in Nat :
    r < h /\ c < w => luma[r * w + c] = Sample(n, "y", f.left + c, f.top + r)

LEMMA LumaPlace ==
  ASSUME NEW f \in FormatRecords, NEW n, NEW pitch \in Nat, NEW w \in Nat, NEW h \in Nat,
         pitch >= f.cw, w > 0 => f.left + w <= f.cw, h > 0 => f.top + h <= f.ch
  PROVE  IsWindow(LumaOut(n, Shown(f), pitch, w, h), n, f, w, h)
<1> SUFFICES ASSUME NEW r \in Nat, NEW c \in Nat, r < h, c < w,
                    f.left + w <= f.cw, f.top + h <= f.ch
             PROVE  LumaOut(n, Shown(f), pitch, w, h)[r * w + c]
                      = Sample(n, "y", f.left + c, f.top + r)
  BY DEF IsWindow
<1> DEFINE i == r * w + c
           src_off == (f.top + r) * pitch + f.left
<1>1. f.left \in Nat /\ f.top \in Nat /\ f.cw \in Nat /\ f.ch \in Nat
  BY DEF FormatRecords
<1>2. i \in 0..(w * h - 1) /\ i \div w = r /\ i % w = c
  BY Place
<1>3. src_off + w <= pitch * f.ch
  <2>1. f.top + r \in Nat /\ f.top + r < f.ch
    BY <1>1
  <2>2. /\ (f.top + r) * pitch \in Nat /\ pitch * f.ch \in Nat
        /\ (f.top + r) * pitch + pitch <= pitch * f.ch
    BY <1>1, <2>1, RowFits
  <2>3. QED
    BY <1>1, <2>2
<1>4. /\ (src_off + c) % pitch = f.left + c /\ (src_off + c) \div pitch = f.top + r
  <2> DEFINE row == f.top + r
             col == f.left + c
  <2>1. src_off + c = row * pitch + col
    BY <1>1, SMT
  <2>2. row \in Nat /\ col \in Nat /\ col < pitch
    BY <1>1
  <2> HIDE DEF row, col
  <2>3. (row * pitch + col) % pitch = col /\ (row * pitch + col) \div pitch = row
    BY <2>2, RowColumn
  <2> HIDE DEF src_off
  <2>4. QED
    BY <2>1, <2>3 DEF row, col
<1>5. LumaOut(n, Shown(f), pitch, w, h)[i] = Luma(n, Shown(f), pitch, src_off + c)
  BY <1>2, <1>3 DEF LumaOut, Shown
<1>6. f.left + c < f.cw
  BY <1>1
<1>7. QED
  BY <1>4, <1>5, <1>6 DEF Luma, Shown

\* The coded column (or row) of a chroma sample: in the picture, and at most
\* one to the left of the column that the luma sample lies on.
LEMMA ChromaColumn ==
  ASSUME NEW coded \in Nat, NEW offset \in Nat, NEW size \in Nat,
         offset + size <= coded, NEW c \in Nat, c < Half(size)
  PROVE  /\ ChromaOffset(offset) + c \in Nat
         /\ ChromaOffset(offset) + c < Half(coded)
BY DEF Half, ChromaOffset

LEMMA ChromaNeighbour ==
  ASSUME NEW offset \in Nat, NEW x \in Nat
  PROVE  \E d \in 0..(offset % 2) :
           ChromaOffset(offset) + (x \div 2) = (offset + x) \div 2 - d
<1> DEFINE d == (offset + x) \div 2 - offset \div 2 - x \div 2
<1>1. d \in 0..(offset % 2)
  OBVIOUS
<1>2. ChromaOffset(offset) + (x \div 2) = (offset + x) \div 2 - d
  BY DEF ChromaOffset
<1>3. QED
  BY <1>1, <1>2

LEMMA ChromaPlace ==
  ASSUME NEW f \in FormatRecords, NEW n, NEW pitch \in Nat, NEW w \in Nat, NEW h \in Nat,
         pitch >= 2 * Half(f.cw), NEW r \in Nat, NEW c \in Nat, r < h, c < w,
         ChromaOffset(f.left) + c < Half(f.cw), ChromaOffset(f.top) + r < Half(f.ch),
         NEW byte \in {0, 1}
  PROVE  ChromaOut(n, Shown(f), pitch, w, h, byte)[r * w + c]
           = Sample(n, IF byte = 0 THEN "u" ELSE "v",
                    ChromaOffset(f.left) + c, ChromaOffset(f.top) + r)
<1> DEFINE i == r * w + c
           C == ChromaOffset(f.left) + c
           R == ChromaOffset(f.top) + r
           src_off == R * pitch + ChromaOffset(f.left) * 2
           at == src_off + 2 * c
<1>1. /\ f.left \in Nat /\ f.top \in Nat /\ f.cw \in Nat /\ f.ch \in Nat
      /\ ChromaOffset(f.left) \in Nat /\ ChromaOffset(f.top) \in Nat
  BY DEF FormatRecords, ChromaOffset
<1>2. Half(f.cw) \in Nat /\ Half(f.ch) \in Nat
  BY <1>1, HalfType
<1>3. C \in Nat /\ C < Half(f.cw) /\ R \in Nat /\ R < Half(f.ch)
  BY <1>1
<1>4. i \in 0..(w * h - 1) /\ i \div w = r /\ i % w = c
  BY Place
<1>5. /\ R * pitch \in Nat /\ pitch * Half(f.ch) \in Nat
      /\ R * pitch + pitch <= pitch * Half(f.ch)
  BY <1>2, <1>3, RowFits
<1>6. at = R * pitch + 2 * C /\ at \in Nat /\ 2 * C + 1 < pitch
  <2>1. 2 * C + 1 < pitch
    BY <1>2, <1>3
  <2>2. QED
    BY <1>1, <1>3, <1>5, <2>1
<1>7. at + 1 < Lesser(src_off + 2 * w, pitch * Half(f.ch))
  <2>1. at + 1 < src_off + 2 * w
    <3>1. src_off \in Nat
      BY <1>1, <1>5
    <3>2. QED
      BY <3>1
  <2>2. at + 1 < pitch * Half(f.ch)
    BY <1>5, <1>6, <1>3
  <2>3. QED
    BY <2>1, <2>2 DEF Lesser
<1>8. ChromaOut(n, Shown(f), pitch, w, h, byte)[i]
        = Chroma(n, Shown(f), pitch, at + byte)
  BY <1>4, <1>7 DEF ChromaOut, Shown
<1>9. (at + byte) % pitch = 2 * C + byte /\ (at + byte) \div pitch = R
  <2> DEFINE col == 2 * C + byte
  <2>1. at + byte = R * pitch + col
    BY <1>3, <1>5, <1>6
  <2>2. col \in Nat /\ col < pitch
    BY <1>3, <1>6
  <2> HIDE DEF col, R, at
  <2>3. (R * pitch + col) % pitch = col /\ (R * pitch + col) \div pitch = R
    BY <1>3, <2>2, RowColumn
  <2>4. QED
    BY <2>1, <2>3 DEF col
<1>10. /\ ~(2 * C + byte >= 2 * Half(f.cw)) /\ (2 * C + byte) \div 2 = C
       /\ (2 * C + byte) % 2 = byte
  BY <1>2, <1>3
<1> HIDE DEF C, R, at, src_off
<1>11. Chroma(n, Shown(f), pitch, at + byte)
         = Sample(n, IF byte = 0 THEN "u" ELSE "v", C, R)
  BY <1>9, <1>10 DEF Chroma, Shown
<1>12. QED
  BY <1>8, <1>11 DEF C, R

-----------------------------------------------------------------------------
(* The invariant.                                                          *)

FormatOk == format \in FormatRecords /\ geometry = Shown(format)

\* Every sample of a plane is the picture's own.
Owned(plane, n) ==
  /\ plane.stride \in Nat /\ plane.len \in Nat
  /\ \A i \in 0..(plane.len - 1) : plane.data[i].picture = n
FrameOk ==
  /\ Owned(frame.y, pictures) /\ Owned(frame.u, pictures) /\ Owned(frame.v, pictures)
  /\ pictures \in Nat /\ (pictures = 0 => frame.source = "none")

\* The rows of luma in the input buffer are each of one picture.
Rowwise(p, data) ==
  \A y \in 0..(Height - 1), x \in 0..(Width - 1) :
    data[y * p + x].picture = data[y * p].picture
Sized(p, data) ==
  p >= 2 * Half(Width) /\ DOMAIN data = 0..(p * (Height + Half(Height)) - 1)
BufferOk ==
  /\ buffer = [pitch |-> buffer.pitch, data |-> buffer.data] /\ buffer.pitch \in Nat
  /\ buffer.pitch # 0 => Sized(buffer.pitch, buffer.data) /\ Rowwise(buffer.pitch, buffer.data)

IInv ==
  /\ FormatOk /\ FrameOk /\ BufferOk
  /\ WindowExact /\ ChromaSited /\ UploadExact /\ WholeRows

\* It holds at first.
LEMMA PlanesStart == PlanesInit => IInv
<1> SUFFICES ASSUME PlanesInit PROVE IInv
  OBVIOUS
<1>1. FormatOk
  <2>1. format \in FormatRecords
    BY DEF PlanesInit, NoFormat, FormatRecords
  <2>2. Shown(format) = [cw |-> 0, ch |-> 0, w |-> 0, h |-> 0, left |-> 0, top |-> 0]
    BY DEF PlanesInit, NoFormat, Shown, Monus
  <2>3. QED
    BY <2>1, <2>2 DEF PlanesInit, FormatOk
<1>2. FrameOk
  BY DEF PlanesInit, FrameOk, Owned, NoPlane, Plane
<1>3. BufferOk
  BY DEF PlanesInit, BufferOk
<1>4. frame.source # "nvdec" /\ ~uploaded
  BY DEF PlanesInit
<1>5. QED
  BY <1>1, <1>2, <1>3, <1>4 DEF IInv, WindowExact, ChromaSited, UploadExact, WholeRows

\* What display_callback pushes is the window.
LEMMA DisplayStep ==
  ASSUME FormatOk, FrameOk, NEW pitch \in Pitches, DisplayCallback(pitch)
  PROVE  FrameOk' /\ WindowExact' /\ ChromaSited'
<1> DEFINE w == WindowWidth
           h == WindowHeight
           n == pictures + 1
           luma == LumaOut(n, Shown(format), pitch, w, h)
           chroma(byte) == ChromaOut(n, Shown(format), pitch, Half(w), Half(h), byte)
<1>1. /\ format \in FormatRecords /\ geometry = Shown(format) /\ format' = format
      /\ format.left \in Nat /\ format.top \in Nat
      /\ format.cw \in Nat /\ format.ch \in Nat /\ pitch \in Nat /\ n \in Nat
  BY PlanesAssumption DEF FormatOk, FrameOk, FormatRecords, DisplayCallback
<1>2. /\ w \in Nat /\ h \in Nat
      /\ w > 0 => format.left + w <= format.cw
      /\ h > 0 => format.top + h <= format.ch
      /\ Out(geometry.cw, geometry.w, geometry.left) = w
      /\ Out(geometry.ch, geometry.h, geometry.top) = h
  <2>1. /\ geometry.cw = format.cw /\ geometry.left = format.left
        /\ geometry.ch = format.ch /\ geometry.top = format.top
    BY <1>1 DEF Shown
  <2>2. QED
    BY <1>1, <2>1, WindowSize DEF WindowWidth, WindowHeight
<1>3. Half(w) \in Nat /\ Half(h) \in Nat /\ Half(format.cw) \in Nat /\ Half(format.ch) \in Nat
  BY <1>1, <1>2, HalfType
<1>4. pitch >= 2 * Half(format.cw) /\ pitch >= format.cw
  <2>1. pitch >= 2 * Half(format.cw)
    BY <1>1 DEF DisplayCallback, Shown
  <2>2. QED
    BY <1>1, <1>3, <2>1, HalfType
<1>5. /\ pictures' = n
      /\ frame' = [source |-> "nvdec", y |-> Plane(w, w * h, luma),
                   u |-> Plane(Half(w), Half(w) * Half(h), chroma(0)),
                   v |-> Plane(Half(w), Half(w) * Half(h), chroma(1))]
  BY <1>1, <1>2 DEF DisplayCallback
<1>6. \A r \in Nat, c \in Nat :
        r < h /\ c < w =>
          luma[r * w + c] = Sample(n, "y", format.left + c, format.top + r)
  <2> HIDE DEF w, h, n
  <2>1. IsWindow(luma, n, format, w, h)
    BY <1>1, <1>2, <1>4, LumaPlace
  <2> HIDE DEF luma
  <2>2. QED
    BY <2>1 DEF IsWindow
<1>7. ASSUME NEW r \in Nat, NEW c \in Nat, r < Half(h), c < Half(w), NEW byte \in {0, 1}
      PROVE  chroma(byte)[r * Half(w) + c]
               = Sample(n, IF byte = 0 THEN "u" ELSE "v",
                        ChromaOffset(format.left) + c, ChromaOffset(format.top) + r)
  <2>1. w > 0 /\ h > 0
    BY <1>2, <1>7 DEF Half
  <2>2. /\ ChromaOffset(format.left) + c < Half(format.cw)
        /\ ChromaOffset(format.top) + r < Half(format.ch)
    BY <1>1, <1>2, <1>7, <2>1, ChromaColumn
  <2>3. QED
    BY <1>1, <1>3, <1>4, <1>7, <2>2, ChromaPlace
<1> HIDE DEF w, h, n, luma, chroma
<1>8. Owned(frame'.y, n)
  <2>1. ASSUME NEW i \in 0..(w * h - 1) PROVE luma[i].picture = n
    <3>1. PICK r \in Nat, c \in Nat : r < h /\ c < w /\ i = r * w + c
      BY <1>2, PlaceOf
    <3>2. luma[r * w + c] = Sample(n, "y", format.left + c, format.top + r)
      BY <1>6, <3>1
    <3>3. QED
      BY <3>1, <3>2 DEF Sample
  <2>2. w * h \in Nat
    BY <1>2, SMT
  <2>3. QED
    BY <1>2, <1>5, <2>1, <2>2 DEF Owned, Plane
<1>9. Owned(frame'.u, n) /\ Owned(frame'.v, n)
  <2>1. ASSUME NEW i \in 0..(Half(w) * Half(h) - 1), NEW byte \in {0, 1}
        PROVE  chroma(byte)[i].picture = n
    <3>1. PICK r \in Nat, c \in Nat : r < Half(h) /\ c < Half(w) /\ i = r * Half(w) + c
      BY <1>3, PlaceOf
    <3>2. chroma(byte)[r * Half(w) + c]
            = Sample(n, IF byte = 0 THEN "u" ELSE "v",
                     ChromaOffset(format.left) + c, ChromaOffset(format.top) + r)
      BY <1>7, <3>1
    <3>3. QED
      BY <3>1, <3>2 DEF Sample
  <2>2. Half(w) * Half(h) \in Nat
    BY <1>3, SMT
  <2>3. QED
    BY <1>3, <1>5, <2>1, <2>2 DEF Owned, Plane
<1>10. FrameOk'
  BY <1>1, <1>5, <1>8, <1>9 DEF FrameOk, Owned, n
<1>11. WindowExact'
  <2>1. frame'.y.len = w * h /\ frame'.y.stride = w /\ frame'.y.data = luma
    BY <1>5 DEF Plane
  <2>2. ASSUME NEW x \in format.left..(Right(format) - 1),
               NEW y \in format.top..(Bottom(format) - 1)
        PROVE  luma[(y - format.top) * w + x - format.left] = Sample(n, "y", x, y)
    <3>1. /\ x - format.left \in Nat /\ x - format.left < w
          /\ y - format.top \in Nat /\ y - format.top < h
          /\ x \in Nat /\ y \in Nat
      BY <1>1 DEF w, h, WindowWidth, WindowHeight, Monus, Right, Bottom, Lesser, FormatRecords
    <3>2. luma[(y - format.top) * w + (x - format.left)]
            = Sample(n, "y", format.left + (x - format.left), format.top + (y - format.top))
      BY <1>6, <3>1
    <3>3. (y - format.top) * w \in Nat
      BY <1>2, <3>1, SMT
    <3>4. (y - format.top) * w + x - format.left = (y - format.top) * w + (x - format.left)
      BY <1>1, <3>1, <3>3
    <3>5. format.left + (x - format.left) = x /\ format.top + (y - format.top) = y
      BY <1>1, <3>1
    <3>6. QED
      BY <3>2, <3>4, <3>5
  <2>3. WindowWidth' = w /\ WindowHeight' = h
    BY <1>1 DEF w, h, WindowWidth, WindowHeight
  <2>4. QED
    BY <1>1, <1>5, <2>1, <2>2, <2>3 DEF WindowExact
<1>12. ChromaSited'
  <2>1. /\ frame'.u.stride = Half(w) /\ frame'.u.data = chroma(0)
        /\ frame'.v.data = chroma(1)
    BY <1>5 DEF Plane
  <2>2. ASSUME NEW x \in 0..(w - 1), NEW y \in 0..(h - 1)
        PROVE  LET at == (y \div 2) * Half(w) + (x \div 2)
                   cx == (format.left + x) \div 2
                   cy == (format.top + y) \div 2
               IN /\ chroma(1)[at] = [chroma(0)[at] EXCEPT !.plane = "v"]
                  /\ \E dx \in 0..(format.left % 2), dy \in 0..(format.top % 2) :
                       chroma(0)[at] = Sample(n, "u", cx - dx, cy - dy)
    <3> DEFINE at == (y \div 2) * Half(w) + (x \div 2)
               C == ChromaOffset(format.left) + (x \div 2)
               R == ChromaOffset(format.top) + (y \div 2)
    <3>1. /\ x \div 2 \in Nat /\ x \div 2 < Half(w) /\ x \in Nat
          /\ y \div 2 \in Nat /\ y \div 2 < Half(h) /\ y \in Nat
      BY <1>2 DEF Half
    <3>2. chroma(0)[at] = Sample(n, "u", C, R) /\ chroma(1)[at] = Sample(n, "v", C, R)
      BY <1>7, <3>1
    <3>3. PICK dx \in 0..(format.left % 2) : C = (format.left + x) \div 2 - dx
      BY <1>1, <3>1, ChromaNeighbour
    <3>4. PICK dy \in 0..(format.top % 2) : R = (format.top + y) \div 2 - dy
      BY <1>1, <3>1, ChromaNeighbour
    <3> HIDE DEF at, C, R
    <3>5. chroma(1)[at] = [chroma(0)[at] EXCEPT !.plane = "v"]
      BY <3>2 DEF Sample
    <3>6. chroma(0)[at] = Sample(n, "u", (format.left + x) \div 2 - dx,
                                         (format.top + y) \div 2 - dy)
      BY <3>2, <3>3, <3>4
    <3>7. QED
      BY <3>5, <3>6 DEF at
  <2>3. WindowWidth' = w /\ WindowHeight' = h
    BY <1>1 DEF w, h, WindowWidth, WindowHeight
  <2>4. QED
    BY <1>1, <1>5, <2>1, <2>2, <2>3 DEF ChromaSited
<1>13. QED
  BY <1>10, <1>11, <1>12

\* A client's frame owns its samples, however its planes are laid out.
LEMMA MakeStep ==
  ASSUME FrameOk, NEW f \in Frames, MakeFrame(f)
  PROVE  FrameOk' /\ frame'.source = "client"
<1> DEFINE n == pictures + 1
<1>1. f.y \in Nat /\ f.ylen \in Nat /\ f.c \in Nat /\ f.clen \in Nat /\ n \in Nat
  BY PlanesAssumption DEF FrameOk
<1>2. ASSUME NEW name, NEW stride \in Nat, NEW len \in Nat
      PROVE  Owned(ClientPlane(n, name, stride, len), n)
  BY <1>2 DEF Owned, ClientPlane, Plane, Sample
<1>3. /\ pictures' = n
      /\ frame' = [source |-> "client", y |-> ClientPlane(n, "y", f.y, f.ylen),
                   u |-> ClientPlane(n, "u", f.c, f.clen),
                   v |-> ClientPlane(n, "v", f.c, f.clen)]
  BY DEF MakeFrame
<1> HIDE DEF n
<1>4. Owned(frame'.y, n) /\ Owned(frame'.u, n) /\ Owned(frame'.v, n)
  BY <1>1, <1>2, <1>3
<1>5. n # 0
  BY <1>1 DEF FrameOk, n
<1>6. QED
  BY <1>1, <1>3, <1>4, <1>5 DEF FrameOk, Owned

\* A row that is there, of those a whole plane has.
LEMMA WholeRow ==
  ASSUME NEW stride \in Nat, NEW len \in Nat, NEW w \in Nat, NEW h \in Nat,
         len >= (h - 1) * stride + w, NEW r \in Nat, r < h
  PROVE  r * stride \in Nat /\ r * stride + w <= len
<1>1. r <= h - 1 /\ h - 1 \in Nat
  OBVIOUS
<1>2. r * stride <= (h - 1) * stride
  BY <1>1, ProductGrows
<1>3. r * stride \in Nat /\ (h - 1) * stride \in Nat
  BY <1>1, SMT
<1>4. QED
  BY <1>2, <1>3

\* upload_nv12 puts every sample of the frame in its place of the input
\* buffer, and leaves the rows it cannot fill as they were.
LEMMA UploadStep ==
  ASSUME FrameOk, BufferOk, NEW pitch \in Pitches, UploadNv12(pitch)
  PROVE  BufferOk' /\ UploadExact' /\ WholeRows'
<1> DEFINE b == Locked(pitch)
           p == b.pitch
           old == b.data
           rows == Height + Half(Height)
           data == [o \in 0..(p * rows - 1) |->
                      IF o < p * Height
                        THEN LumaByte(frame, old[o], o \div p, o % p)
                        ELSE ChromaByte(frame, old[o], (o \div p) - Height, o % p)]
<1>1. /\ pitch \in Nat /\ Width \in Nat /\ Height \in Nat
      /\ Half(Width) \in Nat /\ Half(Height) \in Nat /\ rows \in Nat
      /\ 2 * Half(Width) >= Width /\ pitch >= 2 * Half(Width)
  BY PlanesAssumption, HalfType DEF UploadNv12
<1>2. /\ b = [pitch |-> p, data |-> old] /\ p \in Nat
      /\ Sized(p, old) /\ Rowwise(p, old)
  <2>1. CASE buffer.pitch # 0
    BY <2>1 DEF Locked, BufferOk
  <2>2. CASE buffer.pitch = 0
    <3>1. p = pitch /\ old = [o \in 0..(pitch * rows - 1) |-> Undefined]
      BY <2>2 DEF Locked
    <3>2. b = [pitch |-> p, data |-> old]
      BY <2>2 DEF Locked
    <3>3. ASSUME NEW y \in 0..(Height - 1), NEW x \in 0..(Width - 1)
          PROVE  y * pitch + x \in 0..(pitch * rows - 1)
      <4>1. y \in Nat /\ x \in Nat /\ y < rows /\ x < pitch
        BY <1>1
      <4> HIDE DEF rows
      <4>2. QED
        BY <1>1, <4>1, Place
    <3>4. ASSUME NEW y \in 0..(Height - 1), NEW x \in 0..(Width - 1)
          PROVE  old[y * p + x].picture = old[y * p].picture
      <4>1. y * pitch + 0 \in 0..(pitch * rows - 1)
        BY <1>1, <3>3
      <4>2. y * pitch + 0 = y * pitch
        BY <1>1, SMT
      <4> HIDE DEF b, rows
      <4>3. old[y * pitch + x] = Undefined /\ old[y * pitch] = Undefined
        BY <3>1, <3>3, <4>1, <4>2
      <4>4. QED
        BY <3>1, <4>3
    <3>5. QED
      BY <1>1, <3>1, <3>2, <3>4 DEF Sized, Rowwise
  <2>3. QED
    BY <2>1, <2>2
<1>3. /\ buffer' = [pitch |-> p, data |-> data]
      /\ pictures' = pictures /\ frame' = frame
  <2>1. DOMAIN old = 0..(p * rows - 1)
    BY <1>2 DEF Sized
  <2>2. [b EXCEPT !.data = data] = [pitch |-> p, data |-> data]
    <3> HIDE DEF data, old, p, b
    <3>1. QED
      BY <1>2
  <2>3. QED
    BY <2>1, <2>2 DEF UploadNv12
<1>4. p >= 2 * Half(Width) /\ p >= Width
  BY <1>1, <1>2 DEF Sized
<1> HIDE DEF b, old, p
<1>5. ASSUME NEW y \in Nat, NEW x \in Nat, y < Height, x < Width
      PROVE  data[y * p + x] = LumaByte(frame, old[y * p + x], y, x)
  <2> DEFINE o == y * p + x
  <2>1. x < p /\ y < rows
    BY <1>1, <1>2, <1>4, <1>5
  <2>2. o \in 0..(p * rows - 1) /\ o \div p = y /\ o % p = x
    <3> HIDE DEF rows
    <3>1. IsPlace(p, rows, y, x)
      BY <1>1, <1>2, <1>5, <2>1, PlaceIn
    <3>2. QED
      BY <3>1 DEF IsPlace
  <2>3. o \in 0..(p * Height - 1)
    BY <1>1, <1>2, <1>5, <2>1, Place
  <2>4. o < p * Height
    BY <1>1, <1>2, <2>3, SMT
  <2> HIDE DEF o, rows
  <2>5. data[o] = LumaByte(frame, old[o], y, x)
    BY <2>2, <2>4
  <2>6. QED
    BY <2>5 DEF o
<1>6. ASSUME NEW r \in Nat, NEW x \in Nat, r < Half(Height), x < 2 * Half(Width)
      PROVE  data[(Height + r) * p + x]
               = ChromaByte(frame, old[(Height + r) * p + x], r, x)
  <2> DEFINE y == Height + r
             o == y * p + x
  <2>1. x < p /\ y \in Nat /\ y < rows /\ y - Height = r /\ Height <= y
    BY <1>1, <1>2, <1>4, <1>6
  <2> HIDE DEF rows, y
  <2>2. o \in 0..(p * rows - 1) /\ o \div p = y /\ o % p = x
    <3>1. IsPlace(p, rows, y, x)
      BY <1>1, <1>2, <1>6, <2>1, PlaceIn
    <3>2. QED
      BY <3>1 DEF IsPlace
  <2>3. ~(o < p * Height)
    <3>1. Height * p <= y * p
      BY <1>1, <1>2, <2>1, ProductGrows
    <3>2. Height * p = p * Height /\ y * p \in Nat /\ p * Height \in Nat
      BY <1>1, <1>2, <2>1, SMT
    <3>3. QED
      BY <3>1, <3>2
  <2> HIDE DEF o
  <2>4. data[o] = ChromaByte(frame, old[o], r, x)
    BY <2>1, <2>2, <2>3
  <2>5. QED
    BY <2>4 DEF o, y
<1>7. buffer'.pitch = p /\ buffer'.data = data
  BY <1>3
<1> HIDE DEF data, rows
<1>8. ASSUME NEW y \in Nat, NEW x \in Nat, y < Height, x < Width, RowThere(frame.y, y, x)
      PROVE  /\ data[y * p + x] = frame.y.data[y * frame.y.stride + x]
             /\ data[y * p + x].picture = pictures
  <2>1. data[y * p + x] = frame.y.data[y * frame.y.stride + x]
    BY <1>5, <1>8 DEF LumaByte, At
  <2>2. y * frame.y.stride \in Nat /\ frame.y.len \in Nat
    BY SMT DEF FrameOk, Owned
  <2>3. y * frame.y.stride + x \in 0..(frame.y.len - 1)
    BY <1>1, <1>8, <2>2 DEF RowThere
  <2>4. QED
    BY <2>1, <2>3 DEF FrameOk, Owned
<1>9. ASSUME NEW y \in Nat, NEW x \in Nat, y < Height, x < Width, ~RowThere(frame.y, y, x)
      PROVE  data[y * p + x] = old[y * p + x]
  BY <1>5, <1>9 DEF LumaByte
<1>10. Rowwise(p, data)
  <2> SUFFICES ASSUME NEW y \in 0..(Height - 1), NEW x \in 0..(Width - 1)
               PROVE  data[y * p + x].picture = data[y * p].picture
    BY DEF Rowwise
  <2>1. y \in Nat /\ x \in Nat /\ y < Height /\ x < Width /\ 0 < Width
    BY <1>1
  <2>2. y * p + 0 = y * p
    BY <1>2, <2>1, SMT
  <2>3. RowThere(frame.y, y, x) <=> RowThere(frame.y, y, 0)
    BY DEF RowThere
  <2>4. CASE RowThere(frame.y, y, x)
    <3>1. data[y * p + x].picture = pictures
      BY <1>8, <2>1, <2>4
    <3>2. data[y * p + 0].picture = pictures
      BY <1>8, <2>1, <2>3, <2>4
    <3>3. QED
      BY <2>2, <3>1, <3>2
  <2>5. CASE ~RowThere(frame.y, y, x)
    <3>1. data[y * p + x] = old[y * p + x]
      BY <1>9, <2>1, <2>5
    <3>2. data[y * p + 0] = old[y * p + 0]
      BY <1>9, <2>1, <2>3, <2>5
    <3>3. old[y * p + x].picture = old[y * p].picture
      BY <1>2 DEF Rowwise
    <3>4. QED
      BY <2>2, <3>1, <3>2, <3>3
  <2>6. QED
    BY <2>4, <2>5
<1>11. BufferOk'
  <2>1. DOMAIN data = 0..(p * (Height + Half(Height)) - 1)
    BY DEF data, rows
  <2>2. Sized(p, data)
    BY <1>4, <2>1 DEF Sized
  <2>3. QED
    BY <1>2, <1>3, <1>7, <1>10, <2>2 DEF BufferOk
<1>12. ASSUME NEW r \in Nat, NEW x \in Nat, r < Half(Height), x < 2 * Half(Width)
       PROVE  LET plane == IF x % 2 = 0 THEN frame.u ELSE frame.v
                  at == r * plane.stride + (x \div 2)
                  s == data[(Height + r) * p + x]
              IN /\ at < plane.len => s = plane.data[at] /\ s.picture = pictures
                 /\ ~(at < plane.len) => s = Grey
  <2> DEFINE plane == IF x % 2 = 0 THEN frame.u ELSE frame.v
             at == r * plane.stride + (x \div 2)
             s == data[(Height + r) * p + x]
  <2>1. s = IF at < plane.len THEN plane.data[at] ELSE Grey
    <3>1. ~(x >= 2 * Half(Width))
      BY <1>1, <1>12
    <3>2. s = ChromaByte(frame, old[(Height + r) * p + x], r, x)
      BY <1>6, <1>12
    <3>3. QED
      BY <3>1, <3>2 DEF ChromaByte, At
  <2>2. Owned(plane, pictures)
    BY DEF FrameOk
  <2> HIDE DEF plane, s
  <2>3. at \in Nat /\ plane.len \in Nat
    <3>1. r * plane.stride \in Nat
      BY <1>12, <2>2, SMT DEF Owned
    <3>2. QED
      BY <1>12, <2>2, <3>1 DEF Owned
  <2> HIDE DEF at
  <2>4. at < plane.len => plane.data[at].picture = pictures
    BY <2>2, <2>3 DEF Owned
  <2>5. /\ at < plane.len => s = plane.data[at] /\ s.picture = pictures
        /\ ~(at < plane.len) => s = Grey
    BY <2>1, <2>4
  <2>6. QED
    BY <2>5 DEF plane, at, s
<1>13. UploadExact'
  <2> SUFFICES ASSUME Whole(frame.y, Width, Height),
                      Whole(frame.u, Half(Width), Half(Height)),
                      Whole(frame.v, Half(Width), Half(Height)),
                      NEW y \in 0..(Height - 1), NEW x \in 0..(Width - 1)
               PROVE  /\ data[y * p + x] = frame.y.data[y * frame.y.stride + x]
                      /\ data[(Height + (y \div 2)) * p + (2 * (x \div 2))]
                           = frame.u.data[(y \div 2) * frame.u.stride + (x \div 2)]
                      /\ data[(Height + (y \div 2)) * p + (2 * (x \div 2) + 1)]
                           = frame.v.data[(y \div 2) * frame.v.stride + (x \div 2)]
    BY <1>3, <1>7 DEF UploadExact, Visible
  <2> DEFINE r == y \div 2
             cx == x \div 2
  <2>1. /\ y \in Nat /\ x \in Nat /\ y < Height /\ x < Width
        /\ r \in Nat /\ r < Half(Height) /\ cx \in Nat /\ cx < Half(Width)
    BY <1>1 DEF Half
  <2>2. data[y * p + x] = frame.y.data[y * frame.y.stride + x]
    <3>1. RowThere(frame.y, y, x)
      BY <1>1, <2>1, WholeRow DEF Whole, RowThere, FrameOk, Owned
    <3>2. QED
      BY <1>8, <2>1, <3>1
  <2>3. ASSUME NEW plane, Owned(plane, pictures), Whole(plane, Half(Width), Half(Height))
        PROVE  r * plane.stride + cx < plane.len
    <3>1. r * plane.stride \in Nat /\ r * plane.stride + Half(Width) <= plane.len
      BY <1>1, <2>1, <2>3, WholeRow DEF Whole, Owned
    <3>2. QED
      BY <1>1, <2>1, <2>3, <3>1 DEF Owned
  <2>4. /\ r * frame.u.stride + cx < frame.u.len
        /\ r * frame.v.stride + cx < frame.v.len
    BY <2>3 DEF FrameOk
  <2>5. /\ 2 * cx \in Nat /\ 2 * cx < 2 * Half(Width)
        /\ (2 * cx) % 2 = 0 /\ (2 * cx) \div 2 = cx
        /\ 2 * cx + 1 \in Nat /\ 2 * cx + 1 < 2 * Half(Width)
        /\ (2 * cx + 1) % 2 = 1 /\ (2 * cx + 1) \div 2 = cx
    <3> HIDE DEF cx
    <3>1. QED
      BY <1>1, <2>1
  <2> HIDE DEF r, cx
  <2>6. data[(Height + r) * p + (2 * cx)] = frame.u.data[r * frame.u.stride + cx]
    BY <1>12, <2>1, <2>4, <2>5
  <2>7. data[(Height + r) * p + (2 * cx + 1)] = frame.v.data[r * frame.v.stride + cx]
    BY <1>12, <2>1, <2>4, <2>5
  <2>8. QED
    BY <2>2, <2>6, <2>7 DEF r, cx
<1>14. WholeRows'
  <2> SUFFICES ASSUME NEW y \in 0..(Height - 1)
               PROVE  /\ \A x \in 0..(Width - 1) :
                           data[y * p + x].picture = data[y * p + 0].picture
                      /\ \A x \in 0..(2 * Half(Width) - 1) :
                           \/ data[(Height + (y \div 2)) * p + x] = Grey
                           \/ data[(Height + (y \div 2)) * p + x].picture = pictures
    BY <1>3, <1>7 DEF WholeRows, Visible
  <2> DEFINE r == y \div 2
  <2>1. r \in Nat /\ r < Half(Height) /\ y \in Nat
    BY <1>1 DEF Half
  <2>2. y * p + 0 = y * p
    BY <1>2, <2>1, SMT
  <2>3. \A x \in 0..(Width - 1) : data[y * p + x].picture = data[y * p + 0].picture
    BY <1>10, <2>2 DEF Rowwise
  <2> HIDE DEF r
  <2>4. ASSUME NEW x \in 0..(2 * Half(Width) - 1)
        PROVE  \/ data[(Height + r) * p + x] = Grey
               \/ data[(Height + r) * p + x].picture = pictures
    <3>1. x \in Nat /\ x < 2 * Half(Width)
      BY <1>1
    <3>2. QED
      BY <1>12, <2>1, <3>1
  <2>5. QED
    BY <2>3, <2>4 DEF r
<1>15. QED
  BY <1>11, <1>13, <1>14

-----------------------------------------------------------------------------
(* The theorems.                                                           *)

\* Every step keeps the invariant.
LEMMA PlanesStep == IInv /\ [PlanesNext]_planesVars => IInv'
<1> SUFFICES ASSUME IInv, [PlanesNext]_planesVars PROVE IInv'
  OBVIOUS
<1>1. FormatOk /\ FrameOk /\ BufferOk
  BY DEF IInv
<1>2. ASSUME NEW f \in Formats, SeqCallback(f) PROVE IInv'
  <2>1. /\ UNCHANGED <<pictures, frame, buffer, uploaded>>
        /\ frame.source = "none"
    BY <1>1, <1>2 DEF SeqCallback, FrameOk
  <2>2. FormatOk'
    BY <1>2, PlanesAssumption DEF SeqCallback, FormatOk, Shown
  <2>3. FrameOk' /\ BufferOk'
    BY <1>1, <2>1 DEF FrameOk, Owned, BufferOk, Sized, Rowwise
  <2>4. UploadExact' /\ WholeRows'
    BY <2>1 DEF IInv, UploadExact, WholeRows, Visible, Whole
  <2>5. WindowExact' /\ ChromaSited'
    BY <2>1 DEF WindowExact, ChromaSited
  <2>6. QED
    BY <2>2, <2>3, <2>4, <2>5 DEF IInv
<1>3. ASSUME NEW pitch \in Pitches, DisplayCallback(pitch) PROVE IInv'
  <2>1. FrameOk' /\ WindowExact' /\ ChromaSited'
    BY <1>1, <1>3, DisplayStep
  <2>2. FormatOk' /\ BufferOk' /\ ~uploaded'
    BY <1>1, <1>3 DEF DisplayCallback, FormatOk, BufferOk, Sized, Rowwise
  <2>3. QED
    BY <2>1, <2>2 DEF IInv, UploadExact, WholeRows
<1>4. ASSUME NEW pitch \in Pitches, UploadNv12(pitch) PROVE IInv'
  <2>1. BufferOk' /\ UploadExact' /\ WholeRows'
    BY <1>1, <1>4, UploadStep
  <2>2. UNCHANGED <<format, geometry, pictures, frame>>
    BY <1>4 DEF UploadNv12
  <2>3. FormatOk' /\ FrameOk'
    BY <1>1, <2>2 DEF FormatOk, FrameOk, Owned
  <2>4. WindowExact' /\ ChromaSited'
    BY <2>2 DEF IInv, WindowExact, ChromaSited, WindowWidth, WindowHeight
  <2>5. QED
    BY <2>1, <2>3, <2>4 DEF IInv
<1>5. ASSUME NEW f \in Frames, MakeFrame(f) PROVE IInv'
  <2>1. FrameOk' /\ frame'.source = "client"
    BY <1>1, <1>5, MakeStep
  <2>2. FormatOk' /\ BufferOk' /\ ~uploaded'
    BY <1>1, <1>5 DEF MakeFrame, FormatOk, BufferOk, Sized, Rowwise
  <2>3. QED
    BY <2>1, <2>2 DEF IInv, WindowExact, ChromaSited, UploadExact, WholeRows
<1>6. CASE UNCHANGED planesVars
  <2>1. FormatOk' /\ FrameOk' /\ BufferOk'
    BY <1>1, <1>6 DEF planesVars, FormatOk, FrameOk, Owned, BufferOk, Sized, Rowwise
  <2>2. WindowExact' /\ ChromaSited'
    BY <1>6 DEF IInv, planesVars, WindowExact, ChromaSited, WindowWidth, WindowHeight
  <2>3. UploadExact' /\ WholeRows'
    BY <1>6 DEF IInv, planesVars, UploadExact, WholeRows, Visible, Whole
  <2>4. QED
    BY <2>1, <2>2, <2>3 DEF IInv
<1>7. QED
  BY <1>2, <1>3, <1>4, <1>5, <1>6 DEF PlanesNext

\* The inductive invariant holds throughout.
THEOREM PlanesInvariant == PlanesSpec => []IInv
<1>1. PlanesInit => IInv
  BY PlanesStart
<1>2. IInv /\ [PlanesNext]_planesVars => IInv'
  BY PlanesStep
<1>3. QED
  BY <1>1, <1>2, PTL DEF PlanesSpec

\* The crop of display_callback is exact for every coded size, window and
\* pitch: each sample of a frame is the one at its place in the window.
THEOREM WindowsAreExact == PlanesSpec => []WindowExact
<1>1. IInv => WindowExact
  BY DEF IInv
<1>2. QED
  BY <1>1, PlanesInvariant, PTL

\* The chroma of a decoded frame is the coded one, at most one place to the
\* left and above where the luma lies, for every window.
THEOREM ChromaIsSited == PlanesSpec => []ChromaSited
<1>1. IInv => ChromaSited
  BY DEF IInv
<1>2. QED
  BY <1>1, PlanesInvariant, PTL

\* upload_nv12 hands NVENC the frame it was given, for every size of picture
\* and every stride, whatever an earlier frame left in the buffer.
THEOREM UploadsAreExact == PlanesSpec => []UploadExact
<1>1. IInv => UploadExact
  BY DEF IInv
<1>2. QED
  BY <1>1, PlanesInvariant, PTL

\* No row of luma in NVENC's buffer mixes two pictures and no chroma is an
\* older picture's, however short the planes of the frames are.
THEOREM RowsAreWhole == PlanesSpec => []WholeRows
<1>1. IInv => WholeRows
  BY DEF IInv
<1>2. QED
  BY <1>1, PlanesInvariant, PTL
=============================================================================
