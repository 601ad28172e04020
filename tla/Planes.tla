------------------------------- MODULE Planes -------------------------------
(***************************************************************************)
(* Pixels on their way through the crate: seq_callback and                 *)
(* display_callback (src/src/decoder.rs) cut the display window out of an  *)
(* NV12 surface of NVDEC into an I420 frame; upload_nv12                   *)
(* (src/src/encoder.rs) writes a frame into an NV12 input buffer of NVENC, *)
(* which is used again for every frame. A sample is a record of the        *)
(* picture, the plane and the place it comes from, so that a property can  *)
(* say where every byte of an output has to come from. Planes and buffers  *)
(* are functions on offsets from 0, as in the code.                        *)
(***************************************************************************)
EXTENDS Naturals

CONSTANTS
  Formats,          \* what CUVIDEOFORMAT announces: coded size, display window
  Pitches,          \* what cuvidMapVideoFrame64 and nvEncLockInputBuffer answer
  Frames,           \* how clients lay out frames of their own: strides, lengths
  Width, Height,    \* of the encoder
  MaxPictures       \* bound: pictures that are shown or made by a client

FormatRecords ==
  [cw : Nat, ch : Nat, left : Nat, top : Nat, right : Nat, bottom : Nat]
ASSUME PlanesAssumption ==
  /\ Formats \subseteq FormatRecords /\ Pitches \subseteq Nat
  /\ Frames \subseteq [y : Nat, ylen : Nat, c : Nat, clen : Nat]
  /\ Width \in Nat /\ Height \in Nat /\ MaxPictures \in Nat

Lesser(a, b) == IF a <= b THEN a ELSE b
Monus(a, b) == IF a <= b THEN 0 ELSE a - b
Half(n) == (n + 1) \div 2                     \* div_ceil(2)

Sample(n, plane, x, y) == [picture |-> n, plane |-> plane, x |-> x, y |-> y]
Undefined == Sample(0, "none", 0, 0)          \* padding, or never written
Zero == Sample(0, "zero", 0, 0)
Grey == Sample(0, "grey", 0, 0)               \* 128

VARIABLES
  format,           \* history: the format seq_callback was given
  geometry,         \* coded_width .. display_top of CallbackState
  pictures,         \* pictures so far; the newest has this number
  frame,            \* the frame that was pushed, or made by a client, last
  buffer,           \* NVENC's input buffer
  uploaded          \* history: buffer has just been written from frame

planesVars == <<format, geometry, pictures, frame, buffer, uploaded>>

NoFormat == [cw |-> 0, ch |-> 0, left |-> 0, top |-> 0, right |-> 0, bottom |-> 0]
Plane(stride, len, data) == [stride |-> stride, len |-> len, data |-> data]
NoPlane == Plane(0, 0, <<>>)

PlanesInit ==
  /\ format = NoFormat
  /\ geometry = [cw |-> 0, ch |-> 0, w |-> 0, h |-> 0, left |-> 0, top |-> 0]
  /\ pictures = 0 /\ frame = [source |-> "none", y |-> NoPlane, u |-> NoPlane, v |-> NoPlane]
  /\ buffer = [pitch |-> 0, data |-> <<>>] /\ uploaded = FALSE

-----------------------------------------------------------------------------
(* NVDEC to I420.                                                          *)

\* The window is right - left by bottom - top; an empty one is all there is.
\* Bound: a stream has one format.
SeqCallback(f) ==
  LET w == Monus(f.right, f.left)
      h == Monus(f.bottom, f.top)
  IN /\ pictures = 0 /\ format = NoFormat /\ format' = f
     /\ geometry' = [cw |-> f.cw, ch |-> f.ch,
                     w |-> IF w = 0 THEN f.cw ELSE w,
                     h |-> IF h = 0 THEN f.ch ELSE h,
                     left |-> f.left, top |-> f.top]
     /\ UNCHANGED <<pictures, frame, buffer, uploaded>>

\* y_pitched and uv_pitched, as NVDEC fills them.
Luma(n, g, pitch, off) ==
  IF off % pitch < g.cw THEN Sample(n, "y", off % pitch, off \div pitch)
  ELSE Undefined
Chroma(n, g, pitch, off) ==
  LET x == off % pitch
  IN IF x >= 2 * Half(g.cw) THEN Undefined
     ELSE Sample(n, IF x % 2 = 0 THEN "u" ELSE "v", x \div 2, off \div pitch)

\* A change that would break WindowExact: the window is never clipped.
OutWholeWindow(coded, size, offset) == size
Out(coded, size, offset) == Lesser(size, Monus(coded, offset))

\* A change that would break ChromaSited: round the chroma offset up.
ChromaRoundUp(offset) == Half(offset)
ChromaOffset(offset) == offset \div 2

LumaOut(n, g, pitch, w, h) ==
  [i \in 0..(w * h - 1) |->
     LET src_off == (g.top + i \div w) * pitch + g.left
     IN IF src_off + w <= pitch * g.ch
          THEN Luma(n, g, pitch, src_off + (i % w)) ELSE Zero]

\* Byte 0 of a pair is U, byte 1 is V.
ChromaOut(n, g, pitch, w, h, byte) ==
  LET len == pitch * Half(g.ch)
  IN [i \in 0..(w * h - 1) |->
        LET src_off == (ChromaOffset(g.top) + i \div w) * pitch
                         + ChromaOffset(g.left) * 2
            at == src_off + 2 * (i % w)
        IN IF at + 1 < Lesser(src_off + 2 * w, len)
             THEN Chroma(n, g, pitch, at + byte) ELSE Zero]

DisplayCallback(pitch) ==
  LET g == geometry
      n == pictures + 1
      w == Out(g.cw, g.w, g.left)
      h == Out(g.ch, g.h, g.top)
      ChromaPlane(byte) == Plane(Half(w), Half(w) * Half(h),
                                 ChromaOut(n, g, pitch, Half(w), Half(h), byte))
  IN /\ g.cw > 0 /\ pitch >= 2 * Half(g.cw) /\ n <= MaxPictures
     /\ pictures' = n
     /\ frame' = [source |-> "nvdec", y |-> Plane(w, w * h, LumaOut(n, g, pitch, w, h)),
                  u |-> ChromaPlane(0), v |-> ChromaPlane(1)]
     /\ uploaded' = FALSE /\ UNCHANGED <<format, geometry, buffer>>

-----------------------------------------------------------------------------
(* I420 to NVENC.                                                          *)

\* A client's own frame: planes with strides, which may end early.
ClientPlane(n, name, stride, len) ==
  Plane(stride, len,
        [i \in 0..(len - 1) |-> Sample(n, name, i % stride, i \div stride)])
MakeFrame(f) ==
  LET n == pictures + 1
  IN /\ n <= MaxPictures /\ pictures' = n
     /\ frame' = [source |-> "client", y |-> ClientPlane(n, "y", f.y, f.ylen),
                  u |-> ClientPlane(n, "u", f.c, f.clen),
                  v |-> ClientPlane(n, "v", f.c, f.clen)]
     /\ uploaded' = FALSE /\ UNCHANGED <<format, geometry, buffer>>

\* What NVENC's buffer holds when it is locked first is not known.
Locked(pitch) ==
  IF buffer.pitch # 0 THEN buffer
  ELSE [pitch |-> pitch,
        data |-> [o \in 0..(pitch * (Height + Half(Height)) - 1) |-> Undefined]]

\* A change that would break WholeRows: copy as much of a row as there is.
RowAsFarAsItGoes(plane, row, x) == row * plane.stride + x < plane.len
RowThere(plane, row, x) == row * plane.stride + Width <= plane.len

\* A change that would break UploadExact: take the width for the stride.
PackedAt(plane, row, col, width) == row * width + col
At(plane, row, col, width) == row * plane.stride + col

LumaByte(f, old, row, x) ==
  IF x < Width /\ RowThere(f.y, row, x)
    THEN f.y.data[At(f.y, row, x, Width)] ELSE old
ChromaByte(f, old, row, x) ==
  LET plane == IF x % 2 = 0 THEN f.u ELSE f.v
      at == At(plane, row, x \div 2, Half(Width))
  IN IF x >= 2 * Half(Width) THEN old
     ELSE IF at < plane.len THEN plane.data[at] ELSE Grey

UploadNv12(pitch) ==
  LET b == Locked(pitch)
      p == b.pitch
  IN /\ pictures > 0 /\ ~uploaded /\ pitch >= 2 * Half(Width)
     /\ buffer' = [b EXCEPT !.data =
          [o \in DOMAIN b.data |->
             IF o < p * Height
               THEN LumaByte(frame, b.data[o], o \div p, o % p)
               ELSE ChromaByte(frame, b.data[o], (o \div p) - Height, o % p)]]
     /\ uploaded' = TRUE
     /\ UNCHANGED <<format, geometry, pictures, frame>>

PlanesNext ==
  \/ \E f \in Formats : SeqCallback(f)
  \/ \E pitch \in Pitches : DisplayCallback(pitch) \/ UploadNv12(pitch)
  \/ \E f \in Frames : MakeFrame(f)

PlanesSpec == PlanesInit /\ [][PlanesNext]_planesVars

-----------------------------------------------------------------------------
(* Properties                                                              *)

\* The window on the coded picture, by its edges.
Right(f) == IF f.right > f.left THEN Lesser(f.right, f.cw) ELSE f.cw
Bottom(f) == IF f.bottom > f.top THEN Lesser(f.bottom, f.ch) ELSE f.ch
WindowWidth == Monus(Right(format), format.left)
WindowHeight == Monus(Bottom(format), format.top)

\* A frame of the decoder is the part of the coded picture inside the display
\* window, sample by sample and nothing else, wherever the window lies, odd,
\* empty or reaching over the edge, and whatever the pitch of the surface.
WindowExact ==
  frame.source = "nvdec" =>
    /\ frame.y.len = WindowWidth * WindowHeight
    /\ \A x \in format.left..(Right(format) - 1),
          y \in format.top..(Bottom(format) - 1) :
         frame.y.data[(y - format.top) * frame.y.stride + x - format.left]
           = Sample(pictures, "y", x, y)

\* Every luma sample of such a frame has a chroma sample, from the coded chroma
\* plane: the one that lies on it in the coded picture if the window begins
\* at even offsets, and otherwise at most its neighbour to the left and above.
ChromaSited ==
  frame.source = "nvdec" =>
    \A x \in 0..(WindowWidth - 1), y \in 0..(WindowHeight - 1) :
      LET at == (y \div 2) * frame.u.stride + (x \div 2)
          cx == (format.left + x) \div 2
          cy == (format.top + y) \div 2
      IN /\ frame.v.data[at] = [frame.u.data[at] EXCEPT !.plane = "v"]
         /\ \E dx \in 0..(format.left % 2), dy \in 0..(format.top % 2) :
              frame.u.data[at] = Sample(pictures, "u", cx - dx, cy - dy)

\* The encoder is handed the frame: each visible byte of its input buffer is
\* the frame's sample at that place, whatever strides the planes have and
\* whatever the buffer held before, provided the planes are all there.
Visible(row, x) == buffer.data[row * buffer.pitch + x]
Whole(plane, w, h) == plane.stride >= w /\ plane.len >= (h - 1) * plane.stride + w
UploadExact ==
  uploaded /\ Whole(frame.y, Width, Height)
           /\ Whole(frame.u, Half(Width), Half(Height))
           /\ Whole(frame.v, Half(Width), Half(Height)) =>
    \A y \in 0..(Height - 1), x \in 0..(Width - 1) :
      LET C(plane) == plane.data[(y \div 2) * plane.stride + (x \div 2)]
          pair == 2 * (x \div 2)
      IN /\ Visible(y, x) = frame.y.data[y * frame.y.stride + x]
         /\ Visible(Height + (y \div 2), pair) = C(frame.u)
         /\ Visible(Height + (y \div 2), pair + 1) = C(frame.v)

\* A frame with too little in its planes overwrites rows of luma or leaves
\* them as they were, and never a part of one: no row mixes two pictures. Its
\* chroma is its own or grey, never an older picture's.
WholeRows ==
  uploaded =>
    \A y \in 0..(Height - 1) :
      /\ \A x \in 0..(Width - 1) :
           Visible(y, x).picture = Visible(y, 0).picture
      /\ \A x \in 0..(2 * Half(Width) - 1) :
           LET s == Visible(Height + (y \div 2), x)
           IN s = Grey \/ s.picture = pictures
=============================================================================
