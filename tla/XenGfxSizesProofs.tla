--------------------------- MODULE XenGfxSizesProofs ---------------------------
(***************************************************************************)
(* What the arithmetic of the driver gives, for every width of a word,     *)
(* size of a page and alignment that satisfy SizesAssumption.              *)
(***************************************************************************)
EXTENDS XenGfxSizes, TLAPS

USE SizesAssumption

LEMMA ProductGrows ==
  ASSUME NEW a \in Nat, NEW b \in Nat, NEW c \in Nat, a <= b
  PROVE  a * c <= b * c /\ a * c \in Nat
<1>1. \E d \in Nat : b = a + d
  <2> WITNESS b - a \in Nat
  <2> QED
    OBVIOUS
<1> QED
  BY <1>1

\* Wrapping never makes a number larger, and leaves a small one alone.
LEMMA WrapBounds ==
  ASSUME NEW n \in Nat
  PROVE  Wrap(n) \in 0 .. Word - 1 /\ Wrap(n) <= n /\ (n < Word => Wrap(n) = n)
BY DEF Wrap

\* ALIGN rounds up by less than the alignment, if that does not wrap.
LEMMA AlignBounds ==
  ASSUME NEW n \in Nat, NEW a \in Nat \ {0}, n + a <= Word
  PROVE  Align(n, a) \in Nat /\ n <= Align(n, a) /\ Align(n, a) < n + a
<1>1. Wrap(n + a - 1) = n + a - 1
  BY DEF Wrap
<1>2. /\ (n + a - 1) \div a \in Nat
      /\ n + a - 1 = ((n + a - 1) \div a) * a + ((n + a - 1) % a)
      /\ (n + a - 1) % a \in 0 .. a - 1
  OBVIOUS
<1> QED
  BY <1>1, <1>2 DEF Align

\* A line holds its pixels, and is not much longer than they are.
LEMMA PitchBounds ==
  ASSUME NEW w \in 0 .. MaxDim, NEW bpp \in 0 .. 32
  PROVE  /\ Pitch(w, bpp) \in Nat
         /\ w * bpp <= 8 * Pitch(w, bpp)
         /\ w * PixelBytes(bpp) <= Pitch(w, bpp)
         /\ Pitch(w, bpp) <= 4 * MaxDim + PitchAlign
<1> DEFINE b == PixelBytes(bpp)
<1>1. b \in 0 .. 4 /\ bpp <= 8 * b
  BY DEF PixelBytes
<1> HIDE DEF b
<1>2. w * b \in Nat /\ w * b <= 4 * MaxDim
  BY <1>1
<1>3. w * bpp <= 8 * (w * b)
  <2>1. bpp * w <= (8 * b) * w
    BY <1>1, ProductGrows
  <2> QED
    BY <2>1, <1>1
<1>4. 4 * MaxDim + PitchAlign <= Word - Page
  <2>1. 1 * (4 * MaxDim + PitchAlign) <= MaxDim * (4 * MaxDim + PitchAlign)
    BY ProductGrows
  <2> QED
    BY <2>1
<1>5. Wrap(w * b) = w * b
  BY <1>2, <1>4, WrapBounds
<1>6. Align(w * b, PitchAlign) \in Nat /\ w * b <= Align(w * b, PitchAlign)
      /\ Align(w * b, PitchAlign) < w * b + PitchAlign
  BY <1>2, <1>4, AlignBounds
<1> QED
  BY <1>2, <1>3, <1>5, <1>6 DEF Pitch, b

\* A picture that a framebuffer may have does not wrap.
LEMMA PictureBounds ==
  ASSUME NEW w \in 0 .. MaxDim, NEW h \in 0 .. MaxDim, NEW bpp \in 0 .. 32
  PROVE  /\ PictureSize(w, h, bpp) = Pitch(w, bpp) * h
         /\ PictureSize(w, h, bpp) \in 0 .. Word - Page
<1>1. Pitch(w, bpp) \in Nat /\ Pitch(w, bpp) <= 4 * MaxDim + PitchAlign
  BY PitchBounds
<1>2. Pitch(w, bpp) * h <= (4 * MaxDim + PitchAlign) * h /\ Pitch(w, bpp) * h \in Nat
  BY <1>1, ProductGrows
<1>3. h * (4 * MaxDim + PitchAlign) <= MaxDim * (4 * MaxDim + PitchAlign)
  BY ProductGrows
<1>4. Pitch(w, bpp) * h <= Word - Page
  BY <1>2, <1>3
<1> QED
  BY <1>2, <1>4, WrapBounds DEF PictureSize

\* The console holds its pixels.
LEMMA ConsoleBounds ==
  ASSUME NEW w \in 0 .. MaxDim, NEW h \in 0 .. MaxDim
  PROVE  ConsoleSize(w, h) \in Nat /\ w * 4 * h <= ConsoleSize(w, h)
<1>1. PixelBytes(32) = 4
  BY DEF PixelBytes
<1>2. w * 4 <= Pitch(w, 32) /\ Pitch(w, 32) \in Nat
  BY <1>1, PitchBounds
<1>3. (w * 4) * h <= Pitch(w, 32) * h
  BY <1>2, ProductGrows
<1>4. PictureSize(w, h, 32) = Pitch(w, 32) * h /\ PictureSize(w, h, 32) \in 0 .. Word - Page
  BY PictureBounds
<1>5. ConsoleSize(w, h) \in Nat /\ PictureSize(w, h, 32) <= ConsoleSize(w, h)
  BY <1>4, AlignBounds DEF ConsoleSize
<1> QED
  BY <1>3, <1>4, <1>5

\* The aperture is never larger than the GART can back.
LEMMA AperBounds ==
  ASSUME NEW g \in Nat
  PROVE  AperSize(g) \in Nat /\ AperSize(g) <= Entries(g) * Page
<1>1. Page \div 4 \in Nat
  OBVIOUS
<1>2. g * ((Page \div 4) * Page) \in Nat /\ g * ((Page \div 4) * Page) = (g * (Page \div 4)) * Page
  BY <1>1
<1> QED
  BY <1>2, WrapBounds DEF AperSize, Entries

\* A mode that is valid fits the register that holds the limit.
LEMMA ValidFits ==
  ASSUME NEW d \in Nat, NEW max \in Nat, ModeValid(d, max)
  PROVE  Active(d) <= max
BY WrapBounds DEF ModeValid, Active
================================================================================
