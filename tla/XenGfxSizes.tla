----------------------------- MODULE XenGfxSizes -----------------------------
(***************************************************************************)
(* The arithmetic of the xengfx driver: pitches and sizes of pictures      *)
(* (xengfx_gem.c, xengfx_compat_fb.c), the size of the aperture            *)
(* (xengfx_drv.c) and the limits of a CRTC (xengfx_display.c).  It is done *)
(* in 32 bits unless said otherwise.                                       *)
(***************************************************************************)
EXTENDS Integers

CONSTANTS
  Word,       \* 2^32: where unsigned arithmetic wraps
  Page,       \* PAGE_SIZE
  PitchAlign, \* the 128 bytes that a pitch is aligned to
  MaxDim      \* mode_config.max_width and max_height

\* A page of the GART has Page \div 4 entries of 32 bits.  The largest
\* picture is small against a word.
ASSUME SizesAssumption ==
  /\ Page \in Nat \ {0} /\ PitchAlign \in Nat \ {0} /\ MaxDim \in Nat \ {0}
  /\ Word \in Nat \ {0}
  /\ Word % Page = 0 /\ Word % PitchAlign = 0 /\ Page % 4 = 0
  /\ (4 * MaxDim + PitchAlign) * MaxDim + Page <= Word

Wrap(n) == n % Word

\* ALIGN(n, a), in 32 bits.
Align(n, a) == (Wrap(n + a - 1) \div a) * a

\* Mutant: a pixel of 15 bits takes one byte.
PixelBytesDown(bpp) == bpp \div 8
PixelBytes(bpp) == (bpp + 7) \div 8

\* xengfx_gem_create_ioctl and xengfx_fb_probe
Pitch(w, bpp)          == Align(Wrap(w * PixelBytes(bpp)), PitchAlign)
PictureSize(w, h, bpp) == Wrap(Pitch(w, bpp) * h)
\* Mutant: the console is computed for its depth instead of its bits per pixel.
ConsoleSizeDepth(w, h) == Align(PictureSize(w, h, 24), Page)
ConsoleSize(w, h)      == Align(PictureSize(w, h, 32), Page)

\* 1 page of GART makes 4MB of aperture.
Entries(g) == g * (Page \div 4)
AperSize(g) == Wrap(g * ((Page \div 4) * Page))

\* Mutant: max++ is done twice.
ModeValidTwice(d, max) == d <= Wrap(max + 2)

\* xengfx_connector_mode_valid: the registers hold the largest value that
\* H_ACTIVE and V_ACTIVE may get, one less than the number of pixels.
ModeValid(d, max) == d <= Wrap(max + 1)
Active(d) == d - 1
=============================================================================
