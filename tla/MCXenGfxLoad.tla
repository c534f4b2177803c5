----------------------------- MODULE MCXenGfxLoad -----------------------------
(* A small instance of XenGfxLoad for TLC: words of 14 bits, pages of 64   *)
(* bytes, pictures of up to 32 by 32 pixels.                               *)
EXTENDS XenGfxLoad

\* 1 KB of aperture, 4 KB, and so many pages that it wraps to nothing or to
\* 1 KB.
MCGartSizes == {1, 4, 16, 17}

\* One pixel less than some monitors, room for all, and a limit that wraps.
MCPanels == {[w |-> 30, h |-> 15], [w |-> 31, h |-> 31],
             [w |-> Word - 1, h |-> Word - 1]}

MCMonitors == {[w |-> 16, h |-> 16], [w |-> 31, h |-> 16], [w |-> 32, h |-> 16],
               [w |-> 32, h |-> 32]}
MCSurfaces == {[w |-> 16, h |-> 12], [w |-> 31, h |-> 16], [w |-> 32, h |-> 32]}

\* Up to the limit, and pictures that wrap to a small buffer or to none.
MCPictures ==
  [w : {1, 32}, h : {1, 32}, bpp : {8, 15, 32}]
    \cup {[w |-> Word \div 4, h |-> 1, bpp |-> 32], [w |-> 65, h |-> 64, bpp |-> 32]}
===============================================================================
