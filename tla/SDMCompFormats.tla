--------------------------- MODULE SDMCompFormats ---------------------------
(***************************************************************************)
(* The pixel formats of libformatutils/src/formats.cpp.                    *)
(*                                                                         *)
(* BufferFormat (buffer_interface.h) is what clients speak and             *)
(* LayerBufferFormat what the display core speaks; kBufferFormatX and      *)
(* kFormatX are both written "X" here.  GetBpp and the two conversions are *)
(* three switches that have to list the same formats.                      *)
(***************************************************************************)
EXTENDS Naturals

Invalid == "Invalid"

FourBytes ==
    {"ARGB8888", "RGBA8888", "BGRA8888", "XRGB8888", "RGBX8888", "BGRX8888",
     "RGBA1010102", "ARGB2101010", "RGBX1010102", "XRGB2101010",
     "BGRA1010102", "ABGR2101010", "BGRX1010102", "XBGR2101010",
     "RGBA8888Ubwc", "RGBX8888Ubwc", "RGBA1010102Ubwc", "RGBX1010102Ubwc"}
ThreeBytes == {"RGB888", "BGR888"}
TwoBytes == {"RGB565", "BGR565", "RGBA5551", "RGBA4444", "BGR565Ubwc"}

\* The cases of the conversions, which both have for the same formats.
Tabled == FourBytes \cup ThreeBytes \cup TwoBytes

\* RGB101010 is declared for clients and is in none of the switches.
BufferFormat == Tabled \cup {"RGB101010", Invalid}

\* The bytes of a pixel, 0 for what the switch does not list.
GetBpp(f) ==
    CASE f \in FourBytes -> 4
      [] f \in ThreeBytes -> 3
      [] f \in TwoBytes -> 2
      [] OTHER -> 0

GetSDMFormat(f) == IF f \in Tabled THEN f ELSE Invalid

GetSDMCompFormat(f) == IF f \in Tabled THEN f ELSE Invalid
=============================================================================
