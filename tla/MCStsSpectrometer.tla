------------------------- MODULE MCStsSpectrometer -------------------------
(* The instance of StsSpectrometer that TLC checks.                        *)
EXTENDS StsSpectrometer

\* A time in the range and one above it; the configured one is below it.
TimesMC == 2 .. 3
=============================================================================
