----------------------------- MODULE MCNtfsTree -----------------------------
EXTENDS NtfsTree

\* The arguments of the scan: what there may be of the MFT in the image.
MCImages == [1..(SlotCount + 1) -> Slot]
=============================================================================
