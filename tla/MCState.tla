------------------------------ MODULE MCState ------------------------------
EXTENDS StateStorage
McLayout == <<SignaturePart, "time", "time", "sail", SignaturePart>>
=============================================================================
