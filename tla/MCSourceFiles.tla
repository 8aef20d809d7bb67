--------------------------- MODULE MCSourceFiles ---------------------------
EXTENDS SourceFiles
=============================================================================
