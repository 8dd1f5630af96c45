--------------------------- MODULE MCStreamWriter ---------------------------
EXTENDS StreamWriter

=============================================================================
