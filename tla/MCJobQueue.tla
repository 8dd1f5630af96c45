----------------------------- MODULE MCJobQueue -----------------------------
EXTENDS JobQueue

=============================================================================
