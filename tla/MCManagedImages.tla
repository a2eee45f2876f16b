--------------------------- MODULE MCManagedImages ---------------------------
\* Instances of ManagedImages for TLC.
EXTENDS ManagedImages
=============================================================================
