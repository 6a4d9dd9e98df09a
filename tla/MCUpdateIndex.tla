--------------------------- MODULE MCUpdateIndex ---------------------------
EXTENDS UpdateIndex, MCCorpus
=============================================================================
