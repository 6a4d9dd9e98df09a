--------------------------- MODULE MCIndexSearch ---------------------------
EXTENDS IndexSearch, MCCorpus
=============================================================================
