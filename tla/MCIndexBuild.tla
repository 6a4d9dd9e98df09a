--------------------------- MODULE MCIndexBuild ---------------------------
EXTENDS IndexBuild, MCCorpus
=============================================================================
