-------------------------- MODULE MCSparseNgrams --------------------------
EXTENDS SparseNgrams
=============================================================================
