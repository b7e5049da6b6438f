------------------------ MODULE MCMultiSocketDownload ------------------------
EXTENDS MultiSocketDownload, TLC
DownloadSymmetry == Permutations(Requesters) \cup Permutations(Addresses)
=============================================================================
