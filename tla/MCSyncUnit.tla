----------------------------- MODULE MCSyncUnit -----------------------------
\* SyncUnit for TLC: image digests are interchangeable.
EXTENDS SyncUnit, TLC

DigestSymmetry == Permutations(Digest)
=============================================================================
