SPECIFICATION Spec
INVARIANTS LatencySuffices
