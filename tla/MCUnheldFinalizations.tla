----------------------- MODULE MCUnheldFinalizations ------------------------
EXTENDS UnheldFinalizations

\* Only the first view's bytes may be such as the finalizer refuses.
MCSent == [v \in Views |-> IF v = 1 THEN Bytes ELSE {"good"}]
=============================================================================
