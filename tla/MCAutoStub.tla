------------------------------ MODULE MCAutoStub ------------------------------
(* Small instances of AutoStub for TLC.                                    *)
EXTENDS AutoStub

CONSTANTS f, g

\* Both functions, in either order; one; none.
SomeRankings == {<<f, g>>, <<g, f>>, <<f>>, <<>>}
=============================================================================
