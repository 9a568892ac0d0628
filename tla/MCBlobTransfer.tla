----------------------------- MODULE MCBlobTransfer -----------------------------
(* Files that are received under the same name. *)
EXTENDS BlobTransfer, TLC

CONSTANTS f, g, a, b, base, second

MCBoth == {f, g}
MCOne == {f}
MCCandidates == [x \in Transfer |-> IF x = f THEN <<base, second>> ELSE <<base>>]

\* An edit in place, beside a file of one chunk.
MCTwoFiles == [x \in Transfer |-> IF x = f THEN {<<a, b>>, <<b, b>>} ELSE {<<b>>}]

\* Edits in place, cut short and grown, past the limit too; and an empty file.
MCManyVersions == [x \in Transfer |-> {<<>>, <<a>>, <<a, b>>, <<b, b>>, <<a, a, a>>}]
=============================================================================
