--------------------------- MODULE MCDatabaseCopy ---------------------------
(* The keys of table 1 are small.  Keys 1 and 2 of table 2 stand for 2^53+3 *)
(* and 2^53+4: the first is rounded up to the second in the checkpoint.     *)
EXTENDS DatabaseCopy, TLC

CONSTANTS c1, c2

DecodedKeys == <<(<<1, 2>>), (<<2, 2>>)>>
Batches == (c1 :> 2 @@ c2 :> 0)
FirstRows == <<(<<1, 1>>), (<<1, 0>>)>>
\* An update, a delete, an update that cannot be converted, an insert.
SomeWrites == <<(<<{2}, {0}>>), (<<{3}, {1}>>)>>
=============================================================================
