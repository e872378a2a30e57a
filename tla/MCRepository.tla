---------------------------- MODULE MCRepository ----------------------------
(* Instances of Repository for TLC: two daemon threads and a few snapshots. *)
EXTENDS Repository, TLC

CONSTANTS w1, w2, i1, i2

Workers == {w1, w2}
TwoIds == {i1, i2}

\* Prefixes of two ids that differ after a common start, and of one of them.
TwoIdPrefixes == {{i1}, {i1, i2}}
OneIdPrefix == {{i1}}

NoText == {}
OneText == {"a"}

\* Who is asked for what.
StoreOps == [t \in Workers |-> {"capture", "import", "delete", "favorite", "restore"}]
CaptureOps == [t \in Workers |-> {"capture"}]

\* One client edits while the scheduler captures and prunes.
OneEditor == (w1 :> {"get", "rename", "tag", "favorite", "delete"})
             @@ (w2 :> {"capture", "prune"})

ThreadSymmetry == Permutations(Workers)
=============================================================================
