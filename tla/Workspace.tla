----------------------------- MODULE Workspace -----------------------------
(***************************************************************************)
(* The sandboxed workspace (keel/workspace.py): a tree of files, written   *)
(* by the stages, snapshotted before a stage runs and restored when its    *)
(* output is refused.  A tree maps every path to what it holds.  What a    *)
(* file holds is abstracted to who wrote it (or that it is absent, or was  *)
(* there before the run), in which repair round, and whether the exit      *)
(* gate's content rules accept it.                                         *)
(***************************************************************************)
EXTENDS Naturals

Absent   == [by |-> "absent", gen |-> 0, ok |-> TRUE]
Original == [by |-> "original", gen |-> 0, ok |-> TRUE]

\* What a file can hold, given the ids of the stages that write.
Content(writers) ==
  [by : writers \cup {"absent", "original"}, gen : Nat, ok : BOOLEAN]

\* Workspace.write, for every path of one stage's output.
Write(tree, paths, content) ==
  [p \in DOMAIN tree |-> IF p \in paths THEN content ELSE tree[p]]

\* Workspace.restore: the whole tree back as the snapshot found it.
Restore(tree, snapshot, paths) == snapshot

\* Workspace.restore_paths: each path back to its snapshot contents, deleted
\* when the snapshot did not have it; every other file is left alone.
RestorePaths(tree, snapshot, paths) ==
  [p \in DOMAIN tree |-> IF p \in paths THEN snapshot[p] ELSE tree[p]]
=============================================================================
