------------------------- MODULE MCProgressionPanel -------------------------
(* One notebook; its events with and without markdown cells. *)
EXTENDS ProgressionPanel, TLC

MCPayloads ==
  [kind : {"cell-executed"}, notebook : Notebooks, markdown : {FALSE}]
    \cup [kind : {"notebook-context"}, notebook : Notebooks, markdown : BOOLEAN]

MessageSymmetry == Permutations(MessageIds)
=============================================================================
