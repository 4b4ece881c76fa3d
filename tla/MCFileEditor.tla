---------------------------- MODULE MCFileEditor ----------------------------
EXTENDS FileEditor, TLC
CONSTANTS e1, e2
TwoEditors == {e1, e2}
Perms == Permutations(TwoEditors)
=============================================================================
