------------------------------ MODULE MCUpdate ------------------------------
(***************************************************************************)
(* Constants of the model-checking run of Update.                          *)
(***************************************************************************)
EXTENDS Update

\* 26.9.28, its first revision 26.9.2801, and its second, 2026.9.28+2.
TagsDef ==
  << [major |-> 26, minor |-> 9, patch |-> 28, meta |-> NoMeta],
     [major |-> 26, minor |-> 9, patch |-> 2801, meta |-> NoMeta],
     [major |-> 2026, minor |-> 9, patch |-> 28, meta |-> << 2 >>] >>

ReleasedDef ==
  [v \in 1..3 |-> [year |-> 26, month |-> 9, day |-> 28, revision |-> v - 1]]

AssetsDef ==
  { [kind |-> "windows-portable", archs |-> {"x64"}, manifest |-> TRUE],
    [kind |-> "windows-portable", archs |-> {"aarch64"}, manifest |-> TRUE],
    [kind |-> "windows-nsis", archs |-> {"x64"}, manifest |-> TRUE],
    [kind |-> "windows-msi", archs |-> {"x64"}, manifest |-> FALSE] }
=============================================================================
