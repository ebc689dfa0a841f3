-------------------------- MODULE MCFileAttachments --------------------------
(* The instance of FileAttachments that TLC checks. *)
EXTENDS FileAttachments, TLC
Symmetry == Permutations(Histories) \cup Permutations(Workers)

(* Not followed beyond the second thing that went wrong. *)
Apart == Cardinality(harm) <= 1

(* One request after another, which may add a revision of a deleted file.  *)
OneByOne == harm \subseteq {"revived"}
==============================================================================
