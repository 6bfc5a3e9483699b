--------------------------- MODULE MCUserService ---------------------------
(***************************************************************************)
(* Instances of UserService for TLC.                                       *)
(***************************************************************************)
EXTENDS UserService, TLC

CONSTANTS n1, n2, a1

\* A name with white space around it, and a blank one.
MCNameInputs == {[text |-> n1, form |-> "padded"], [text |-> n1, form |-> "blank"]}

\* Three spellings of one address, and a string that is no address.
MCEmailInputs == [addr : {a1}, form : {"plain", "variant", "display", "malformed"}]

\* Two names and one address, for the runs about the content of a patch.
MCTwoNames == [text : {n1, n2}, form : {"plain"}]
MCPlainEmails == [addr : {a1}, form : {"plain", "display"}]

\* Ids are interchangeable, and so are requests.
MCSymmetry == Permutations(IDs) \cup Permutations(Reqs)
=============================================================================
