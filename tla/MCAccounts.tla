----------------------------- MODULE MCAccounts -----------------------------
(* Accounts for TLC: ids of one kind are interchangeable. *)
EXTENDS Accounts, TLC

Symmetry == Permutations(Users \ {Empty}) \cup Permutations(Invites) \cup Permutations(Idents)
            \cup Permutations(Ceremonies) \cup Permutations(Requests)

=============================================================================
