------------------------ MODULE MCRoleConfiguration ------------------------
EXTENDS RoleConfiguration, TLC

Symmetry == Permutations(Author) \cup Permutations(Profile) \cup Permutations(Run)
            \cup Permutations(Edit) \cup Permutations(Matrix)
=============================================================================
