----------------------------- MODULE MCSessions -----------------------------
EXTENDS Sessions, TLC

CallSymmetry == Permutations(Calls) \cup Permutations(Passwords) \cup Permutations(Users)
=============================================================================
