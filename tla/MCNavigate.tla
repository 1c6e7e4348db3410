----------------------------- MODULE MCNavigate -----------------------------
\* Logging in, moving between rooms, logging out and dying, with no editing.
EXTENDS CodeBROs, TLC

CONSTANTS c1, c2, u1, u2, pw, blank, t1

MCClient == {c1, c2}
MCUser == {u1, u2}
MCPassword == {pw}

Interchangeable == Permutations(MCClient)

\* One account exists, the other does not yet.
MCSavedAccounts ==
    {[u \in User |-> IF u = u1 THEN pw ELSE NoPassword]}
=============================================================================
