----------------------------- MODULE MCSortList -----------------------------
\* Lists of up to four blocks of up to two elements of two ranks, and of five
\* blocks of at most one element of three ranks.
EXTENDS SortList

Fragments(size, ranks) == UNION {[1 .. k -> ranks] : k \in 0 .. size}

\* Elements of one rank are told apart by where they were.
Marked(l) == [b \in DOMAIN l |-> [i \in DOMAIN l[b] |-> <<l[b][i], 2 * b + i>>]]

MCElements == (1 .. 3) \X (1 .. 12)
MCRank == [e \in MCElements |-> e[1]]
MCLists == {Marked(l) : l \in UNION {[1 .. k -> Fragments(2, 1 .. 2)] : k \in 1 .. 4}
                                \cup [1 .. 5 -> Fragments(1, 1 .. 3)]}
=============================================================================
