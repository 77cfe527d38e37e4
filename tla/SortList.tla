------------------------------ MODULE SortList ------------------------------
(***************************************************************************)
(* sort_list (sort.c): a merge sort of a pointer list in place.  The       *)
(* elements of each block are sorted; then sequences of 1, 2, 4... blocks  *)
(* are merged through a buffer of two blocks, and a block of the second    *)
(* sequence that is used up is moved in front of the first and filled with *)
(* what has been merged.  One action is one turn of a loop.  The assertions*)
(* of the code are not compiled (PARANOIA is undefined): they are          *)
(* properties here.                                                        *)
(***************************************************************************)
EXTENDS Naturals, SequencesExt

CONSTANTS
    Elements,   \* what is sorted:
    Rank,       \* cmp compares the ranks
    NR,         \* LIST_NODE_NR
    Lists       \* the lists that are sorted, as sequences of blocks

ASSUME SortAssumption ==
    /\ Rank \in [Elements -> Nat]
    /\ NR \in Nat \ {0}
    /\ Lists \subseteq Seq(Seq(Elements)) \ {<<>>}
    /\ \A l \in Lists : \A b \in DOMAIN l : Len(l[b]) <= NR

\* An element stands for one entry of the list: nothing but cmp looks at what an
\* entry points to, so that entries that compare equal are told apart here.
ASSUME EntryAssumption ==
    \A l \in Lists : \A b, c \in DOMAIN l : \A i \in DOMAIN l[b], j \in DOMAIN l[c] :
        l[b][i] = l[c][j] => b = c /\ i = j

VARIABLES
    given,               \* the list as it was
    list, next, prev,    \* the elements and the links of each block
    pc,                  \* the loop that is running
    head, plist,         \* head of the list here, and for the caller
    blocks,              \* how many blocks the sequences have that are merged
    block1, after,       \* start of a pair of sequences, and of the next pair
    b1, n, i1,           \* block, blocks left and position in the first,
    b2, m, i2,           \* and the second sequence
    buffer, newhead

links == <<next, prev>>
pass == <<head, plist, blocks, block1, after>>
vars == <<given, list, links, pc, pass, b1, n, i1, b2, m, i2, buffer, newhead>>

Blocks == DOMAIN given
nr(b) == Len(list[b])

Init ==
    /\ given \in Lists
    /\ list = given
    /\ next = [b \in DOMAIN given |-> IF b = Len(given) THEN 1 ELSE b + 1]
    /\ prev = [b \in DOMAIN given |-> IF b = 1 THEN Len(given) ELSE b - 1]
    /\ pc = "fragments"
    /\ head = 1 /\ plist = 1 /\ blocks = 1
    /\ block1 = 1 /\ after = 1
    /\ b1 = 1 /\ n = 0 /\ i1 = 0
    /\ b2 = 1 /\ m = 0 /\ i2 = 0
    /\ buffer = <<>> /\ newhead = 1

-----------------------------------------------------------------------------
\* array_sort: each element goes back past those of a higher rank.
Insert(s, e) ==
    LET j == CHOOSE j \in 0 .. Len(s) :
                /\ j > 0 => Rank[s[j]] <= Rank[e]
                /\ \A k \in j + 1 .. Len(s) : Rank[s[k]] > Rank[e]
    IN  SubSeq(s, 1, j) \o <<e>> \o SubSeq(s, j + 1, Len(s))
array_sort(s) ==
    LET part[k \in 0 .. Len(s)] == IF k = 0 THEN <<>> ELSE Insert(part[k - 1], s[k])
    IN  part[Len(s)]

\* b1 is the block it is at.
sort_fragment ==
    /\ pc = "fragments"
    /\ list' = [list EXCEPT ![b1] = array_sort(@)]
    /\ b1' = next[b1]
    /\ pc' = IF next[b1] = head THEN "pair" ELSE pc
    /\ UNCHANGED <<given, links, pass, n, i1, b2, m, i2, buffer, newhead>>

\* i blocks on from b, or fewer if that meets the head.
Ahead(b, i) ==
    LET go[k \in 0 .. i] == IF k = 0 THEN [at |-> b, k |-> 0]
                             ELSE LET r == go[k - 1]
                                  IN  IF r.k > 0 /\ r.at = head THEN r
                                      ELSE [at |-> next[r.at], k |-> k]
    IN  go[i]

\* There is no second sequence: the list is sorted, or the pass is over.
sorted ==
    /\ pc = "pair" /\ Ahead(block1, blocks).at = head /\ block1 = head
    /\ plist' = head
    /\ pc' = "done"
    /\ UNCHANGED <<given, list, links, head, blocks, block1, after, b1, n, i1, b2, m, i2,
                   buffer, newhead>>

\* Mutant: the pass with a sequence left over is repeated.
SamePass ==
    /\ pc = "pair" /\ Ahead(block1, blocks).at = head /\ block1 # head
    /\ block1' = head
    /\ UNCHANGED <<given, list, links, pc, head, plist, blocks, after, b1, n, i1, b2, m, i2,
                   buffer, newhead>>

next_pass ==
    /\ pc = "pair" /\ Ahead(block1, blocks).at = head /\ block1 # head
    /\ blocks' = 2 * blocks
    /\ block1' = head
    /\ UNCHANGED <<given, list, links, pc, head, plist, after, b1, n, i1, b2, m, i2,
                   buffer, newhead>>

\* The call of merge_block_seqs.
pair ==
    /\ pc = "pair"
    /\ LET second == Ahead(block1, blocks).at
           rest == Ahead(second, blocks)
       IN  /\ second # head
           /\ after' = rest.at
           /\ b1' = block1 /\ n' = blocks /\ i1' = 0
           /\ b2' = second /\ m' = rest.k /\ i2' = 0
    /\ buffer' = <<>> /\ newhead' = block1
    /\ pc' = "skip2"
    /\ UNCHANGED <<given, list, links, head, plist, blocks, block1>>

\* The return from it: the list may start with another block now.  The pass is
\* over when the next pair is the first.
Merged ==
    LET h == IF block1 = head THEN newhead ELSE head
    IN  /\ head' = h
        /\ IF after = h THEN block1' = h /\ blocks' = 2 * blocks
           ELSE block1' = after /\ UNCHANGED blocks
        /\ pc' = "pair"
        /\ UNCHANGED <<plist, after>>

-----------------------------------------------------------------------------
\* Empty blocks of the second sequence are skipped first,
skip_empty ==
    /\ pc = "skip2" /\ nr(b2) = 0
    /\ b2' = next[b2] /\ m' = m - 1
    /\ IF m = 1 THEN Merged ELSE UNCHANGED <<pc, pass>>
    /\ UNCHANGED <<given, list, links, b1, n, i1, i2, buffer, newhead>>

\* then blocks of the first that are in their place.
skip_empty_done ==
    /\ pc = "skip2" /\ nr(b2) # 0
    /\ pc' = "skip1"
    /\ UNCHANGED <<given, list, links, pass, b1, n, i1, b2, m, i2, buffer, newhead>>

InPlace == nr(b1) # 0 => Rank[list[b1][nr(b1)]] < Rank[list[b2][1]]

skip_block ==
    /\ pc = "skip1" /\ InPlace
    /\ b1' = next[b1] /\ n' = n - 1
    /\ IF n = 1 THEN Merged ELSE UNCHANGED <<pc, pass>>
    /\ UNCHANGED <<given, list, links, i1, b2, m, i2, buffer, newhead>>

skip_block_done ==
    /\ pc = "skip1" /\ ~InPlace
    /\ pc' = "merge"
    /\ UNCHANGED <<given, list, links, pass, b1, n, i1, b2, m, i2, buffer, newhead>>

\* FLUSH_TO: the first elements of s go to block b; Flushed: the others.
FLUSH_TO(b, s) == [list EXCEPT ![b] = SubSeq(s, 1, nr(b))]

\* Mutant: the buffer is not moved down.
NotFlushed(b, s) == s

Flushed(b, s) == SubSeq(s, nr(b) + 1, Len(s))

\* Mutant: the rest of the block is lost.
DumpedWhole(b, s) == [list EXCEPT ![b] = s]

\* DUMP_TO: all of the buffer goes to the start of block b.
DUMP_TO(b, s) == [list EXCEPT ![b] = s \o SubSeq(@, Len(s) + 1, Len(@))]

\* Mutant: of two that are alike the second comes first.
SecondIfAlike == Rank[list[b1][i1 + 1]] < Rank[list[b2][i2 + 1]]

FirstIsNext == Rank[list[b1][i1 + 1]] <= Rank[list[b2][i2 + 1]]

take_first ==
    /\ pc = "merge" /\ FirstIsNext
    /\ i1' = i1 + 1
    /\ LET s == Append(buffer, list[b1][i1 + 1])
       IN  IF i1 + 1 < nr(b1) THEN buffer' = s /\ UNCHANGED <<list, pc>>
           ELSE /\ list' = FLUSH_TO(b1, s) /\ buffer' = Flushed(b1, s)
                /\ pc' = "next1"
    /\ UNCHANGED <<given, links, pass, b1, n, b2, m, i2, newhead>>

next_first ==
    /\ pc = "next1" /\ n > 1
    /\ b1' = next[b1] /\ n' = n - 1
    /\ IF nr(next[b1]) = 0 THEN UNCHANGED <<pc, i1>> ELSE pc' = "merge" /\ i1' = 0
    /\ UNCHANGED <<given, list, links, pass, b2, m, i2, buffer, newhead>>

\* The first sequence is used up: the rest of the buffer is for the blocks up
\* to b2.
no_first ==
    /\ pc = "next1" /\ n = 1
    /\ b1' = next[b1] /\ n' = 0
    /\ pc' = "flush"
    /\ UNCHANGED <<given, list, links, pass, i1, b2, m, i2, buffer, newhead>>

flush ==
    /\ pc = "flush" /\ b1 # b2
    /\ list' = FLUSH_TO(b1, buffer) /\ buffer' = Flushed(b1, buffer)
    /\ b1' = next[b1]
    /\ UNCHANGED <<given, links, pc, pass, n, i1, b2, m, i2, newhead>>

dump ==
    /\ pc = "flush" /\ b1 = b2
    /\ list' = DUMP_TO(b2, buffer)
    /\ Merged
    /\ UNCHANGED <<given, links, b1, n, i1, b2, m, i2, buffer, newhead>>

\* Mutant: the block before b1 still goes on to b1.
MovedOneWay(l) ==
    LET pulled == [next EXCEPT ![prev[l]] = next[l]]
        back == [prev EXCEPT ![next[l]] = prev[l]]
    IN  /\ next' = [pulled EXCEPT ![l] = b1]
        /\ prev' = [back EXCEPT ![l] = back[b1], ![b1] = l]

\* Block l is pulled out and plugged in before b1.
Moved(l) ==
    LET pulled == [next EXCEPT ![prev[l]] = next[l]]
        back == [prev EXCEPT ![next[l]] = prev[l]]
    IN  /\ next' = [pulled EXCEPT ![l] = b1, ![back[b1]] = l]
        /\ prev' = [back EXCEPT ![l] = back[b1], ![b1] = l]

take_second ==
    /\ pc = "merge" /\ ~FirstIsNext
    /\ i2' = i2 + 1
    /\ LET s == Append(buffer, list[b2][i2 + 1])
       IN  IF i2 + 1 < nr(b2)
           THEN buffer' = s /\ UNCHANGED <<list, links, pc, b2, newhead>>
           ELSE /\ Moved(b2)
                /\ newhead' = IF b1 = newhead THEN b2 ELSE newhead
                /\ list' = FLUSH_TO(b2, s) /\ buffer' = Flushed(b2, s)
                /\ b2' = next[b2]
                /\ pc' = "next2"
    /\ UNCHANGED <<given, pass, b1, n, i1, m>>

\* b2 is the block after the one that was moved: b2->prev, and its next, is
\* where the code starts.
next_second ==
    /\ pc = "next2" /\ m > 1
    /\ m' = m - 1
    /\ IF nr(b2) = 0 THEN b2' = next[b2] /\ UNCHANGED <<pc, i2>>
       ELSE pc' = "merge" /\ i2' = 0 /\ UNCHANGED b2
    /\ UNCHANGED <<given, list, links, pass, b1, n, i1, buffer, newhead>>

no_second ==
    /\ pc = "next2" /\ m = 1
    /\ m' = 0
    /\ list' = DUMP_TO(b1, buffer)
    /\ Merged
    /\ UNCHANGED <<given, links, b1, n, i1, b2, i2, buffer, newhead>>

-----------------------------------------------------------------------------
\* It returns.
done == pc = "done" /\ UNCHANGED vars

Next ==
    \/ sort_fragment \/ sorted \/ next_pass \/ pair
    \/ skip_empty \/ skip_empty_done \/ skip_block \/ skip_block_done
    \/ take_first \/ next_first \/ no_first \/ flush \/ dump
    \/ take_second \/ next_second \/ no_second \/ done

Spec == Init /\ [][Next]_vars
FairSpec == Spec /\ WF_vars(Next)

-----------------------------------------------------------------------------
\* A block keeps as many elements as it had, whatever is flushed and dumped to it,
\* and the cursors of merge_block_seqs are blocks of the list.
SortTypeOK ==
    /\ list \in [Blocks -> Seq(Elements)] /\ \A b \in Blocks : nr(b) = Len(given[b])
    /\ next \in [Blocks -> Blocks] /\ prev \in [Blocks -> Blocks]
    /\ pc \in {"fragments", "pair", "skip2", "skip1", "merge", "next1", "next2", "flush", "done"}
    /\ {head, plist, block1, after, b1, b2, newhead} \subseteq Blocks
    /\ {blocks, n, m, i1, i2} \subseteq Nat
    /\ buffer \in Seq(Elements)

\* The assertions of merge_block_seqs and of its macros: the cursors are in
\* their blocks, what has been taken and not written back is in the buffer,
\* which two blocks' worth of room is therefore enough for, and a flush finds
\* enough in it.
BufferExact ==
    /\ pc = "merge" => i1 < nr(b1) /\ i2 < nr(b2) /\ Len(buffer) = i1 + i2
    /\ pc = "next1" => i2 < nr(b2) /\ Len(buffer) = i2
    /\ pc = "next2" => i1 < nr(b1) /\ Len(buffer) = i1
    /\ pc = "flush" => i2 < nr(b2) /\ Len(buffer) = i2 /\ (b1 # b2 => nr(b1) = 0)

\* The blocks from b along next.
RingFrom(b) ==
    LET ring[k \in 1 .. Len(given)] ==
            IF k = 1 THEN b ELSE next[ring[k - 1]]
    IN  ring

\* Moving a block keeps one ring of all blocks, doubly linked, though it may
\* be the head, or next to where it goes, or the last but one.
RingWhole ==
    /\ \A b \in Blocks : prev[next[b]] = b /\ next[prev[b]] = b
    /\ ToSet(RingFrom(head)) = Blocks

\* e is before f in the list that was given.
Earlier(e, f) ==
    \E b, c \in Blocks : \E i \in DOMAIN given[b], j \in DOMAIN given[c] :
        given[b][i] = e /\ given[c][j] = f /\ (b < c \/ (b = c /\ i < j))

Precedes(e, f) == Rank[e] < Rank[f] \/ (Rank[e] = Rank[f] /\ Earlier(e, f))

\* "sort_list: a stable sort for lists" (sort.c:2).  What the caller's list
\* holds in the end is what it held, in order, and those that are alike are
\* in the order they were in, wherever blocks were empty.
SortedStably ==
    pc = "done" =>
        LET r == RingFrom(plist)
        IN  /\ UNION {ToSet(list[b]) : b \in Blocks} = UNION {ToSet(given[b]) : b \in Blocks}
            /\ \A p, q \in DOMAIN r : \A i \in DOMAIN list[r[p]], j \in DOMAIN list[r[q]] :
                  p < q \/ (p = q /\ i < j) => Precedes(list[r[p]][i], list[r[q]][j])

\* The passes end, though the head that ends a pass may have become a block in
\* the middle of the list.
Sorts == <>(pc = "done")
=============================================================================
