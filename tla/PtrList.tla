------------------------------- MODULE PtrList -------------------------------
(***************************************************************************)
(* Pointer lists (ptrlist.h, ptrlist.c): a ring of blocks of up to NR      *)
(* pointers, and the loop over it that FOR_EACH_PTR is, one step of its    *)
(* two nested C loops at a time.  A deletion may empty a block; whether a  *)
(* list is packed afterwards is up to the caller, as it is in the code.    *)
(***************************************************************************)
EXTENDS Naturals, FiniteSets, SequencesExt

CONSTANTS
    Ptrs,      \* what is kept in the list
    NoPtr,     \* a null pointer
    Garbage,   \* what is read from a slot that holds no element
    NR,        \* LIST_NODE_NR
    NBlocks    \* bound: blocks of memory

ASSUME PtrListAssumption ==
    /\ NoPtr \notin Ptrs /\ Garbage \notin Ptrs \cup {NoPtr}
    /\ NR \in Nat \ {0, 1}
    /\ NBlocks \in Nat

Null == 0
Blocks == 1..NBlocks
FreeBlock == [prev |-> Null, next |-> Null, list |-> <<>>, used |-> FALSE]

VARIABLES
    mem,       \* struct ptr_list of every block; its nr is Len(list)
    head,      \* the list
    walk,      \* __head, __list and __nr (from 1) of the loop; is its body running?
    packing,   \* entry in pack_ptr_list, Null when that is not running
    out,       \* what the last call returned, or the loop found
    unpacked,  \* a loop deleted elements and the list was not packed since
    undone     \* the last element was undone and none was added since

vars == <<mem, head, walk, packing, out, unpacked, undone>>

PtrBlock == [prev: Blocks \cup {Null}, next: Blocks \cup {Null},
             list: Seq(Ptrs), used: BOOLEAN]

NoWalk == [dir |-> "none", head |-> Null, list |-> Null, nr |-> 0, in |-> FALSE]

TypeOK ==
    /\ mem \in [Blocks -> PtrBlock]
    /\ \A b \in Blocks : Len(mem[b].list) <= NR
    /\ head \in Blocks \cup {Null} /\ packing \in Blocks \cup {Null}
    /\ walk \in [dir: {"none", "forward", "backward"}, head: Blocks \cup {Null},
                 list: Blocks \cup {Null}, nr: 0 .. NR + 1, in: BOOLEAN]
    /\ out \in Ptrs \cup {NoPtr, Garbage}
    /\ unpacked \in BOOLEAN /\ undone \in BOOLEAN

Init ==
    /\ mem = [b \in Blocks |-> FreeBlock]
    /\ head = Null
    /\ walk = NoWalk
    /\ packing = Null
    /\ out = NoPtr
    /\ unpacked = FALSE /\ undone = FALSE

Idle == walk = NoWalk /\ packing = Null
Returns(p) == out' = p

Full(b) == Len(mem[b].list) >= NR
Entry(b, i) == IF i \in DOMAIN mem[b].list THEN mem[b].list[i] ELSE Garbage

\* __alloc_ptrlist
Unused == {b \in Blocks : ~mem[b].used}
Room == Unused # {}
NewBlock == CHOOSE b \in Unused : \A c \in Unused : b <= c

\* From head along next until that is head again.
Ring ==
    LET ring[n \in 1..NBlocks] ==
            IF n = 1 THEN <<head>>
            ELSE LET r == ring[n - 1]
                     next == mem[Last(r)].next
                 IN  IF next \in {head, Null} THEN r ELSE Append(r, next)
    IN  IF head = Null THEN <<>> ELSE ring[NBlocks]

\* The blocks that are met that way.
InRing ==
    {b \in Blocks : /\ head # Null
                    /\ \A S \in SUBSET Blocks :
                          head \in S /\ (\A c \in S : mem[c].next \in S \cup {Null}) => b \in S}

-----------------------------------------------------------------------------
\* Block n with the elements s, between b and the block after it.
link(b, n, s) ==
    [c \in Blocks |->
        IF c = n THEN [prev |-> b, next |-> mem[b].next, list |-> s, used |-> TRUE]
        ELSE [mem[c] EXCEPT !.next = IF c = b THEN n ELSE @,
                            !.prev = IF c = mem[b].next THEN n ELSE @]]

\* __add_ptr_list, also by the body of a loop over the list.
__add_ptr_list(p) ==
    /\ packing = Null /\ walk.dir # "backward"
    /\ IF head # Null /\ ~Full(mem[head].prev)
       THEN mem' = [mem EXCEPT ![mem[head].prev].list = Append(@, p)] /\ UNCHANGED head
       ELSE /\ Room
            /\ IF head = Null
               THEN /\ mem' = [mem EXCEPT ![NewBlock] = [prev |-> NewBlock, next |-> NewBlock,
                                                         list |-> <<p>>, used |-> TRUE]]
                    /\ head' = NewBlock
               ELSE mem' = link(mem[head].prev, NewBlock, <<p>>) /\ UNCHANGED head
    /\ undone' = FALSE
    /\ Returns(NoPtr) /\ UNCHANGED <<walk, packing, unpacked>>

\* No caller asks for the first or the last element of a list that may have
\* an empty block.
first_ptr_list ==
    /\ Idle /\ ~unpacked /\ ~undone
    /\ Returns(IF head = Null THEN NoPtr ELSE Entry(head, 1))
    /\ UNCHANGED <<mem, head, walk, packing, unpacked, undone>>

last_ptr_list ==
    /\ Idle /\ ~unpacked /\ ~undone
    /\ Returns(IF head = Null THEN NoPtr
               ELSE Entry(mem[head].prev, Len(mem[mem[head].prev].list)))
    /\ UNCHANGED <<mem, head, walk, packing, unpacked, undone>>

\* Back along prev from the last block, to one that is not empty or to the head.
LastFilled ==
    LET back[n \in 0..NBlocks] ==
            IF n = 0 THEN mem[head].prev
            ELSE LET b == back[n - 1]
                 IN  IF mem[b].list # <<>> \/ b = head THEN b ELSE mem[b].prev
    IN  back[NBlocks]

\* delete_last_instruction: the last block that is not empty loses an element
\* and stays.  Its callers then add another one.
undo_ptr_list_last ==
    /\ Idle /\ ~undone
    /\ IF head = Null \/ mem[LastFilled].list = <<>>
       THEN Returns(NoPtr) /\ UNCHANGED <<mem, undone>>
       ELSE /\ Returns(Last(mem[LastFilled].list))
            /\ mem' = [mem EXCEPT ![LastFilled].list = Front(@)]
            /\ undone' = TRUE
    /\ UNCHANGED <<head, walk, packing, unpacked>>

__free_ptr_list ==
    /\ Idle
    /\ mem' = [b \in Blocks |-> IF b \in InRing THEN FreeBlock ELSE mem[b]]
    /\ head' = Null
    /\ unpacked' = FALSE /\ undone' = FALSE
    /\ Returns(NoPtr) /\ UNCHANGED <<walk, packing>>

Has(p) == \E b \in ToSet(Ring) : Contains(mem[b].list, p)

\* The first block with p.
BlockOf(p) == Ring[CHOOSE i \in DOMAIN Ring : /\ Contains(mem[Ring[i]].list, p)
                                              /\ \A j \in 1 .. i - 1 : ~Contains(mem[Ring[j]].list, p)]

\* What the loop leaves of the elements s of a block.
Others(s, p) ==
    LET left[n \in 0 .. Len(s)] ==
            IF n = 0 THEN <<>>
            ELSE IF s[n] = p THEN left[n - 1] ELSE Append(left[n - 1], s[n])
    IN  left[Len(s)]

\* With a count of 1 (p has to be there) or of 0, which deletes all.
delete_ptr_list_entry(p, count) ==
    /\ Idle /\ (count = 1 => Has(p))
    /\ mem' = IF count = 1 THEN [mem EXCEPT ![BlockOf(p)].list = RemoveFirst(@, p)]
              ELSE [b \in Blocks |-> [mem[b] EXCEPT !.list = Others(@, p)]]
    /\ packing' = head
    /\ Returns(NoPtr) /\ UNCHANGED <<head, walk, unpacked, undone>>

replace_ptr_list_entry(p, q, count) ==
    /\ Idle /\ (count = 1 => Has(p))
    /\ mem' = IF count = 1
              THEN [mem EXCEPT ![BlockOf(p)].list =
                       ReplaceAt(@, SelectInSeq(@, LAMBDA x : x = p), q)]
              ELSE [b \in Blocks |-> [mem[b] EXCEPT !.list = ReplaceAll(@, p, q)]]
    /\ Returns(NoPtr) /\ UNCHANGED <<head, walk, packing, unpacked, undone>>

-----------------------------------------------------------------------------
\* pack_ptr_list, one block at a time.

pack_ptr_list ==
    /\ Idle
    /\ packing' = head
    /\ unpacked' = (unpacked /\ head # Null) /\ undone' = (undone /\ head # Null)
    /\ Returns(NoPtr) /\ UNCHANGED <<mem, head, walk>>

Packed == unpacked' = FALSE /\ undone' = FALSE

\* The whole list was empty.
FreeAll ==
    /\ packing # Null /\ mem[packing].list = <<>> /\ mem[packing].next = packing
    /\ mem' = [mem EXCEPT ![packing] = FreeBlock]
    /\ head' = Null /\ packing' = Null /\ Packed
    /\ Returns(NoPtr) /\ UNCHANGED walk

\* Mutant: the next block still has it as its predecessor.
UnlinkedForwardOnly(b) ==
    [c \in Blocks |->
        IF c = b THEN FreeBlock
        ELSE [mem[c] EXCEPT !.next = IF c = mem[b].prev THEN mem[b].next ELSE @]]

unlink(b) ==
    [c \in Blocks |->
        IF c = b THEN FreeBlock
        ELSE [mem[c] EXCEPT !.next = IF c = mem[b].prev THEN mem[b].next ELSE @,
                            !.prev = IF c = mem[b].next THEN mem[b].prev ELSE @]]

\* Mutant: the list still starts with the block that was freed.
HeadStays ==
    /\ packing # Null /\ mem[packing].list = <<>> /\ mem[packing].next # packing
    /\ packing = head
    /\ mem' = unlink(packing)
    /\ packing' = mem[packing].next
    /\ Returns(NoPtr) /\ UNCHANGED <<head, walk, unpacked, undone>>

\* An empty head is taken out and its successor is looked at as the head.
FreeHead ==
    /\ packing # Null /\ mem[packing].list = <<>> /\ mem[packing].next # packing
    /\ packing = head
    /\ mem' = unlink(packing)
    /\ head' = mem[packing].next /\ packing' = mem[packing].next
    /\ Returns(NoPtr) /\ UNCHANGED <<walk, unpacked, undone>>

\* Any other block: take it out if it is empty, on to the next one.
PackBlock ==
    /\ packing # Null
    /\ \/ mem[packing].list # <<>> /\ UNCHANGED mem
       \/ mem[packing].list = <<>> /\ packing # head /\ mem' = unlink(packing)
    /\ IF mem[packing].next = head THEN packing' = Null /\ Packed
       ELSE packing' = mem[packing].next /\ UNCHANGED <<unpacked, undone>>
    /\ Returns(NoPtr) /\ UNCHANGED <<head, walk>>

-----------------------------------------------------------------------------
\* FOR_EACH_PTR and FOR_EACH_PTR_REVERSE

FOR_EACH_PTR ==
    /\ Idle /\ head # Null
    /\ walk' = [dir |-> "forward", head |-> head, list |-> head, nr |-> 0, in |-> FALSE]
    /\ Returns(NoPtr) /\ UNCHANGED <<mem, head, packing, unpacked, undone>>

FOR_EACH_PTR_REVERSE ==
    /\ Idle /\ head # Null
    /\ LET last == mem[head].prev
       IN  walk' = [dir |-> "backward", head |-> head, list |-> last,
                    nr |-> Len(mem[last].list) + 1, in |-> FALSE]
    /\ Returns(NoPtr) /\ UNCHANGED <<mem, head, packing, unpacked, undone>>

Looping(dir) == walk.dir = dir /\ ~walk.in
Reads == UNCHANGED <<mem, head, packing, unpacked, undone>>

\* The inner loop goes on to the next slot,
ForwardElement ==
    /\ Looping("forward") /\ walk.nr < Len(mem[walk.list].list)
    /\ walk' = [walk EXCEPT !.nr = @ + 1, !.in = TRUE]
    /\ Returns(Entry(walk.list, walk.nr + 1)) /\ Reads

BackwardElement ==
    /\ Looping("backward") /\ walk.nr > 1
    /\ walk' = [walk EXCEPT !.nr = @ - 1, !.in = TRUE]
    /\ Returns(Entry(walk.list, walk.nr - 1)) /\ Reads

\* or the outer one to the next block, until it is the first one again.
ForwardBlock ==
    /\ Looping("forward") /\ walk.nr >= Len(mem[walk.list].list)
    /\ LET next == mem[walk.list].next
       IN  walk' = IF next = walk.head THEN NoWalk ELSE [walk EXCEPT !.list = next, !.nr = 0]
    /\ Returns(NoPtr) /\ Reads

BackwardBlock ==
    /\ Looping("backward") /\ walk.nr <= 1
    /\ LET prev == mem[walk.list].prev
       IN  walk' = IF walk.list = walk.head THEN NoWalk
                   ELSE [walk EXCEPT !.list = prev, !.nr = Len(mem[prev].list) + 1]
    /\ Returns(NoPtr) /\ Reads

BodyEnds ==
    /\ walk.in
    /\ walk' = [walk EXCEPT !.in = FALSE]
    /\ Returns(NoPtr) /\ Reads

\* Mutant: the cursor stays on the slot, which now holds the next element.
CursorStays ==
    /\ walk.in /\ walk.dir = "forward"
    /\ mem' = [mem EXCEPT ![walk.list].list = RemoveAt(@, walk.nr)]
    /\ walk' = [walk EXCEPT !.in = FALSE]
    /\ unpacked' = TRUE
    /\ Returns(NoPtr) /\ UNCHANGED <<head, packing, undone>>

DELETE_CURRENT_PTR ==
    /\ walk.in /\ walk.dir = "forward"
    /\ mem' = [mem EXCEPT ![walk.list].list = RemoveAt(@, walk.nr)]
    /\ walk' = [walk EXCEPT !.nr = @ - 1, !.in = FALSE]
    /\ unpacked' = TRUE
    /\ Returns(NoPtr) /\ UNCHANGED <<head, packing, undone>>

REPLACE_CURRENT_PTR(p) ==
    /\ walk.in
    /\ mem' = [mem EXCEPT ![walk.list].list[walk.nr] = p]
    /\ Returns(NoPtr) /\ UNCHANGED <<head, walk, packing, unpacked, undone>>

\* Mutant: nothing moves to the new block.
KeepsAll(n) == n

\* Where split_ptr_list_head cuts a block of n elements.
KeptBySplit(n) == n - n \div 2

\* The block the cursor is in is split first when it is full.  (In a loop
\* that goes forward the current element would be met again for ever; no
\* caller does that.)
INSERT_CURRENT(p) ==
    /\ walk.in /\ walk.dir = "backward"
    /\ LET b == walk.list
           s == mem[b].list
           keep == KeptBySplit(Len(s))
           half == link(b, NewBlock, SubSeq(s, keep + 1, Len(s)))
           split == [half EXCEPT ![b].list = SubSeq(s, 1, keep)]
       IN  IF ~Full(b)
           THEN mem' = [mem EXCEPT ![b].list = InsertAt(@, walk.nr, p)] /\ UNCHANGED walk
           ELSE /\ Room
                /\ IF walk.nr <= keep
                   THEN /\ mem' = [split EXCEPT ![b].list = InsertAt(@, walk.nr, p)]
                        /\ UNCHANGED walk
                   ELSE /\ mem' = [split EXCEPT ![NewBlock].list = InsertAt(@, walk.nr - keep, p)]
                        /\ walk' = [walk EXCEPT !.list = NewBlock, !.nr = @ - keep]
    /\ Returns(NoPtr) /\ UNCHANGED <<head, packing, unpacked, undone>>

-----------------------------------------------------------------------------
Next ==
    \/ \E p \in Ptrs : __add_ptr_list(p)
    \/ first_ptr_list
    \/ last_ptr_list
    \/ undo_ptr_list_last
    \/ __free_ptr_list
    \/ \E p \in Ptrs, count \in {0, 1} : delete_ptr_list_entry(p, count)
    \/ \E p \in Ptrs, q \in Ptrs, count \in {0, 1} : p # q /\ replace_ptr_list_entry(p, q, count)
    \/ pack_ptr_list \/ FreeAll \/ FreeHead \/ PackBlock
    \/ FOR_EACH_PTR \/ ForwardElement \/ ForwardBlock
    \/ FOR_EACH_PTR_REVERSE \/ BackwardElement \/ BackwardBlock
    \/ BodyEnds
    \/ DELETE_CURRENT_PTR
    \/ \E p \in Ptrs : REPLACE_CURRENT_PTR(p)
    \/ \E p \in Ptrs : INSERT_CURRENT(p)

Spec == Init /\ [][Next]_vars

-----------------------------------------------------------------------------
\* The blocks are one ring, doubly linked: next and prev are inverse to each
\* other and stay among the blocks in use.
LinksAgree ==
    /\ head # Null => mem[head].used
    /\ \A b \in Blocks : mem[b].used =>
          /\ mem[b].next \in Blocks /\ mem[b].prev \in Blocks
          /\ mem[mem[b].next].used /\ mem[mem[b].next].prev = b
          /\ mem[mem[b].prev].used /\ mem[mem[b].prev].next = b

\* Every block in use is in the ring, so that none is lost or freed twice; and
\* unless a caller left the list unpacked, none is empty.
NoBlockLost ==
    /\ {b \in Blocks : mem[b].used} = InRing
    /\ packing = Null /\ ~unpacked /\ ~undone => \A b \in InRing : mem[b].list # <<>>

\* The elements from head along next, until block b or all round.
Until(b) ==
    LET after[n \in 0..NBlocks] ==
            IF n = 0 THEN [at |-> head, found |-> <<>>]
            ELSE LET r == after[n - 1]
                     next == mem[r.at].next
                 IN  IF r.at \in {b, Null} THEN r
                     ELSE [at |-> IF next = head THEN Null ELSE next,
                           found |-> r.found \o mem[r.at].list]
    IN  after[NBlocks].found

PS == INSTANCE PtrSeq WITH
        seq <- Until(Null),
        dir <- walk.dir,
        at <- IF walk.dir = "none" THEN 0 ELSE Len(Until(walk.list)) + walk.nr,
        in <- walk.in

\* The ring of blocks is a sequence, and the loops over it meet every element
\* once and in order: empty blocks, blocks split under the cursor and blocks
\* appended meanwhile make no difference, and nothing but an element is found.
ImplementsPtrSeq == PS!Spec
=============================================================================
