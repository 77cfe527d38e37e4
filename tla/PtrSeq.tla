------------------------------- MODULE PtrSeq -------------------------------
(***************************************************************************)
(* What a pointer list promises: it is a sequence, and a loop over it meets*)
(* every element once, in order, those appended on the way too, whatever   *)
(* the body of the loop deletes, replaces or inserts at the current one.   *)
(***************************************************************************)
EXTENDS Naturals, SequencesExt

CONSTANTS Ptrs, NoPtr

VARIABLES
    seq,   \* the elements
    dir,   \* the loop over them: none, forward or backward;
    at,    \* where it is;
    in,    \* is its body running?
    out    \* what the last call returned, or the loop found

vars == <<seq, dir, at, in, out>>
loop == <<dir, at, in>>

Init == seq = <<>> /\ dir = "none" /\ at = 0 /\ in = FALSE /\ out = NoPtr

Idle == dir = "none"
Quiet == out' = NoPtr

Add(p) ==
    /\ dir # "backward" /\ Quiet
    /\ seq' = Append(seq, p)
    /\ UNCHANGED loop

First == Idle /\ UNCHANGED <<seq, loop>> /\ out' = IF seq = <<>> THEN NoPtr ELSE Head(seq)
LastOne == Idle /\ UNCHANGED <<seq, loop>> /\ out' = IF seq = <<>> THEN NoPtr ELSE Last(seq)

DeleteLast ==
    /\ Idle /\ UNCHANGED loop
    /\ \/ seq = <<>> /\ UNCHANGED seq /\ out' = NoPtr
       \/ seq # <<>> /\ seq' = Front(seq) /\ out' = Last(seq)

\* The elements of s that are not p.
Without(s, p) ==
    LET left[n \in 0 .. Len(s)] ==
            IF n = 0 THEN <<>>
            ELSE IF s[n] = p THEN left[n - 1] ELSE Append(left[n - 1], s[n])
    IN  left[Len(s)]

Delete(p) ==
    /\ Idle /\ Quiet /\ UNCHANGED loop
    /\ seq' \in {RemoveFirst(seq, p), Without(seq, p)}

Replace(p, q) ==
    /\ Idle /\ Quiet /\ UNCHANGED loop
    /\ seq' \in {ReplaceAll(seq, p, q),
                 ReplaceAt(seq, SelectInSeq(seq, LAMBDA x : x = p), q)}

\* To pack the list changes nothing.
Pack == Idle /\ Quiet /\ UNCHANGED <<seq, loop>>

Free == Idle /\ Quiet /\ seq' = <<>> /\ UNCHANGED loop

Start ==
    /\ Idle /\ Quiet /\ in' = FALSE
    /\ \/ dir' = "forward" /\ at' = 0
       \/ dir' = "backward" /\ at' = Len(seq) + 1
    /\ UNCHANGED seq

Visit ==
    /\ ~Idle /\ ~in /\ in'
    /\ at' = IF dir = "forward" THEN at + 1 ELSE at - 1
    /\ at' \in DOMAIN seq
    /\ out' = seq[at']
    /\ UNCHANGED <<seq, dir>>

BodyEnds == in /\ ~in' /\ Quiet /\ UNCHANGED <<seq, dir, at>>

End ==
    /\ ~Idle /\ ~in /\ Quiet /\ UNCHANGED <<seq, in>>
    /\ at = IF dir = "forward" THEN Len(seq) ELSE 1
    /\ dir' = "none" /\ at' = 0

DeleteCurrent ==
    /\ in /\ ~in' /\ dir = "forward" /\ Quiet
    /\ seq' = RemoveAt(seq, at)
    /\ at' = at - 1
    /\ UNCHANGED dir

ReplaceCurrent(p) ==
    /\ in /\ Quiet /\ UNCHANGED loop
    /\ seq' = [seq EXCEPT ![at] = p]

\* Before the current one, by a loop that goes on before both.
InsertCurrent(p) ==
    /\ in /\ dir = "backward" /\ Quiet /\ UNCHANGED loop
    /\ seq' = InsertAt(seq, at, p)

Next ==
    \/ First \/ LastOne \/ DeleteLast \/ Pack \/ Free
    \/ Start \/ Visit \/ BodyEnds \/ End \/ DeleteCurrent
    \/ \E p \in Ptrs : Add(p) \/ Delete(p) \/ ReplaceCurrent(p) \/ InsertCurrent(p)
    \/ \E p, q \in Ptrs : Replace(p, q)

Spec == Init /\ [][Next]_vars
=============================================================================
