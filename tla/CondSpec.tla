------------------------------ MODULE CondSpec ------------------------------
(***************************************************************************)
(* The promise of the conditional directives over a stack of open files:   *)
(* each file has its own groups, a file is entered only from a line that   *)
(* is processed, and leaving it - with its groups closed or not - restores *)
(* exactly the groups of the file that included it.                        *)
(***************************************************************************)
EXTENDS CondGroups

VARIABLES files,   \* the groups of every open file, the innermost file last
          passed   \* was the last ordinary line processed, or skipped?

vars == <<files, passed>>

CSTypeOK == /\ files \in Seq(Seq(Group)) /\ files # <<>>
            /\ passed \in BOOLEAN

Innermost == files[Len(files)]

Init == files = << <<>> >> /\ passed = TRUE

\* A line that is no conditional directive.
Line == passed' = Live(Innermost) /\ UNCHANGED files

Replace(g) == files' = [files EXCEPT ![Len(files)] = g] /\ UNCHANGED passed

Open  == \E v \in BOOLEAN : Replace(OpenGroup(Innermost, v))
Elif  == Innermost # <<>> /\ \E v \in BOOLEAN : Replace(ElifGroup(Innermost, v))
Else  == Innermost # <<>> /\ Replace(ElseGroup(Innermost))
Close == Innermost # <<>> /\ Replace(CloseGroup(Innermost))

Enter == /\ Live(Innermost)
         /\ files' = Append(files, <<>>)
         /\ passed' = TRUE

Leave == /\ files' = IF Len(files) > 1 THEN SubSeq(files, 1, Len(files) - 1) ELSE << <<>> >>
         /\ UNCHANGED passed

Next == Line \/ Open \/ Elif \/ Else \/ Close \/ Enter \/ Leave

Spec == Init /\ [][Next]_vars
=============================================================================
