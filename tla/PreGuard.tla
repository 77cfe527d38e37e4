------------------------------ MODULE PreGuard ------------------------------
(***************************************************************************)
(* Is it right to skip a header that already_tokenized recognises?  The    *)
(* machine of PreProcess with a history beside it: while a stream is read, *)
(* the history reads the same lines in EVERY macro environment and keeps   *)
(* the environments in which they would have had an effect (a token passed *)
(* on, a macro changed, a file included, an error reported).  Until then   *)
(* the environment stays what it was, so one set of open groups per        *)
(* environment is all there is to remember.  The history also keeps the    *)
(* shape of the file: is all of it inside one #ifndef ... #endif?          *)
(* No action of PreProcess depends on the history.                         *)
(***************************************************************************)
EXTENDS PreProcess

VARIABLES
    hist,       \* the history of the current stream
    outerHist,  \* those of the streams that included it
    doneHist    \* what is kept of the closed ones

gvars == <<vars, hist, outerHist, doneHist>>

MacroEnv == SUBSET Macros

\* at: before the guard, within it, behind it, or not of that shape at all.
Shape == [at: {"start", "within", "behind", "other"}, guard: Macros \cup {None}]

History == [effect: SUBSET MacroEnv, groups: [MacroEnv -> Seq(Group)], shape: Shape]
DoneHistory == [effect: SUBSET MacroEnv, shape: Shape]

GuardTypeOK ==
    /\ TypeOK
    /\ hist \in History
    /\ outerHist \in Seq(History)
    /\ doneHist \in Seq(DoneHistory)

FreshHistory == [effect |-> {}, groups |-> [e \in MacroEnv |-> <<>>],
                 shape |-> [at |-> "start", guard |-> None]]

GuardInit == Init /\ hist = FreshHistory /\ outerHist = <<>> /\ doneHist = <<>>

-----------------------------------------------------------------------------
\* Environments in which the line about to be read is processed.
LiveEnvs == hist.effect \cup {e \in MacroEnv : Live(hist.groups[e])}

\* Once a line has had its effect in an environment, that reading is over.
AsOf(effect, groups, shape) ==
    [effect |-> effect,
     groups |-> [e \in MacroEnv |-> IF e \in effect THEN <<>> ELSE groups[e]],
     shape |-> shape]

See(effect, groups, shape) ==
    /\ hist' = AsOf(effect, groups, shape)
    /\ UNCHANGED <<outerHist, doneHist>>

Spoilt == [at |-> "other", guard |-> None]
Inside == IF hist.shape.at = "within" THEN hist.shape ELSE Spoilt

Opened(holds) == [e \in MacroEnv |-> OpenGroup(hist.groups[e], e \in holds)]

\* A conditional that opens a group and is true in the environments "holds".
SeeOpen(holds) == See(hist.effect, Opened(holds), Inside)

SeeIfndef(m) ==
    See(hist.effect, Opened({e \in MacroEnv : m \notin e}),
        IF hist.shape.at = "start" THEN [at |-> "within", guard |-> m] ELSE Inside)

SeeBadIfdef == See(LiveEnvs, Opened({}), Inside)

SeeLine == See(LiveEnvs, hist.groups, Inside)

SeeError == See(MacroEnv, hist.groups, Spoilt)

\* A further branch: of the guard itself it spoils the shape.
InsideDeep == IF Len(cur.top) > 1 THEN Inside ELSE Spoilt

SeeElif(c) ==
    See(hist.effect,
        [e \in MacroEnv |-> IF e \in hist.effect THEN <<>>
                            ELSE ElifGroup(hist.groups[e], e \in c)],
        InsideDeep)

SeeElse ==
    IF TopIf(cur) = "ELSE" THEN SeeError
    ELSE See(hist.effect,
             [e \in MacroEnv |-> IF e \in hist.effect THEN <<>> ELSE ElseGroup(hist.groups[e])],
             InsideDeep)

SeeEndif ==
    See(hist.effect,
        [e \in MacroEnv |-> IF e \in hist.effect THEN <<>> ELSE CloseGroup(hist.groups[e])],
        IF Len(cur.top) = 1 /\ hist.shape.at = "within"
        THEN [hist.shape EXCEPT !.at = "behind"] ELSE Inside)

\* The includer's line is seen, then the header starts afresh or is skipped.
Seen == AsOf(LiveEnvs, hist.groups, Inside)

SeeInclude ==
    /\ IF outer' = outer THEN hist' = Seen /\ UNCHANGED outerHist
       ELSE hist' = FreshHistory /\ outerHist' = Append(outerHist, Seen)
    /\ UNCHANGED doneHist

\* A group left open at the end is an error too.
SeeEnd ==
    doneHist' = Append(doneHist,
                       IF cur.top = <<>>
                       THEN [effect |-> hist.effect, shape |-> hist.shape]
                       ELSE [effect |-> MacroEnv, shape |-> Spoilt])

SeeReturn ==
    /\ SeeEnd
    /\ hist' = outerHist[Len(outerHist)]
    /\ outerHist' = SubSeq(outerHist, 1, Len(outerHist) - 1)

SeeNextFile == SeeEnd /\ hist' = FreshHistory /\ UNCHANGED outerHist

-----------------------------------------------------------------------------
GuardNext ==
    \/ \E m \in Macros : handle_ifdef(m) /\ SeeOpen({e \in MacroEnv : m \in e})
    \/ \E m \in Macros : handle_ifndef(m) /\ SeeIfndef(m)
    \/ handle_ifdef_bad /\ SeeBadIfdef
    \/ \E c \in Conds : handle_if(c) /\ SeeOpen(c)
    \/ \E c \in Conds : handle_elif(c) /\ SeeElif(c)
    \/ ElifAfterElse /\ SeeError
    \/ Unmatched /\ SeeError
    \/ handle_else /\ SeeElse
    \/ handle_endif /\ SeeEndif
    \/ Text /\ SeeLine
    \/ \E m \in Macros : handle_define(m) /\ SeeLine
    \/ \E m \in Macros : handle_undef(m) /\ SeeLine
    \/ handle_pragma_once /\ SeeLine
    \/ \E f \in Headers : handle_include(f) /\ SeeInclude
    \/ Return /\ SeeReturn
    \/ NextFile /\ SeeNextFile

GuardSpec == GuardInit /\ [][GuardNext]_gvars

-----------------------------------------------------------------------------
\* Whenever already_tokenized would skip a header on account of its guard,
\* in this source file or a later one, reading it again in the macro
\* environment of that moment would have had no effect at all.
GuardSound ==
    \A i \in 1..Len(done) :
        /\ done[i].constant
        /\ done[i].protect # None => done[i].protect \in defs
        => defs \notin doneHist[i].effect

\* A header all of whose lines are inside one #ifndef m ... #endif, whatever
\* conditionals (their errors apart) nest in it, is skipped from its second
\* inclusion on while m is defined.
GuardEffective ==
    \A i \in 1..Len(done) :
        doneHist[i].shape.at = "behind" =>
            /\ done[i].constant
            /\ done[i].protect \in {None, doneHist[i].shape.guard}
=============================================================================
