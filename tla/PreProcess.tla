----------------------------- MODULE PreProcess -----------------------------
(***************************************************************************)
(* The line loop of sparse's preprocessor (pre-process.c): conditional     *)
(* groups, the per-stream include-guard detector, #define / #undef as far  *)
(* as #ifdef sees them, #include with the "already tokenized" shortcut,    *)
(* the end of a stream and the start of the next source file.              *)
(*                                                                         *)
(* The input is arbitrary: every action is one line the program may read   *)
(* next.  A condition is the set of macro environments in which it is true.*)
(* One counter, false_nesting, says for ALL open streams how many of the   *)
(* innermost groups are being skipped; each stream keeps only the kind of  *)
(* its open groups.                                                        *)
(***************************************************************************)
EXTENDS CondGroups

CONSTANTS
    Macros,         \* the macro names
    None,           \* the null pointer, for stream->protect
    Main, Headers,  \* a source file named to sparse, and the files it may include
    BuiltinMacros,  \* macros of the builtin scope: -D and predefined ones
    Conds,          \* conditions of #if and #elif
    ppnoopt,        \* the flag that turns the shortcut off
    MaxNest,        \* bound: open groups of one stream
    MaxDepth,       \* bound: open streams
    MaxStreams      \* bound: streams closed in the run

ASSUME PreAssumption ==
    /\ None \notin Macros
    /\ BuiltinMacros \subseteq Macros
    /\ Main \notin Headers
    /\ Conds \subseteq SUBSET SUBSET Macros
    /\ ppnoopt \in BOOLEAN
    /\ MaxDepth \in Nat /\ MaxStreams \in Nat /\ MaxNest \in [1..MaxDepth -> Nat]

VARIABLES
    cur,            \* the stream the next line comes from
    outer,          \* the streams that included it, outermost first
    false_nesting,  \* sctxp false_nesting
    defs,           \* the macros lookup_macro finds
    done,           \* the streams that reached their STREAMEND, oldest first
    passed          \* was the last ordinary line processed?

vars == <<cur, outer, false_nesting, defs, done, passed>>

Files == Headers \cup {Main}

\* The part of struct stream the line loop uses.  top is the list behind
\* top_if, its first element last; ifndef points into it, 0 is NULL.
Stream == [file: Files, top: Seq({"IF", "SKIP_GROUPS", "ELSE"}), ifndef: Nat,
           dirty: BOOLEAN, protect: Macros \cup {None}, once: BOOLEAN]

Closed == [file: Files, constant: BOOLEAN, protect: Macros \cup {None}, once: BOOLEAN]

init_stream(f) == [file |-> f, top |-> <<>>, ifndef |-> 0,
                   dirty |-> FALSE, protect |-> None, once |-> FALSE]

TypeOK ==
    /\ cur \in Stream
    /\ outer \in Seq(Stream)
    /\ false_nesting \in Nat
    /\ defs \subseteq Macros
    /\ done \in Seq(Closed)
    /\ passed \in BOOLEAN

Init ==
    /\ cur = init_stream(Main)
    /\ outer = <<>>
    /\ false_nesting = 0
    /\ defs = BuiltinMacros
    /\ done = <<>>
    /\ passed = TRUE

-----------------------------------------------------------------------------
\* The three macros that steer the include-guard detector.

dirty_stream(s) ==
    IF s.dirty THEN s
    ELSE [s EXCEPT !.dirty = TRUE, !.protect = IF s.ifndef = 0 THEN None ELSE @]

\* Mutant: the lines inside the guard go on counting after its #endif.
EndGroupStaysDirty(s) ==
    IF s.ifndef # Len(s.top) THEN s
    ELSE [s EXCEPT !.ifndef = 0, !.protect = IF s.dirty THEN @ ELSE None]

end_group(s) ==
    IF s.ifndef # Len(s.top) THEN s
    ELSE [s EXCEPT !.ifndef = 0,
                   !.protect = IF s.dirty THEN @ ELSE None,
                   !.dirty = s.dirty /\ s.protect = None]

nesting_error(s) == [s EXCEPT !.dirty = TRUE, !.ifndef = 0, !.protect = None]

TopIf(s) == s.top[Len(s.top)]

SetTop(s, type) == [s EXCEPT !.top[Len(s.top)] = type]

\* Mutant: a group inside a skipped one is pushed as an ordinary one.
SkippedAsIf(s, v) ==
    /\ cur' = [s EXCEPT !.top = Append(@, "IF")]
    /\ false_nesting' = IF false_nesting > 0 \/ ~v THEN false_nesting + 1 ELSE false_nesting
    /\ UNCHANGED <<outer, defs, done, passed>>

\* The group is pushed, and skipped unless the condition is plainly true (the
\* value -1 of a malformed #ifdef is not).
preprocessor_if(s, v) ==
    /\ cur' = [s EXCEPT !.top = Append(@, IF false_nesting > 0 THEN "SKIP_GROUPS" ELSE "IF")]
    /\ false_nesting' = IF false_nesting > 0 \/ ~v THEN false_nesting + 1 ELSE false_nesting
    /\ UNCHANGED <<outer, defs, done, passed>>

\* handle_ifndef looks for a guard: the first group of a clean stream, or one
\* more on the same macro after the first has closed.
NoteGuard(s, m) ==
    IF s.dirty \/ s.ifndef # 0 THEN s
    ELSE IF s.protect = None THEN [s EXCEPT !.ifndef = Len(s.top) + 1, !.protect = m]
    ELSE IF s.protect = m THEN [s EXCEPT !.ifndef = Len(s.top) + 1, !.dirty = TRUE]
    ELSE s

-----------------------------------------------------------------------------
\* Conditional directives (the "special" handlers).

MayNest == Len(cur.top) < MaxNest[Len(outer) + 1]

handle_ifdef(m) == MayNest /\ preprocessor_if(cur, m \in defs)

handle_ifndef(m) == MayNest /\ preprocessor_if(NoteGuard(cur, m), m \notin defs)

\* #ifdef or #ifndef without an identifier.
handle_ifdef_bad == MayNest /\ preprocessor_if(dirty_stream(cur), FALSE)

handle_if(c) == MayNest /\ preprocessor_if(dirty_stream(cur), defs \in c)

\* #elif, #else and #endif with no group open in this stream.
Unmatched ==
    /\ cur.top = <<>>
    /\ cur' = nesting_error(end_group(cur))
    /\ UNCHANGED <<outer, false_nesting, defs, done, passed>>

ElifAfterElse ==
    /\ cur.top # <<>> /\ TopIf(cur) = "ELSE"
    /\ cur' = nesting_error(end_group(cur))
    /\ false_nesting' = IF false_nesting = 0 THEN 1 ELSE false_nesting
    /\ UNCHANGED <<outer, defs, done, passed>>

handle_elif(c) ==
    /\ cur.top # <<>> /\ TopIf(cur) # "ELSE"
    /\ LET s == dirty_stream(end_group(cur)) IN
       IF TopIf(cur) # "IF" THEN cur' = s /\ UNCHANGED false_nesting
       ELSE IF false_nesting > 0
       THEN cur' = s /\ false_nesting' = IF defs \in c THEN 0 ELSE 1
       ELSE cur' = SetTop(s, "SKIP_GROUPS") /\ false_nesting' = 1
    /\ UNCHANGED <<outer, defs, done, passed>>

\* Mutant: an #else of the guard does not end the guard's group.
ElseKeepsGuard ==
    /\ cur.top # <<>>
    /\ LET t == IF TopIf(cur) = "ELSE" THEN nesting_error(cur) ELSE cur
       IN  cur' = SetTop(t, "ELSE")
    /\ false_nesting' = IF false_nesting = 0 THEN 1
                        ELSE IF TopIf(cur) = "IF" THEN 0 ELSE false_nesting
    /\ UNCHANGED <<outer, defs, done, passed>>

handle_else ==
    /\ cur.top # <<>>
    /\ LET s == end_group(cur)
           t == IF TopIf(cur) = "ELSE" THEN nesting_error(s) ELSE s
       IN  cur' = SetTop(t, "ELSE")
    /\ false_nesting' = IF false_nesting = 0 THEN 1
                        ELSE IF TopIf(cur) = "IF" THEN 0 ELSE false_nesting
    /\ UNCHANGED <<outer, defs, done, passed>>

\* Mutant: the counter goes down whether or not the group was skipped.
EndifAlwaysCounts ==
    /\ cur.top # <<>>
    /\ cur' = [end_group(cur) EXCEPT !.top = SubSeq(cur.top, 1, Len(cur.top) - 1)]
    /\ false_nesting' = false_nesting - 1
    /\ UNCHANGED <<outer, defs, done, passed>>

handle_endif ==
    /\ cur.top # <<>>
    /\ cur' = [end_group(cur) EXCEPT !.top = SubSeq(cur.top, 1, Len(cur.top) - 1)]
    /\ false_nesting' = IF false_nesting > 0 THEN false_nesting - 1 ELSE 0
    /\ UNCHANGED <<outer, defs, done, passed>>

-----------------------------------------------------------------------------
\* Everything else.  A skipped line dirties its stream as well.

\* Text, or a directive that changes no state the loop looks at again.
Text ==
    /\ cur' = dirty_stream(cur)
    /\ passed' = (false_nesting = 0)
    /\ UNCHANGED <<outer, false_nesting, defs, done>>

SetDefs(d) ==
    /\ cur' = dirty_stream(cur)
    /\ defs' = IF false_nesting = 0 THEN d ELSE defs
    /\ passed' = (false_nesting = 0)
    /\ UNCHANGED <<outer, false_nesting, done>>

handle_define(m) == SetDefs(defs \cup {m})
handle_undef(m)  == SetDefs(defs \ {m})

handle_pragma_once ==
    /\ cur' = [dirty_stream(cur) EXCEPT !.once = @ \/ false_nesting = 0]
    /\ passed' = (false_nesting = 0)
    /\ UNCHANGED <<outer, false_nesting, defs, done>>

OpenStreams == {outer[i] : i \in 1..Len(outer)} \cup {cur}
DoneStreams == {done[i] : i \in 1..Len(done)}

SkippedOnce(f) == \E s \in OpenStreams \cup DoneStreams : s.file = f /\ s.once

SkippedConstant(f) ==
    \E s \in DoneStreams : /\ s.file = f /\ s.constant
                           /\ s.protect # None => s.protect \in defs

already_tokenized(f) == ~ppnoopt /\ (SkippedOnce(f) \/ SkippedConstant(f))

\* The includer is dirtied first; its record is the one to come back to.
handle_include(f) ==
    /\ passed' = (false_nesting = 0)
    /\ LET s == dirty_stream(cur) IN
       IF false_nesting > 0 \/ already_tokenized(f)
       THEN cur' = s /\ UNCHANGED outer
       ELSE /\ Len(outer) + 1 < MaxDepth
            /\ outer' = Append(outer, s)
            /\ cur' = init_stream(f)
    /\ UNCHANGED <<false_nesting, defs, done>>

\* The TOKEN_STREAMEND case of do_preprocess, up to "top_if = NULL".
EndOfStream(s) == IF s.top = <<>> THEN s ELSE [nesting_error(s) EXCEPT !.top = <<>>]

Finish(s) == [file |-> s.file, constant |-> ~s.dirty, protect |-> s.protect, once |-> s.once]

\* Mutant: groups left open at the end of a stream go on being skipped.
EndKeepsSkipping ==
    /\ Len(done) < MaxStreams
    /\ done' = Append(done, Finish(EndOfStream(cur)))
    /\ UNCHANGED <<false_nesting, passed>>

StreamEnd ==
    /\ Len(done) < MaxStreams
    /\ done' = Append(done, Finish(EndOfStream(cur)))
    /\ false_nesting' = IF cur.top = <<>> THEN false_nesting ELSE 0
    /\ UNCHANGED passed

\* Back to the line after the #include.
Return ==
    /\ outer # <<>>
    /\ StreamEnd
    /\ cur' = outer[Len(outer)]
    /\ outer' = SubSeq(outer, 1, Len(outer) - 1)
    /\ UNCHANGED defs

\* The next source file starts a new file scope, and with it the macros bound
\* in the old one go; the streams of the old one stay in input_streams.
NextFile ==
    /\ outer = <<>>
    /\ StreamEnd
    /\ cur' = init_stream(Main)
    /\ defs' = BuiltinMacros
    /\ UNCHANGED outer

-----------------------------------------------------------------------------
Next ==
    \/ \E m \in Macros : handle_ifdef(m)
    \/ \E m \in Macros : handle_ifndef(m)
    \/ handle_ifdef_bad
    \/ \E c \in Conds : handle_if(c)
    \/ \E c \in Conds : handle_elif(c)
    \/ ElifAfterElse
    \/ Unmatched
    \/ handle_else
    \/ handle_endif
    \/ Text
    \/ \E m \in Macros : handle_define(m)
    \/ \E m \in Macros : handle_undef(m)
    \/ handle_pragma_once
    \/ \E f \in Headers : handle_include(f)
    \/ Return
    \/ NextFile

Spec == Init /\ [][Next]_vars

-----------------------------------------------------------------------------
\* The groups that the kinds of the open groups and false_nesting stand for.
GroupsOf(top, fn) ==
    [i \in 1..Len(top) |-> [active |-> i + fn <= Len(top),
                            may |-> i + fn = Len(top) + 1 /\ top[i] = "IF",
                            els |-> top[i] = "ELSE"]]

\* false_nesting counts groups of the innermost stream only: the lines that
\* include the others were processed.
AbsFiles == [i \in 1..(Len(outer) + 1) |->
                IF i <= Len(outer) THEN GroupsOf(outer[i].top, 0)
                ELSE GroupsOf(cur.top, false_nesting)]

CS == INSTANCE CondSpec WITH files <- AbsFiles, passed <- passed

\* One shared counter and a kind per group do implement the conditional
\* directives over the stack of included files, malformed input included:
\* exactly the lines of the chosen branches are processed, and an #include
\* comes back to the groups it left.
ImplementsCondSpec == CS!Spec

GroupsOK(top, fn) ==
    /\ fn <= Len(top)
    /\ \A i \in 1..Len(top) :
          /\ i + fn <= Len(top) => top[i] # "SKIP_GROUPS"
          /\ i + fn > Len(top) + 1 => top[i] # "IF"

\* What handle_elif and handle_else rely on when they store 0 or 1 into
\* false_nesting instead of counting: no more groups are skipped than this
\* stream has open; one that is not skipped has not used up its branches, and
\* of the skipped ones only the outermost may still take one (kind "IF").  No
\* stream that waits for a header is skipping anything.
NestingOK ==
    /\ GroupsOK(cur.top, false_nesting)
    /\ \A j \in 1..Len(outer) : GroupsOK(outer[j].top, 0)
=============================================================================
