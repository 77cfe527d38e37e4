----------------------------- MODULE MacroExpand -----------------------------
(***************************************************************************)
(* Macro expansion (pre-process.c): the scan of a list of tokens that      *)
(* replaces macro calls in place, with the lists of their arguments        *)
(* scanned first, on a stack, as expand and expand_list call each other.   *)
(* An identifier is tainted from its expansion until the scan reaches the  *)
(* TOKEN_UNTAINT at the end of its body.                                   *)
(* Directives and the ends of streams are PreProcess's; within one list    *)
(* the macros stay the same.                                               *)
(***************************************************************************)
EXTENDS Integers, FiniteSets, SequencesExt

CONSTANTS
    Texts,      \* spellings of tokens, "(", ")", "," and "string" among them
    Paste,      \* what ## makes of two spellings, where that is a token
    Programs,   \* macro definitions and the list to be expanded
    MaxTokens   \* bound: tokens of a list

\* A token of a macro's body: a spelling, the use of an argument (its expanded,
\* quoted or stringified tokens), ##, or the comma of GNU's ,##__VA_ARGS__.
BodyToken == [type: {"text", "MACRO", "QUOTED", "STR", "CONCAT", "KLUDGE"},
              text: Texts, argnum: Nat]

\* call is FALSE for an object-like macro (one without an arglist).
Macro == [call: BOOLEAN, wanted: Nat, vararg: BOOLEAN, body: Seq(BodyToken)]

\* As parse_expansion leaves it: ## is between two tokens and what is before it is
\* not an argument to be expanded; the arguments are the macro's.
Parsed(b, wanted) ==
    \A i \in DOMAIN b :
        /\ b[i].type \in {"MACRO", "QUOTED", "STR"} => b[i].argnum \in 1 .. wanted
        /\ b[i].type = "CONCAT" => /\ i \in 2 .. Len(b) - 1
                                  /\ b[i - 1].type \notin {"CONCAT", "MACRO"}
        /\ b[i].type = "KLUDGE" => i < Len(b) /\ b[i + 1].type = "CONCAT"

ASSUME MacroAssumption ==
    /\ {"(", ")", ",", "string"} \subseteq Texts
    /\ \A q \in DOMAIN Paste : q \in Texts \X Texts /\ Paste[q] \in Texts
    /\ \A p \in Programs :
          /\ p.source \in Seq(Texts)
          /\ DOMAIN p.macros \subseteq Texts \ {"(", ")", ",", "string"}
          /\ \A m \in DOMAIN p.macros :
                /\ p.macros[m] \in Macro /\ Parsed(p.macros[m].body, p.macros[m].wanted)
                /\ ~p.macros[m].call => p.macros[m].wanted = 0
    /\ MaxTokens \in Nat

VARIABLES
    macros,   \* what lookup_macro finds
    lists,    \* the lists being scanned, the innermost one last
    tainted   \* the identifiers that are tainted

vars == <<macros, lists, tainted>>

\* hide and within are history: the hide set of the token as the standard's
\* algorithm has it, and whether it came out of the body of its own name.
Token == [untaint: BOOLEAN, text: Texts, noexpand: BOOLEAN,
          hide: SUBSET Texts, within: BOOLEAN]

Tok(text) == [untaint |-> FALSE, text |-> text, noexpand |-> FALSE, hide |-> {}, within |-> FALSE]
Untaint(m) == [Tok(m) EXCEPT !.untaint = TRUE]

\* struct arg; arg.given is FALSE for a vararg that was left out.
Arg == [given: BOOLEAN, arg: Seq(Token)]

\* The call that waits for its arguments to be expanded.
Call == [mac: DOMAIN macros, args: Seq(Arg), expanded: Seq(Seq(Token)), hide: SUBSET Texts]
NoCall == [mac |-> "(", args |-> <<>>, expanded |-> <<>>, hide |-> {}]

TypeOK ==
    /\ tainted \subseteq DOMAIN macros
    /\ lists # <<>>
    /\ \A i \in DOMAIN lists :
          /\ lists[i].scanned \in Seq(Token) /\ lists[i].rest \in Seq(Token)
          /\ lists[i].call \in Call \cup {NoCall}
          /\ i < Len(lists) => lists[i].call # NoCall
          /\ \A j \in DOMAIN lists[i].scanned : ~lists[i].scanned[j].untaint

List(s) == [scanned |-> <<>>, rest |-> s, call |-> NoCall]

Init ==
    /\ \E p \in Programs :
          /\ macros = p.macros
          /\ lists = <<List([i \in DOMAIN p.source |-> Tok(p.source[i])])>>
    /\ tainted = {}

-----------------------------------------------------------------------------
\* scan_next skips the TOKEN_UNTAINTs in front and undoes their taint.

Skip(s) == LET ends == {i \in DOMAIN s : ~s[i].untaint}
           IN  IF ends = {} THEN Len(s) ELSE (CHOOSE i \in ends : \A j \in ends : i <= j) - 1

\* Mutant: a marker is taken for the next token.
NotSkipped(s) == s
scan_next(s) == SubSeq(s, Skip(s) + 1, Len(s))

Untainted(s) == {s[i].text : i \in {i \in DOMAIN s : s[i].untaint}}

\* Mutant: the markers are skipped and nothing is undone.
NotUndone(s) == {}
Skipped(s) == Untainted(SubSeq(s, 1, Skip(s)))

Top == lists[Len(lists)]
Rest == scan_next(Top.rest)
Here == Rest[1]
TaintedHere == tainted \ Skipped(Top.rest)

Scanning == Top.call = NoCall
AtMacro == Scanning /\ Rest # <<>> /\ ~Here.noexpand /\ Here.text \in DOMAIN macros

\* The token here is passed over.
Pass(token, rest, taint) ==
    /\ lists' = [lists EXCEPT ![Len(lists)].scanned = Append(@, token),
                              ![Len(lists)].rest = rest]
    /\ tainted' = taint
    /\ UNCHANGED macros

PassToken == Scanning /\ Rest # <<>> /\ ~AtMacro /\ Pass(Here, Tail(Rest), TaintedHere)

\* A macro within its own expansion: never to be expanded any more.
PassTainted ==
    /\ AtMacro /\ Here.text \in TaintedHere
    /\ Pass([Here EXCEPT !.noexpand = TRUE], Tail(Rest), TaintedHere)

Expandable == AtMacro /\ Here.text \notin TaintedHere
Def == macros[Here.text]

\* What follows the name of a function-like macro.
AfterName == scan_next(Tail(Rest))
TaintedAfter == TaintedHere \ Skipped(Tail(Rest))
IsCall == AfterName # <<>> /\ AfterName[1].text = "("

PassName ==
    /\ Expandable /\ Def.call /\ ~IsCall
    /\ Pass(Here, AfterName, TaintedAfter)

-----------------------------------------------------------------------------
\* collect_arg and collect_arguments

\* How deep in parentheses s[i] is, s[1] being the one of the call.
Depth(s, i) ==
    LET count(p) == Cardinality({j \in 1..i : s[j].text = p /\ ~s[j].untaint})
    IN  count("(") - count(")")

\* Where it is closed; 0 if nowhere.
Close(s) ==
    LET ends == {i \in DOMAIN s : s[i].text = ")" /\ Depth(s, i) = 0}
    IN  IF ends = {} THEN 0 ELSE CHOOSE i \in ends : \A j \in ends : i <= j

\* The commas between arguments; from parameter number wanted on, a variable
\* one takes the others.
Commas(s, d) ==
    LET all == {i \in 1..Close(s) : s[i].text = "," /\ Depth(s, i) = 1}
    IN  IF d.vararg THEN {i \in all : Cardinality({j \in all : j < i}) < d.wanted - 1} ELSE all

\* s without its markers.
NoMarkers(s) ==
    LET left[n \in 0 .. Len(s)] ==
            IF n = 0 THEN <<>>
            ELSE IF s[n].untaint THEN left[n - 1] ELSE Append(left[n - 1], s[n])
    IN  left[Len(s)]

\* The number of C that n - 1 others are less than.
Nth(C, n) == CHOOSE c \in C : Cardinality({x \in C : x < c}) = n - 1

Collected(s, d) ==
    LET cuts == {1, Close(s)} \cup Commas(s, d)
    IN  [n \in 1 .. Cardinality(cuts) - 1 |->
            [given |-> TRUE, arg |-> NoMarkers(SubSeq(s, Nth(cuts, n) + 1, Nth(cuts, n + 1) - 1))]]

\* As many as the macro wants: a variable one may be left out, and () is no
\* argument when none is wanted.
Fits(args, d) ==
    \/ d.wanted > 0 /\ Len(args) = d.wanted
    \/ d.wanted = 0 /\ Len(args) = 1 /\ args[1].arg = <<>>
    \/ d.vararg /\ Len(args) = d.wanted - 1 /\ Len(args) > 0

Given(args, d) ==
    IF d.wanted = 0 THEN <<>>
    ELSE IF Len(args) < d.wanted THEN Append(args, [given |-> FALSE, arg |-> <<>>]) ELSE args

\* collect_arg scans too: what is tainted when it has come to s[end].
\* Mutant: it walks through the tokens.
NotScanned(taint, s, end) == taint
Collecting(taint, s, end) == taint \ Untainted(SubSeq(s, 1, end))

\* An unterminated call, or one with too many or too few arguments: those are
\* dropped and the name stays.
BadCall ==
    /\ Expandable /\ Def.call /\ IsCall
    /\ \E s \in {AfterName} : \E end \in {IF Close(s) = 0 THEN Len(s) ELSE Close(s)} :
          /\ Close(s) = 0 \/ ~Fits(Collected(s, Def), Def)
          /\ Pass(Here, SubSeq(s, end + 1, Len(s)), Collecting(TaintedAfter, s, end))

-----------------------------------------------------------------------------
\* substitute

\* The identifiers whose TOKEN_UNTAINT the scan has still to reach.
Within == UNION {Untainted(lists[i].rest) : i \in DOMAIN lists}

\* What the tokens of an expansion get: how one is painted, what they come out of.
Paint == [tainted: SUBSET Texts, within: SUBSET Texts, hide: SUBSET Texts]

\* Mutant: the tokens of an argument stay as they were.
Unpainted(t, paint) == [t EXCEPT !.hide = @ \cup paint.hide, !.within = @ \/ t.text \in paint.within]

\* copy, and the case of an identifier in substitute.
copy(t, paint) == [t EXCEPT !.noexpand = @ \/ t.text \in paint.tainted,
                            !.hide = @ \cup paint.hide,
                            !.within = @ \/ t.text \in paint.within]

\* The new token may be expanded, whatever the two were.
merge(l, r) == [Tok(Paste[<<l.text, r.text>>]) EXCEPT !.hide = l.hide \cap r.hide]

\* added goes behind what there is, its first token into the last one after ##.
join(s, added) ==
    LET l == Last(s.out)
    IN  [s EXCEPT !.state = "Normal",
                  !.out = IF s.state = "Concat" /\ <<l.text, added[1].text>> \in DOMAIN Paste
                          THEN Front(@) \o <<merge(l, added[1])>> \o Tail(added)
                          ELSE @ \o added]

Empty(s) == [s EXCEPT !.state = IF @ = "Concat" THEN "Normal" ELSE "Placeholder"]

\* handle_kludge: the comma at i with the arguments that ## ties to it.  It is
\* dropped with them when all are empty and the last one was not even given;
\* given, only the first ## is ignored.
Kludge(body, args, i) ==
    LET tied(t) == t < Len(body) /\ body[t + 1].type = "CONCAT"
        v(t) == args[body[t].argnum]
        ends == {t \in i + 2 .. Len(body) :
                    /\ (t - i) % 2 = 0
                    /\ tied(t) => v(t).given /\ v(t).arg # <<>>}
        t == CHOOSE t \in ends : \A u \in ends : t <= u
    IN  IF tied(t) THEN [comma |-> TRUE, skip |-> 0]
        ELSE IF v(t).given THEN [comma |-> TRUE, skip |-> 1]
        ELSE [comma |-> FALSE, skip |-> t - i]

copies(ts, paint) == [i \in DOMAIN ts |-> copy(ts[i], paint)]
text(t, paint) == <<copy(Tok(t), paint)>>

\* What becomes of s with the token b[i] of the body.
Put(s, b, i, args, expanded, paint) ==
    LET n == b[i].argnum
    IN  CASE s.skip > 0 -> [s EXCEPT !.skip = @ - 1]
          [] s.skip = 0 /\ b[i].type = "text" -> join(s, text(b[i].text, paint))
          [] s.skip = 0 /\ b[i].type = "STR" -> join(s, text("string", paint))
          [] s.skip = 0 /\ b[i].type = "MACRO" ->
                IF expanded[n] = <<>> THEN [s EXCEPT !.state = "Normal"]
                ELSE join(s, copies(expanded[n], paint))
          [] s.skip = 0 /\ b[i].type = "QUOTED" ->
                IF args[n].arg = <<>> THEN Empty(s) ELSE join(s, copies(args[n].arg, paint))
          [] s.skip = 0 /\ b[i].type = "CONCAT" ->
                [s EXCEPT !.state = IF @ = "Placeholder" THEN "Normal" ELSE "Concat"]
          [] s.skip = 0 /\ b[i].type = "KLUDGE" ->
                LET k == Kludge(b, args, i)
                IN  [IF k.comma THEN join(s, text(",", paint)) ELSE Empty(s) EXCEPT !.skip = k.skip]

\* The body b of a macro with args put in, up to its TOKEN_UNTAINT.
substitute(b, args, expanded, paint) ==
    LET after[i \in 0 .. Len(b)] ==
            IF i = 0 THEN [out |-> <<>>, state |-> "Normal", skip |-> 0]
            ELSE CHOOSE r \in {Put(s, b, i, args, expanded, paint) : s \in {after[i - 1]}} : TRUE
    IN  after[Len(b)].out

\* Mutant: the macro is not tainted.
Unmarked(taint, m) == taint
Mark(taint, m) == taint \cup {m}

\* The expansion of m, to be scanned in its place, before rest.
Replaced(m, args, expanded, hide, rest, taint) ==
    \E paint \in {[tainted |-> Mark(taint, m), hide |-> hide \cup {m},
                   within |-> (UNION {Untainted(lists[i].rest) : i \in 1 .. Len(lists) - 1})
                              \cup Untainted(rest) \cup {m}]} :
    \E new \in {substitute(macros[m].body, args, expanded, paint) \o <<Untaint(m)>> \o rest} :
        /\ Len(new) <= MaxTokens
        /\ lists' = [lists EXCEPT ![Len(lists)].rest = new, ![Len(lists)].call = NoCall]
        /\ tainted' = Mark(taint, m)
        /\ UNCHANGED macros

-----------------------------------------------------------------------------
\* expand

ExpandObject ==
    /\ Expandable /\ ~Def.call
    /\ Replaced(Here.text, <<>>, <<>>, Here.hide, Tail(Rest), TaintedHere)

collect_arguments ==
    /\ Expandable /\ Def.call /\ IsCall
    /\ \E s \in {AfterName} : \E end \in {Close(s)} :
          /\ end # 0 /\ Fits(Collected(s, Def), Def)
          /\ lists' = [lists EXCEPT
                 ![Len(lists)].rest = SubSeq(s, end + 1, Len(s)),
                 ![Len(lists)].call = [mac |-> Here.text,
                                       args |-> Given(Collected(s, Def), Def),
                                       expanded |-> <<>>,
                                       hide |-> Here.hide \cap s[end].hide]]
          /\ tainted' = Collecting(TaintedAfter, s, end)
    /\ UNCHANGED macros

NextArg == Len(Top.call.expanded) + 1
UsedExpanded(m, n) == \E i \in DOMAIN macros[m].body :
                         macros[m].body[i].type = "MACRO" /\ macros[m].body[i].argnum = n

\* expand_arguments_pp: those that the body uses neither quoted nor stringified.
expand_argument ==
    /\ ~Scanning /\ NextArg <= Len(Top.call.args)
    /\ lists' = IF UsedExpanded(Top.call.mac, NextArg)
                THEN Append(lists, List(Top.call.args[NextArg].arg))
                ELSE [lists EXCEPT ![Len(lists)].call.expanded = Append(@, <<>>)]
    /\ UNCHANGED <<macros, tainted>>

ExpandCall ==
    /\ ~Scanning /\ NextArg > Len(Top.call.args)
    /\ Replaced(Top.call.mac, Top.call.args, Top.call.expanded, Top.call.hide, Top.rest, tainted)

\* The scan of an argument ends, or that of the whole list.
EndOfList ==
    /\ Scanning /\ Rest = <<>>
    /\ Len(lists) > 1 \/ Top.rest # <<>>
    /\ tainted' = TaintedHere
    /\ lists' = IF Len(lists) = 1 THEN [lists EXCEPT ![1].rest = <<>>]
                ELSE [Front(lists) EXCEPT ![Len(lists) - 1].call.expanded = Append(@, Top.scanned)]
    /\ UNCHANGED macros

Next ==
    \/ PassToken
    \/ PassTainted
    \/ PassName
    \/ BadCall
    \/ ExpandObject
    \/ collect_arguments
    \/ expand_argument
    \/ ExpandCall
    \/ EndOfList

\* The end of the first list is the end of the scan.
Done == Len(lists) = 1 /\ lists[1].rest = <<>>

Spec == Init /\ [][Next]_vars

\* The scan is one loop of one process: while it is not done it takes a step.
FairSpec == Spec /\ WF_vars(Next)

-----------------------------------------------------------------------------
\* An identifier is tainted exactly as long as the scan is within its
\* expansion: its TOKEN_UNTAINT is ahead, once, in one of the lists.  So none
\* stays off limits for the rest of the program.
TaintIsBalanced ==
    /\ tainted = Within
    /\ \A m \in tainted :
          Cardinality({q \in UNION {{i} \X DOMAIN lists[i].rest : i \in DOMAIN lists} :
                          lists[q[1]].rest[q[2]] = Untaint(m)}) = 1

\* A macro is not expanded within its own expansion, nor ever after where a
\* token of its name came out of there (but for one that ## made): not when
\* it became part of an argument, not when text from further on completed the call.
NeverWithinItself ==
    [][ExpandObject \/ collect_arguments =>
         ~Here.within /\ Here.text \notin Within \ Skipped(Top.rest)]_vars

\* A token is left unexpanded for that reason only when the standard's algorithm
\* has its name in the hide set of the token.
HiddenOnlyWithinItself ==
    [][PassTainted \/ (PassToken /\ Here.noexpand) => Here.text \in Here.hide]_vars

\* Every list is scanned to its end: expansion does not go on for ever.
Terminates == <>Done
=============================================================================
