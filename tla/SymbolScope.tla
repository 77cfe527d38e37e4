----------------------------- MODULE SymbolScope -----------------------------
(***************************************************************************)
(* Symbols and scopes (scope.c, symbol.c), and the two users that share    *)
(* them: the preprocessor's #define / #undef and the parser's declarations.*)
(* Every identifier has a chain of symbols, the latest first; every scope  *)
(* has the list of its symbols, to be taken out of their chains when it    *)
(* ends.  A source file is preprocessed, then parsed; before the first one *)
(* the builtin stream is, with the builtin scope as its file scope.        *)
(***************************************************************************)
EXTENDS Naturals, Sequences, FiniteSets

CONSTANTS
    Idents,      \* identifiers a program declares or defines
    Bodies,      \* macro bodies (with their arguments)
    NoBody,
    Attrs,       \* SYM_ATTR_WEAK = 0, _NORMAL = 1, _STRONG = 2
    MaxSyms,     \* bound: bound symbols
    MaxScopes    \* bound: open scopes, builtin and file scope among them

ASSUME ScopeAssumption ==
    /\ NoBody \notin Bodies
    /\ Attrs \subseteq 0..2
    /\ MaxSyms \in Nat /\ MaxScopes \in Nat \ {0}

WEAK == 0
NORMAL == 1

\* Identifiers the parser binds by itself.
ParserIdents == {"break", "continue", "case", "return", "__func__"}
AllIdents == Idents \cup ParserIdents

SymIds == 1..MaxSyms
Namespaces == {"NONE", "MACRO", "UNDEF", "SYMBOL", "TYPEDEF", "STRUCT", "LABEL", "ITERATOR"}

\* Scopes are numbered as they are opened.
Builtin == 1
ScopeIds == 1..MaxScopes

VARIABLES
    tab,         \* chains, symbols and scopes
    open,        \* the parser's open functions and blocks, innermost last
    current_fn,  \* sctxp current_fn: is one set?
    phase,       \* "preprocess" or "parse"
    warned       \* did the last line report a redefinition?

vars == <<tab, open, current_fn, phase, warned>>

Symbol == [ident: AllIdents, ns: Namespaces, scope: ScopeIds \cup {0},
           body: Bodies \cup {NoBody}, attr: 0..2, used_in: ScopeIds \cup {0}]

Scope == [next: ScopeIds, symbols: Seq(SymIds)]

Table == [chain: [AllIdents -> Seq(SymIds)],   \* ident->symbols and next_id
          sym: [SymIds -> Symbol],
          scopes: Seq(Scope),
          block_scope: ScopeIds, function_scope: ScopeIds, file_scope: ScopeIds]

TypeOK ==
    /\ tab \in Table
    /\ open \in Seq({"function", "block"})
    /\ current_fn \in BOOLEAN
    /\ phase \in {"preprocess", "parse"}
    /\ warned \in BOOLEAN

\* alloc_symbol, with what bind_symbol then sets.
SymbolOf(id, ns, sc) == [ident |-> id, ns |-> ns, scope |-> sc,
                         body |-> NoBody, attr |-> 0, used_in |-> 0]

Unbound == SymbolOf("break", "NONE", 0)

Init ==
    /\ tab = [chain |-> [i \in AllIdents |-> <<>>],
              sym |-> [s \in SymIds |-> Unbound],
              scopes |-> <<[next |-> Builtin, symbols |-> <<>>]>>,
              block_scope |-> Builtin, function_scope |-> Builtin, file_scope |-> Builtin]
    /\ open = <<>>
    /\ current_fn = FALSE
    /\ phase = "preprocess"
    /\ warned = FALSE

-----------------------------------------------------------------------------
\* symbol.c: lookup and binding.  0 is the null pointer.

Elems(s) == {s[i] : i \in 1..Len(s)}

FirstOf(I) == CHOOSE i \in I : \A j \in I : i <= j

lookup_symbol(t, id, spaces) ==
    LET hits == {i \in 1..Len(t.chain[id]) : t.sym[t.chain[id][i]].ns \in spaces}
    IN  IF hits = {} THEN 0 ELSE t.chain[id][FirstOf(hits)]

toplevel(t) == t.block_scope \in {t.file_scope, Builtin}

\* Mutant: declarations within a function leave it.
LocalsAreGlobal(t, ns, static) ==
    IF ns = "MACRO" THEN t.file_scope
    ELSE IF ns = "LABEL" THEN t.function_scope
    ELSE IF ns = "SYMBOL" THEN IF static THEN t.file_scope ELSE Builtin
    ELSE t.block_scope

BoundIn(t, ns, static) ==
    IF ns = "MACRO" THEN t.file_scope
    ELSE IF ns = "LABEL" THEN t.function_scope
    ELSE IF ns = "SYMBOL" /\ toplevel(t) THEN IF static THEN t.file_scope ELSE Builtin
    ELSE t.block_scope

Free(t) == {s \in SymIds : t.sym[s].ns = "NONE"}
Room(n) == Cardinality(Free(tab)) >= n

\* A new symbol, first in the chain of its identifier and last in the list of
\* its scope.
bind_symbol(t, id, ns, static) ==
    LET s  == FirstOf(Free(t))
        sc == BoundIn(t, ns, static)
    IN  [t EXCEPT !.chain[id] = <<s>> \o @,
                  !.sym[s] = SymbolOf(id, ns, sc),
                  !.scopes[sc].symbols = Append(@, s)]

\* The new symbol is then given a namespace of its own.
bind_as(t, id, ns, then) ==
    LET b == bind_symbol(t, id, ns, TRUE)
    IN  [b EXCEPT !.sym[b.chain[id][1]].ns = then]

-----------------------------------------------------------------------------
\* scope.c

Push(t, up) == Append(t.scopes, [next |-> up, symbols |-> <<>>])

start_symbol_scope(t) ==
    [t EXCEPT !.scopes = Push(t, t.block_scope), !.block_scope = Len(t.scopes) + 1]

start_function_scope(t) ==
    start_symbol_scope([t EXCEPT !.scopes = Push(t, t.function_scope),
                                 !.function_scope = Len(t.scopes) + 1])

\* What remove_symbol_scope leaves of chain s when it is called for all of gone.
Kept(s, gone) ==
    LET left[n \in 0 .. Len(s)] ==
            IF n = 0 THEN <<>>
            ELSE IF s[n] \in gone THEN left[n - 1] ELSE Append(left[n - 1], s[n])
    IN  left[Len(s)]

\* remove_symbol_scope for every symbol of scope sc; the scope is gone.
end_scope(t, sc) ==
    LET gone == Elems(t.scopes[sc].symbols)
    IN  [t EXCEPT !.chain = [i \in AllIdents |-> Kept(@[i], gone)],
                  !.sym = [s \in SymIds |-> IF s \in gone THEN Unbound ELSE @[s]],
                  !.scopes = SubSeq(@, 1, sc - 1)]

end_symbol_scope(t) ==
    [end_scope(t, t.block_scope) EXCEPT !.block_scope = t.scopes[t.block_scope].next]

\* Mutant: only the scope of the function's block ends.
EndsOnlyTheBlock(t) == end_symbol_scope(t)

end_function_scope(t) ==
    LET u == end_symbol_scope(t)
    IN  [end_scope(u, u.function_scope) EXCEPT !.function_scope = u.scopes[u.function_scope].next]

start_file_scope(t) ==
    LET f == Len(t.scopes) + 1
    IN  [t EXCEPT !.scopes = Push(t, Builtin), !.file_scope = f,
                  !.function_scope = f, !.block_scope = f]

\* Mutant: the scope of the last file goes on.
KeepsFileScope(t) == start_file_scope(t)

new_file_scope(t) ==
    start_file_scope(IF t.file_scope = Builtin THEN t
                     ELSE [end_scope(t, t.file_scope) EXCEPT
                              !.file_scope = t.scopes[t.file_scope].next])

is_outer_scope(t, sc) ==
    /\ sc # t.block_scope
    /\ ~(sc = Builtin /\ t.scopes[t.block_scope].next = Builtin)

-----------------------------------------------------------------------------
\* The preprocessor.

Quiet == UNCHANGED <<open, current_fn, phase>> /\ warned' = FALSE

\* Every accepted definition is a new symbol, whether or not the old one was
\* in the same scope; only the refused ones look at the old symbol again.
do_handle_define(m, body, attr) ==
    /\ phase = "preprocess"
    /\ UNCHANGED <<open, current_fn, phase>>
    /\ LET s == lookup_symbol(tab, m, {"MACRO"})
           old == tab.sym[s]
       IN  IF s # 0 /\ attr < old.attr
           THEN warned' = FALSE /\ UNCHANGED tab
           ELSE /\ Room(1)
                /\ warned' = /\ s # 0
                             /\ old.body # body
                             /\ \/ attr = old.attr /\ attr = NORMAL
                                \/ old.used_in = tab.file_scope
                /\ LET b == bind_symbol(tab, m, "MACRO", TRUE)
                   IN  tab' = [b EXCEPT !.sym[b.chain[m][1]].body = body,
                                        !.sym[b.chain[m][1]].attr = attr]

\* The symbol u now says that its identifier is undefined.
undefined(t, u, attr) ==
    [t EXCEPT !.sym[u].ns = "UNDEF", !.sym[u].used_in = 0, !.sym[u].attr = attr]

\* Mutant: an outer definition is undefined in its own scope.
UndefInPlace(m, attr) ==
    /\ phase = "preprocess"
    /\ Quiet
    /\ LET s == lookup_symbol(tab, m, {"MACRO", "UNDEF"})
       IN  tab' = IF s = 0 \/ attr < tab.sym[s].attr THEN tab ELSE undefined(tab, s, attr)

\* Mutant: only a stronger undef takes effect.
UndefNeedsStronger(m, attr) ==
    /\ phase = "preprocess"
    /\ Quiet
    /\ LET s == lookup_symbol(tab, m, {"MACRO", "UNDEF"})
       IN  tab' = IF s = 0 \/ attr <= tab.sym[s].attr THEN tab ELSE undefined(tab, s, attr)

\* A symbol of the file scope itself is turned into an NS_UNDEF one; an outer
\* one, or none when the undef is strong, is hidden by a new one.
do_handle_undef(m, attr) ==
    /\ phase = "preprocess"
    /\ Quiet
    /\ LET s == lookup_symbol(tab, m, {"MACRO", "UNDEF"})
           old == tab.sym[s]
       IN  IF IF s # 0 THEN attr < old.attr \/ (attr = old.attr /\ old.ns = "UNDEF")
              ELSE attr <= NORMAL
           THEN UNCHANGED tab
           ELSE IF s # 0 /\ old.scope = tab.file_scope
           THEN tab' = undefined(tab, s, attr)
           ELSE /\ Room(1)
                /\ LET b == bind_symbol(tab, m, "MACRO", TRUE)
                   IN  tab' = undefined(b, b.chain[m][1], attr)

\* 0 unless m is defined.
lookup_macro(t, m) ==
    LET s == lookup_symbol(t, m, {"MACRO", "UNDEF"})
    IN  IF s # 0 /\ t.sym[s].ns = "MACRO" THEN s ELSE 0

\* #ifdef, defined() or an expansion.
UseMacro(m) ==
    /\ phase = "preprocess"
    /\ Quiet
    /\ lookup_macro(tab, m) # 0
    /\ tab' = [tab EXCEPT !.sym[lookup_macro(tab, m)].used_in = tab.file_scope]

-----------------------------------------------------------------------------
\* The parser.

Parsing == phase = "parse"
InFunction == open # <<>>

\* A variable, function, enumerator or typedef.
declare(id, ns, static) ==
    /\ Parsing /\ Room(1)
    /\ tab' = bind_symbol(tab, id, ns, static)
    /\ Quiet

\* struct id, or struct id { or ; with "whole".
struct_union_enum_specifier(id, whole) ==
    /\ Parsing
    /\ LET s == lookup_symbol(tab, id, {"STRUCT"}) IN
       IF s = 0 \/ (whole /\ is_outer_scope(tab, tab.sym[s].scope))
       THEN Room(1) /\ tab' = bind_symbol(tab, id, "STRUCT", FALSE)
       ELSE UNCHANGED tab
    /\ Quiet

\* goto id and id: bind the label where it is first seen.
label_symbol(id) ==
    /\ Parsing /\ InFunction
    /\ lookup_symbol(tab, id, {"LABEL"}) = 0
    /\ Room(1)
    /\ tab' = bind_symbol(tab, id, "LABEL", FALSE)
    /\ Quiet

\* __label__ id: of the block, though in the namespace of labels.
label_statement(id) ==
    /\ Parsing /\ InFunction /\ Room(1)
    /\ tab' = bind_as(tab, id, "SYMBOL", "LABEL")
    /\ Quiet

\* __func__: of the function, though in the namespace of symbols.
handle_func ==
    /\ Parsing /\ current_fn
    /\ lookup_symbol(tab, "__func__", {"SYMBOL", "TYPEDEF"}) = 0
    /\ Room(1)
    /\ tab' = bind_as(tab, "__func__", "LABEL", "SYMBOL")
    /\ Quiet

MayOpen(n) == Len(tab.scopes) + n <= MaxScopes

\* The body of a function with the arguments args, perhaps within another one.
start_function(args) ==
    /\ Parsing /\ MayOpen(2) /\ Room(1 + Cardinality(args))
    /\ LET t == bind_symbol(start_function_scope(tab), "return", "ITERATOR", FALSE)
       IN  \/ args = {} /\ tab' = t
           \/ \E a \in args : args = {a} /\ tab' = bind_symbol(t, a, "SYMBOL", FALSE)
    /\ current_fn' = TRUE
    /\ open' = Append(open, "function")
    /\ UNCHANGED phase /\ warned' = FALSE

end_function ==
    /\ Parsing /\ open # <<>> /\ open[Len(open)] = "function"
    /\ tab' = end_function_scope(tab)
    /\ current_fn' = FALSE
    /\ open' = SubSeq(open, 1, Len(open) - 1)
    /\ UNCHANGED phase /\ warned' = FALSE

\* A compound statement, a loop or a switch, with the symbols it binds.
start_block(binds) ==
    /\ Parsing /\ InFunction /\ MayOpen(1) /\ Room(Len(binds))
    /\ LET t == start_symbol_scope(tab) IN
       tab' = IF binds = <<>> THEN t
              ELSE bind_symbol(bind_symbol(t, binds[1], "ITERATOR", FALSE),
                               binds[2], "ITERATOR", FALSE)
    /\ open' = Append(open, "block")
    /\ UNCHANGED <<current_fn, phase>> /\ warned' = FALSE

compound_statement == start_block(<<>>)
start_iterator == start_block(<<"continue", "break">>)
start_switch == start_block(<<"break", "case">>)

end_block ==
    /\ Parsing /\ open # <<>> /\ open[Len(open)] = "block"
    /\ tab' = end_symbol_scope(tab)
    /\ open' = SubSeq(open, 1, Len(open) - 1)
    /\ UNCHANGED <<current_fn, phase>> /\ warned' = FALSE

-----------------------------------------------------------------------------
\* All of a stream is preprocessed before any of it is parsed.
EndOfPreprocessing ==
    /\ phase = "preprocess"
    /\ phase' = "parse"
    /\ UNCHANGED <<tab, open, current_fn>> /\ warned' = FALSE

NewFile ==
    /\ Parsing /\ open = <<>> /\ MaxScopes >= 2
    /\ tab' = new_file_scope(tab)
    /\ phase' = "preprocess"
    /\ UNCHANGED <<open, current_fn>> /\ warned' = FALSE

Next ==
    \/ \E m \in Idents, b \in Bodies, a \in Attrs : do_handle_define(m, b, a)
    \/ \E m \in Idents, a \in Attrs \ {WEAK} : do_handle_undef(m, a)
    \/ \E m \in Idents : UseMacro(m)
    \/ \E i \in Idents, ns \in {"SYMBOL", "TYPEDEF"}, st \in BOOLEAN : declare(i, ns, st)
    \/ \E i \in Idents, w \in BOOLEAN : struct_union_enum_specifier(i, w)
    \/ \E i \in Idents : label_symbol(i)
    \/ \E i \in Idents : label_statement(i)
    \/ handle_func
    \/ \E args \in SUBSET Idents : start_function(args)
    \/ end_function
    \/ compound_statement
    \/ start_iterator
    \/ start_switch
    \/ end_block
    \/ EndOfPreprocessing
    \/ NewFile

Spec == Init /\ [][Next]_vars

-----------------------------------------------------------------------------
\* Every symbol of an open scope is in the chain of its identifier, once:
\* remove_symbol_scope, which looks for it without a test for the end of the
\* chain, finds it.  And every symbol in a chain is of an open scope, so none
\* outlives its scope.
ChainsMatchScopes ==
    /\ \A sc \in 1..Len(tab.scopes) : \A s \in Elems(tab.scopes[sc].symbols) :
          /\ tab.sym[s].scope = sc
          /\ Cardinality({i \in 1..Len(tab.chain[tab.sym[s].ident]) :
                             tab.chain[tab.sym[s].ident][i] = s}) = 1
    /\ \A id \in AllIdents : \A s \in Elems(tab.chain[id]) :
          /\ tab.sym[s].ident = id
          /\ tab.sym[s].scope \in 1..Len(tab.scopes)
          /\ s \in Elems(tab.scopes[tab.sym[s].scope].symbols)

\* Namespaces that lookups take together.
Class(ns) == IF ns \in {"SYMBOL", "TYPEDEF"} THEN "ordinary"
             ELSE IF ns \in {"MACRO", "UNDEF"} THEN "macro" ELSE ns

\* A lookup finds the innermost binding: among the symbols of one identifier
\* that a lookup takes together, those of an inner block come first, and all
\* of a function's before those of the file.  (Between the file and the global
\* scope the later declaration wins.)  Labels and __func__, bound in the
\* function's scope from within its blocks, are no exception.
InnermostWins ==
    \A id \in AllIdents : \A i, j \in 1..Len(tab.chain[id]) :
        LET a == tab.sym[tab.chain[id][i]]
            b == tab.sym[tab.chain[id][j]]
        IN  i < j /\ Class(a.ns) = Class(b.ns) /\ b.scope > tab.file_scope
                => a.scope >= b.scope

\* What a macro stands for, here or (sc = Builtin) in every new file.
MeaningOf(t, m, visible(_)) ==
    LET hits == {i \in 1..Len(t.chain[m]) :
                    /\ t.sym[t.chain[m][i]].ns \in {"MACRO", "UNDEF"}
                    /\ visible(t.sym[t.chain[m][i]].scope)}
        s == t.sym[t.chain[m][FirstOf(hits)]]
    IN  IF hits = {} \/ s.ns = "UNDEF" THEN [body |-> NoBody, attr |-> 0]
        ELSE [body |-> s.body, attr |-> s.attr]

AnyScope(sc) == TRUE
OnlyBuiltin(sc) == sc = Builtin

Meaning(t, m) == MeaningOf(t, m, AnyScope)

MS == INSTANCE MacroSpec WITH
        Macros <- Idents,
        meaning <- [m \in Idents |-> Meaning(tab, m)],
        base <- [m \in Idents |-> MeaningOf(tab, m, OnlyBuiltin)],
        started <- tab.file_scope # Builtin

\* The chains and scopes do implement a table of macros that every source file
\* starts afresh from the builtin one: nothing a file defines or undefines,
\* and nothing the parser binds under the same names, survives it or changes
\* what the next file sees.
ImplementsMacroSpec == MS!Spec

\* A plain #define takes effect, and so does a plain #undef, whatever is
\* hidden further down the chain (no strong definition being around).
DirectivesObeyed ==
    [][\A m \in Idents :
         /\ \A b \in Bodies :
               do_handle_define(m, b, NORMAL) => Meaning(tab', m) = [body |-> b, attr |-> NORMAL]
         /\ do_handle_undef(m, NORMAL) => Meaning(tab', m).body = NoBody]_vars

\* "preprocessor token %s redefined" is said only of a macro that is defined.
OnlyDefinedIsRedefined ==
    [][\A m \in Idents, b \in Bodies, a \in Attrs :
         do_handle_define(m, b, a) /\ warned' => lookup_macro(tab, m) # 0]_vars
=============================================================================
