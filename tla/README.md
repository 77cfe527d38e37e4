# sparse, modelled in TLA+

This directory is a verification development of **sparse 0.4.4** as packaged
by `C::sparse` (`src/src/sparse-0.4.4`, made reentrant by the `sctx_` context
argument): a C front end (preprocessor, parser, evaluator) and a linearizer
that turns functions into basic blocks of pseudo instructions and optimizes
them. The Perl binding around it only wraps its pointers.

`tlc -config X.cfg M` checks a run, `tlapm M.tla` checks the proofs of a
module. `PROJECT.json` lists runs, mutants, hazards, findings and theorems, and
maps every definition to the lines it models.

Paths below are relative to `src/src/sparse-0.4.4/`.

## The system

A source file goes through the program in this order: `tokenize.c` makes a
token list of it, `pre-process.c` rewrites that list in place (and calls the
tokenizer for headers), `parse.c`/`expression.c` build trees from it and bind
symbols (`symbol.c`, `scope.c`), `evaluate.c` types them, `expand.c` and
`inline.c` fold constants and inline calls, `linearize.c` makes blocks, and
`simplify.c`, `cse.c`, `flow.c`, `memops.c`, `liveness.c`, `unssa.c` and
`storage.c` work on those. Everything is kept in `ptrlist.c` lists and
`allocate.c` blobs of one `struct sparse_ctx`. The program is sequential: what
is hard in it is not concurrency but protocols that are spread over many
functions, data kept in several places, lists that are edited while they are
walked, state that outlives a source file, and loops that run until nothing
changes.

| component | state | operations | what makes it right | module |
|---|---|---|---|---|
| preprocessor line loop (`pre-process.c`) | `false_nesting`, per stream `top_if`, `ifndef`, `dirty`, `protect`, `constant`, `once` | every directive, text, end of stream and of source file | conditionals nest over includes; a header is skipped only if reading it does nothing | CondGroups, CondSpec, PreProcess, PreGuard |
| symbols and scopes (`scope.c`, `symbol.c`; users `pre-process.c`, `parse.c`) | chain of symbols per identifier, list of symbols per scope, block, function and file scope | start/end of scopes, bind, lookup, `#define`, `#undef` | chains and scopes agree; innermost binding wins; files do not leak into each other | SymbolScope, MacroSpec |
| control flow graph (`flow.c`, `linearize.c`, `simplify.c`, `cse.c`) | `ep->bbs`, children, parents, terminators, `repeat_phase` | constant branches, packing, killing, jump threading | three copies of an edge agree; no path is added; the loop ends | FlowGraph |
| pointer lists (`ptrlist.c/.h`) | ring of blocks, cursors of running loops | add, undo, delete, replace, pack, split, loops | is a sequence, under any edit by a loop's body | PtrList, PtrSeq |
| macro expansion (`pre-process.c`) | token list, `tainted` of identifiers | collect, substitute, `#`, `##`, taint | no macro within itself; every taint removed; it ends | MacroExpand |
| linearizer (`linearize.c`) | blocks, active block, pseudos, access lists of symbols | one function per kind of statement and expression | the blocks do what the tree says | CFunction, BlockMachine, Linearize |
| optimizing loop (`simplify.c`, `cse.c`, `flow.c`) | instructions, uses of pseudos, `repeat_phase` | simplify, value numbering, packing, threading, killing | the meaning is kept; nothing undefined is used; it ends | Simplify, Cse, Flow, LinearizeFn |
| memory operations (`memops.c`, `flow.c`) | `generation` marks, accesses of symbols | dominating stores of a load, dead stores | never past an alias or a call; ends on cycles | Memops, Cse |
| liveness (`liveness.c`) | needs and defines of blocks | sweep until nothing changes, death notes | ends; the exact solution | Liveness, Flow |
| unssa, storage (`unssa.c`, `storage.c`) | copies; storage of pseudos per block | phi-nodes to copies | values arrive | Flow (unssa) |
| sort (`sort.c`) | ring of blocks, buffer | merge blocks in place | stable; ring whole; buffer large enough | SortList |
| tokenizer (`tokenize.c`, `char.c`) | stream buffer, identifier hash | next token, strings, escapes | longest match; positions | not modelled |
| parser (`parse.c`, `expression.c`) | token cursor; scopes above | recursive descent | scopes paired | scopes only |
| type evaluation (`evaluate.c`) | types of trees | conversions, initializers | C's typing rules | not modelled |
| constant expansion (`expand.c`) | trees with costs | folding | C arithmetic at its width | not modelled |
| inlining (`inline.c`) | `replace` of symbols | copy trees | every replacement undone | not modelled |
| context checker (`sparse.c`) | `bb->context`, generation marks | walk all paths | imbalance reported exactly once | not modelled |
| allocator, context (`allocate.c`, `ctx.c`) | blobs, free lists | alloc, free | no object twice | not modelled |
| back ends and browsers (`compile-i386.c`, `example.c`, `sparse-llvm.c`, `c2xml.c`, ...) | output | print | - | only as the meaning of blocks, BlockMachine |

How they interact in the models: PreGuard puts a history beside PreProcess;
`defs` of PreProcess is what `lookup_macro` of SymbolScope finds, and its
`NextFile` is SymbolScope's `NewFile`; the lists of blocks in FlowGraph are
sequences, which PtrList justifies (it refines PtrSeq, loops with edits in
their bodies included). Linearize, Memops, Liveness, Simplify, Cse and Flow
EXTEND each other in the order in which `linearize_fn` calls them, and
LinearizeFn composes them: one entrypoint `ep` goes through all of them.
FlowGraph looks at the same loop from further away: it abstracts instructions, so that
it can take every graph of four blocks and every order of simplifications.

## Modules and the code

### CondGroups, CondSpec, PreProcess

CondGroups says what an open group is (`active`: its lines are processed;
`may`: a later branch still may be; `els`: it had its `#else`) and what
`#if`, `#elif`, `#else` and `#endif` do to the list of them. CondSpec is the
promise: a stack of open files, each with groups of its own. PreProcess is the
code: one counter `false_nesting` for all streams, and per stream only a
list of kinds (`SKIP_GROUPS`, `IF`, `ELSE`).

One action is one line read by `do_preprocess`: each conditional handler
(`handle_ifdef`, `handle_ifndef`, `handle_if`, `handle_elif`, `handle_else`,
`handle_endif`, with the malformed and unmatched cases as actions of their
own), `#define`, `#undef`, `#pragma once`, `#include` (with
`already_tokenized`), any other line (`Text`), the end of a header (`Return`)
and of a source file (`NextFile`). A condition of `#if` is the set of macro
environments in which it holds. Each handler contains its calls of
`dirty_stream`, `end_group` and `nesting_error`, the three C macros that steer
the include-guard detector. Lines inside the arguments of a macro call
(`collect_arg`) are not modelled, and which file an `#include` finds is a choice:
of the search, only what `try_include` does with a path is translated. What
`token_defined` does to `used_in` is in SymbolScope.

### PreGuard

`already_tokenized` skips a header that was read before if it is `constant`
and its `protect` macro, if any, is defined. PreGuard adds a history that no
guard depends on: for every macro environment at once, would the lines read so
far have had an effect in it, and does the file have the shape of one
`#ifndef m ... #endif`? `GuardSound` and `GuardEffective` compare the flags of
closed streams with that.

### SymbolScope, MacroSpec

`tab` holds the identifiers' chains, the symbols and the stack of scopes with
their symbol lists; `open`, `current_fn` and `phase` say what the parser is
in. Actions are `do_handle_define`, `do_handle_undef`, a use of a macro
(which sets `used_in`), and what binds symbols in the parser: declarations,
tags, labels, `__label__`, `__func__`, functions with arguments (also nested
ones), compound statements, loops and switches; their ends; `NewFile`.
Of `external_declaration` it is the binding of the name. The early returns of
`bind_symbol`, for reserved words and symbols already bound (`symbol.c:559`), are
not met: the actions bind fresh symbols to ordinary names.
MacroSpec is an abstract table of macros with a builtin base.

### MacroExpand

`lists` is the stack of token lists being scanned: the one the preprocessor
reads and, above it, those of arguments (`expand_list` called by
`expand_arguments_pp`), each with its tokens scanned and to come and with the
call that waits. `tainted` is the flag of the identifiers. One action is one
turn of the loop of `expand_list`: a token passed over (`PassToken`; a tainted
one, `PassTainted`; a function-like name without parenthesis, `PassName`; a
call with wrong arguments, `BadCall`), an expansion (`ExpandObject`;
`collect_arguments`, then `expand_argument` for each one and `ExpandCall`), or
the end of the list. `scan_next` undoes the taint of every marker it skips, at all
its callers; those that `collect_arg` skips go in the step of the call.
A macro's body is given as `parse_expansion` leaves it; the bodies for which
`handle_kludge` finds anything but arguments and `##` are left out. `hide` and `within` are
history: the hide set of the published algorithm of the C standard's committee
(Prosser's), and whether a token came out of its own name's body.

### FlowGraph

`g` holds the graph; `phase` and `at` say where the loop of `linearize_fn` is:
`cleanup_and_cse` (simplifications in any order), `pack_basic_blocks` (one
block per step), `kill_unreachable_bbs` with `vrfy_flow`, and
`simplify_branch_nodes` (one block per step). Edits of lists that are walked
(`insert_branch`, `rewrite_branch_bb`, `kill_bb`) are translated in the order
in which the code does them, assertions included (`asserts` turns FALSE).
Instructions are abstracted to "some without side effects" and the sequence of
side effects, conditions to a shared register, its negation, an own register
or a constant. When an own register turns out constant, or dead code dies, is a
choice: it stands for `simplify_instruction` and value numbering.

### PtrList, PtrSeq

`mem` holds the blocks, `walk` the cursor of a running `FOR_EACH_PTR` or
`FOR_EACH_PTR_REVERSE`, `packing` that of `pack_ptr_list`: those two advance
one C loop step at a time, so that deletions, replacements, insertions (with
`split_ptr_list_head`) and appends of a loop's body come between any two steps.
`unpacked` and `undone` record that a caller owes a packing or an append:
no caller asks for the first or last element before. PtrSeq is a plain
sequence with a cursor: a loop meets the next element after the one it is at, an
insertion goes before that one, to pack changes nothing.

### Linearize and what follows it: LinearizeFn

The family answers one question: do the blocks that `linearize_fn` makes, at each
point where it could hand them over, do what the function's tree says?

* **CFunction** is the meaning of the tree: an interpreter whose state is the
  rest of the program as a list of things to do. The world answers a call with
  a value and may change the variables it sees; a volatile variable is answered
  for like a call. What can be observed are calls with their arguments,
  volatile accesses, the variables at each of these points and the return.
* **BlockMachine** is the meaning of blocks: what `sparse-llvm.c` makes of each
  instruction (a phi-source stores to the place of the phi-node, a phi-node
  loads it). With death notes, a register is gone after its last use, as in
  `kill_dead_pseudos` of `example.c`.
* **Linearize** is `linearize.c`: one action is the entry of one handler
  (`linearize_statement` and what it calls, `linearize_expression`,
  `linearize_cond_branch`, `linearize_select`, ...). The C stack is `todo`, a
  stack of work that names the blocks a frame has allocated; `vals` is the stack of
  operands. Functions of the code that change the entrypoint without recursing (`add_goto`,
  `add_branch`, `set_activeblock`, `add_label`, `use_pseudo`, ...) are
  operators from entrypoint to entrypoint with the code's names.
* **Memops** is `simplify_symbol_usage` and what it shares with `memops.c`:
  dominating stores of a load through the parents, with generation marks,
  phi-nodes where they differ, and dead stores.
* **Liveness** is `track_pseudo_liveness`, one sweep over the blocks per step.
* **Simplify** is `simplify_instruction` with `insert_branch`, `insert_select`
  and `kill_use`; **Cse** is `cleanup_and_cse` with `simplify_memops`; **Flow** has
  `pack_basic_blocks`, `simplify_flow`, `track_pseudo_death` and `unssa`.
* **LinearizeFn** is `linearize_fn`. `phase` says what runs: `linearize`, `symbols`
  (one access list per step), `clean` and `cse` (one chain of equal hashes per
  step, in any order: it is that of addresses), `liveness`, `done`, and what a
  back end adds, `dead` (death notes) or `unssa`. Out of every
  phase but `linearize` and `liveness` the functions may be executed (`run`): the tree
  and the blocks in step, one call after the other.

A symbol is a scalar that is loaded and stored; `==` is the only arithmetic
(`!=` comes from branches), which is what the code's control depends on.

### SortList

`sort.c` on a ring of blocks: one action is one turn of a loop of `sort_list` or
`merge_block_seqs` (sort the elements of a block, skip an element, take one from
either sequence, flush the buffer into a block, move a used-up block in front of the
first sequence, end a pass). Blocks have at most `NR` elements and may be empty.

## Runs

| run | what it explores | bounds |
|---|---|---|
| preprocess | TypeOK, NestingOK, refinement of CondSpec | one macro, header that may include itself; groups 1/3/1 in source, header, inner header; depth 3; one closed stream; ~256 000 states |
| include_guard | GuardTypeOK, GuardSound, GuardEffective | two macros, one predefined; two nested groups in the header, which includes nothing; depth 2 |
| symbol_scope | chains, lookups, macro table refinement, directives | one identifier in all roles, 2 bodies, 4 symbols, 5 scopes |
| macro_expand | TypeOK, TaintIsBalanced, NeverWithinItself, HiddenOnlyWithinItself, Terminates | 21 000 pairs of definitions of `f` and `g` and a list of up to 7 tokens; 117 241 states |
| redefined | violated, see findings | as symbol_scope |
| flow_graph | TypeOK, EdgesAgree, PathsKept, PackingEnds | 2436 functions of 4 blocks; 81 202 states |
| flow_hang, flow_asserts | violated, see findings | as flow_graph |
| ptr_list | TypeOK, LinksAgree, NoBlockLost, refinement of PtrSeq | 2 elements, 3 blocks of 2; 145 252 states |
| linearize_fn | FnTypeOK, SameBehaviour, NoFault, EdgesAgree, UsesDefined, NeedsExact, Optimized | several hundred functions, values 0 and 1; 130 730 states |
| select | violated, see findings | one function |
| sort_list | SortTypeOK, BufferExact, RingWhole, SortedStably, Sorts | up to 4 blocks of at most 2 elements of 2 ranks, 5 blocks of at most one of 3 ranks; 103 862 states |

Why they are enough to be worth something: three nested groups are needed for
`false_nesting` to exceed the one group that `#elif` and `#else` may change;
a header needs two groups for a second one to be mistaken for its guard, and a
second macro for a second `#ifndef` to name the wrong one. A header that includes
itself is in preprocess but not in include_guard, where it multiplies the states past
what can be explored (with one group in each header there are already
7.5 million): that `GuardSound` holds for it too is what the theorem `GuardSoundness` shows. 5 scopes are builtin,
file, function, its block and an inner block; four flow blocks allow two loops
that share a target, self loops and unreachable loops; blocks of 2 in a ring of 3
allow a split, an empty head, an empty middle and an empty tail. `NR = 2` keeps
what matters of 29: a block can be neither empty nor full, and a split
leaves elements on both sides. Macro bodies are those
where the order of untainting matters: calls completed by text behind the
macro, a name passed through an argument, a name that `##` makes, parentheses
that a body leaves open or closes too often. Five blocks to sort
allow passes of 1, 2 and 4 blocks with an odd one left over. The bounds `MaxTokens`, `MaxNest`, `MaxDepth`, `MaxStreams`,
`MaxSyms`, `MaxScopes`, `NBlocks` are guards of the actions that would exceed
them and stand for nothing in the code.

The functions of linearize_fn are the combinations of small statements in
MCLinearizeFn: conditionals with every kind of condition, loops of every form with
`break` and `continue`, switches with ranges and fallthrough, labels and gotos, computed
gotos, conditional and statement expressions, inlined calls, comparisons made
twice, variables that calls see and change, branches on one condition around a definition,
values that come straight from a branch. Each is small enough to be followed
for all arguments, answers and changes of memory, and together they make every
action of the family fire. `MaxSilent` bounds how long either execution goes on without
a call; 60 is several times the longest silent path, so reaching it means an endless
loop, in the tree and in the blocks. The functions with which the code is known to go
wrong are not among them (see *Findings*): a loop that branches on a
loop-carried variable recomputed at its end, or a condition read again after a branch on it
(`try_to_simplify_bb` with a phi-source whose block changes, and flow_hang);
copies between variables inside loops (phi-nodes that read each other, which
`unssa.c` orders as they come); a loop with a single store of the variable it reads; a
label nobody jumps to (`linearize.c:2028` drops its statement); computed gotos with
a conditional in their expression (the stale `active` of `linearize.c:2042`);
statement expressions that leave out of `?:` (`alloc_phi` of no block,
`linearize.c:814`) or out of a loop's condition; a switch that is not reached but has
labels in it (`linearize.c:1891`); two volatile accesses without a call in between.
So `SameBehaviour` and `NoFault` say nothing of those. For the passes concerned they show
what all other functions need: without one of the tests for side effects and
dependences in `simplify_phi_branch`, `try_to_simplify_bb` and
`simplify_branch_branch`, or with the sides of a select in `if_convert_phi`
matched by only one of its branch's targets, `SameBehaviour` fails.

Symmetry is used in ptr_list only (elements are never told apart).
Deadlock is checked but for the FlowGraph and MacroExpand runs, where
`linearize_fn` and `expand_list` return (LinearizeFn has an action for what is over,
SortList for what is sorted). `MaxTokens` is never met: `Terminates`
would fail if it stopped a scan.

**Fairness.** FlowGraph, MacroExpand, SortList and LinearizeFn state it:
`WF_vars(Next)` (in LinearizeFn written out: `Busy` is what enables a step, and evaluating
ENABLED would run the whole phase again). The program is one
thread that goes on while it has something to do; which simplification comes
first is not assumed fair. `PackingEnds` holds since every step of the inner loop
uses something up (constants, instructions, blocks, targets).

## Findings

All four were confirmed by running the code.

* **redefined**: with `-DA`, the file `#undef A` / `#define A 2` is answered
  by "preprocessor token A redefined". `do_handle_define` looks for `NS_MACRO`
  only (`pre-process.c:1576`), past the `NS_UNDEF` symbol that hides the old one.
  For the same reason a `#weak_define` of a name that has been undefined is refused if
  what the `#undef` hides was stronger. Nothing says whether it should be: MacroSpec
  allows both, and no property judges it.
* **flow_hang**: `test-linearize` does not end on
  `int f(int c, int h) { int x = 1; if (c) { a: if (x) goto b; x = h; goto a; b: if (c) goto a; } return 0; }`
  because `simplify_branch_branch` moves the entry's branch to the block with
  the phi, and `try_to_simplify_bb` moves it back, in every pass.
* **flow_asserts**: `test-linearize` aborts (`ptrlist.c:162`) on
  `extern void A(void),B(void),C(void); int f(int c,int d){ int k=0,m=2,z=0; if (d & 0) { U: k=1; m=c; if (c) goto U; } if (d) { if (d) A(); else B(); } if (k) { S: switch (m) { case 1: goto S; case 2: A(); break; case 3: B(); break; default: C(); } } return 0; }`
  because `insert_branch` on a block that is its own only parent kills that
  block while its children are being walked.

* **select**: `test-linearize` makes `int f(int x) { return (x = ask()) ? x : 1; }`
  return the `x` that was passed. `expand_conditional` turns a conditional whose
  sides are cheap into a select (`expand.c:518`), and `linearize_select`
  (`linearize.c:1302`) linearizes the sides before the condition. In the same way
  `ask() ? vg : 0` loads `vg` before the call.

Two more disagreements were met while modelling and have no run, so as to keep one run per
question. `memops.c:85` and `memops.c:150` ask nothing about volatile
symbols, so a second read of one in a block is dropped, although `flow.c:608` says
"We don't do coverage analysis of volatiles..". And `try_to_simplify_bb`
(`flow.c:95`) believes a phi-source in a block that has been emptied since: in
`y=0; if (a==b) x=1; else x=0; if (y==0) x=a; else ask(); if (x) use(0); else use(a);`
the last branch ends up on `a==b`.

In FlowGraph, `EdgesAgree` is stated up to the first failed assertion: after it the
program is gone. `TypeOK` holds regardless.

## Proofs

Assumptions: `PreAssumption`, `PtrListAssumption`, `ScopeAssumption`,
`SortAssumption`, `FlowAssumption` and `MacroAssumption` (constants are
what they are meant to be; TLC evaluates them). `MacroAssumption` has bodies as
`parse_expansion` leaves them (`Parsed`), `FlowAssumption` branches as `add_goto` and
`add_branch` make them (`Formed`), none to the block of the `OP_ENTRY` (labels and loops
start blocks of their own), and each block in `ep->bbs` once, where
`set_activeblock` puts it. All results hold for every set of
macros, headers, conditions and identifiers, every list of tokens, every depth of inclusion and of nesting,
every number, size and contents of blocks, symbols and scopes, since the bounds are
constants too. The proof modules EXTEND the modules they are about.

* **PreProcess_proofs**: `TypeCorrect`, `NestingCorrect`. The inductive
  invariant is `IInv == TypeOK /\ NestingOK`: typing alone is not
  inductive, because `handle_endif` takes from `false_nesting`, and
  `NestingOK` alone needs types. `GroupsOK` relates the counter to the list of
  kinds: at most as many skipped groups as are open, none pushed as `SKIP_GROUPS`
  outside of a skipped one, none of kind `IF` inside of one. The lemmas
  OpenStep, BranchStep, PlainStep, IncludeStep and EndStep cover the actions.
  `Refinement` is `Spec => ImplementsCondSpec`. The
  mapping `GroupsOf` rebuilds each abstract group from its kind, its position
  and the counter; each handler maps to one step of CondSpec or to a stutter.
  `NestingOK` is used where `#elif` and `#else` store 0 or 1 in the
  counter, which is right only if the group is the outermost skipped one.
* **PreGuard_proofs**: `GuardTypeCorrect`, `GuardSoundness`,
  `GuardEffectiveness`. The invariant `GInv` adds to `IInv`, for every open
  stream: `Tracks` (the history has as many groups per environment as the stream
  has open), `Safe` (a clean stream without a closed guard had no effect anywhere, and
  under a guard there was none where the guard's macro is defined, since its group is
  not active there) and `Shaped` (a stream that is wrapped so far is recorded
  as such), and `ClosedOK` for the closed ones.

* **PtrList_proofs**: `TypeCorrect`, `LinksCorrect`, `BlocksCorrect`, `Refinement`. The
  invariant is `Inv == TypeOK /\ LinksAgree /\ Reached /\ Cursors /\ EmptyAhead /\
  NoneEmpty`. That no block is lost means that a walk along `next` from the head meets
  all of them; instead of an induction along the walk, `Reached` says that every set of
  blocks that contains the head and is closed under `next` contains all blocks in use, and
  each edit of the ring (append, split, free) takes a closed set after it to one before it.
  `Cursors` keeps the running loop and the packing on blocks in use;
  `EmptyAhead` says that packing has left no empty block behind it, and
  `NoneEmpty` that otherwise only the last block may be empty, after an undo: that is
  why an empty block is freed when the ring is packed, and why `first_ptr_list` may trust
  the head.
  `Refinement` is `Spec => ImplementsPtrSeq`: whatever blocks an element is put in, split from
  or packed away with, and wherever a loop stands meanwhile, the list is the sequence of PtrSeq
  and the loop at its place in it. The model finds that sequence by walking the
  ring (`Until`), which no proof can follow, so `RefInv` says instead that there are a
  sequence and an order of the blocks that agree: `RingOf` (the order is that of `next`, from the head), `Chop`
  (the sequence is cut into the lists of the blocks, each at its offset) and
  `Placed` (a loop in block `c` at `nr` is at offset of `c` plus `nr`). Lemmas about
  chopped sequences alone say what becomes of the offsets when one list gets or
  loses elements, is cut in two, or is empty and drops out;
  `ChopUnique` and `SeenUntil` lead back to `Until`. Then one lemma per
  operation shows a step of PtrSeq or a stutter (`split_ptr_list_head`, moving on to the next block,
  freeing an empty block while packing).
  `LoopOk` is needed for where a loop starts: at the first block before its first
  test, and with no element found unless the body runs.
* **SymbolScope_proofs**: `TypeCorrect`, `ChainsCorrect`, `InnermostCorrect`. The
  invariant is `Inv == TypeOK /\ Chained /\ Stacked /\ Inner` (and nothing is open
  while a file is preprocessed). `Chained` is `ChainsMatchScopes` in both directions,
  with what keeps it inductive: no symbol is in a chain twice, and one that is bound
  was in none. It would not survive `end_function_scope`, which ends
  `block_scope` and then `function_scope` and trusts that these are the last two scopes
  and that `next` leads back; that is `Stacked`: functions `P`, `F` give the
  block and function scope within the first `i` things that are open (`Levels`),
  the file scope is what they start from, and the last of them is the top
  (OneLevelMore, OneLevelLess: opening and ending one thing). `Inner` is `InnermostWins`; a new symbol
  keeps it if it `Hides`: it is of the innermost scope, or nothing
  is open, or the chain has nothing a lookup would take it for (`label_symbol` and `__func__`, bound in
  the function's scope from within its blocks, after a lookup found none).
  `MacroRefinement`, in the second half of the module, is `Spec => ImplementsMacroSpec`. What a chain
  says of a macro is what its first symbol of that kind says; `Says(t, id, S, d)` states that
  without CHOOSE, for the scopes `S` (all of them, or only the builtin one). Each
  operation on the table either `Keeps` what is said of every identifier (a
  symbol that is not a macro is bound, a scope within the file ends, a macro is used) or
  `Changes` it for one (`FreshChanges`, `UndefChanges`), or `Restarts` it from the builtin
  scope (`NewFile`). The invariant beside `Inv` is `Placed`: macros are only of the
  builtin scope and of the file, which is why ending a block never uncovers or
  removes one. That an ignored definition is a weaker one (`WeakerIsRefused`) needs that
  an `NS_UNDEF` symbol counts as strength 0.
  `ObeyedWithoutStrong` is `Spec => DirectivesObeyed` for every set of strengths
  up to `NORMAL`, that is while `#strong_define` and `#strong_undef` are not used; with
  them the property is false, as it should be. `Given` is what it adds to `Inv`: the strength of
  every symbol, bound or free, is that of some directive or 0, because no operation
  of scope.c or of the parser makes one up. So a lookup finds nothing stronger than the directive
  (`NoneStronger`), the directive is not refused, and `DefineChanges` and `UndefTakes` say what
  it does; a plain `#undef` that does nothing found nothing, or an `NS_UNDEF` symbol first (`FindsSays`).
* **MacroExpand_proofs**: `TypeCorrect`, `TaintCorrect`, `NeverExpandedWithin`,
  `HiddenCorrect`. The invariant is `Stack(lists, tainted)`: the markers
  (`TOKEN_UNTAINT`) ahead in the list on top and in those that wait for it are what is
  tainted, none of them twice; every other token ahead has the names of the markers behind
  it in its hide set (`Unscanned`); what came out of the body of its own name is
  painted, and what is painted is in its hide set (`Plain`); and the arguments that
  were collected have in their hide sets all that is still tainted
  (`Waiting`). So the tokens of an argument need no markers, though they came out of
  expansions: `collect_arg` has undone these (`CollectedIs`), and what is left
  was behind them too (`Drop`). `SubstituteIs` goes along the body token by token
  (`PutIs`): what it puts out is painted by the call, and `##` always
  has something to paste to, for which `Parsed` and the placeholders are
  needed.
* **SortList_proofs**: `SortTypeCorrect`, `BufferCorrect`, `RingCorrect`, `SortedStablyCorrect`,
  for lists of any blocks of any size. The invariant `IInv` is `Inv /\ Order`. `Inv` speaks of a *listing* `r`, all blocks
  once, from the head on, with `next` and `prev` going around it (`Ring`). The two cursors
  of a merge are `r[q1]` and `r[q2]`, the `n` blocks left of the first sequence lie before
  the second and the `m` left of that before the end (`Cursors`). Blocks between the two
  are empty ones of the second sequence that were skipped. That is why `flush`, which goes on to `b2`,
  meets it and needs nothing from the buffer on the way, and why moving a block to the front of the first sequence (`MovedRing`, `ShiftedListing`)
  leaves one ring. The walks of the pass are recursive functions; `AheadIs` says where they get.
  `Order` is about what the list holds when the buffer is counted in
  (`Content`: triples of the place of a block, a position and an element, where the buffer goes before what
  is left of the block that `b1` is at, or after it in `next1`). Its elements are always those of the list
  that was given (`Whole`), and of any two the earlier one `Precedes`, unless a sequence starts between
  them, or they are in what is left of the first and of the second sequence of the running merge (`Sorted`). `Marks`
  says where sequences start: before block `after` they are twice as long as after it
  (`Spaced`), so a merge of the first sequence with all the rest leaves none, and the list is sorted. Taking an element
  from the second sequence is where stability is decided; flushing the buffer and
  moving a block change no pair's order, though they change every place.
* **FlowGraph_proofs**: `TypeCorrect`, `EdgesCorrect`, `EffectsKept`, for any blocks and any function. The
  invariant is `IInv == TypeOK /\ (g.asserts => Sound(g) /\ Good(g))`; `Sound` is `Agree` (what
  `EdgesAgree` says of a graph) and `Unlisted`: a block that is not in `ep->bbs` any more has been
  killed. `kill_unreachable_bbs` needs that, as it kills listed blocks only. Lists are compared by counts
  (`CountRemoveFirst`, `CountReplaced`, `CountWithout` ... say what the list functions do to
  them), and each edit has a lemma on what it does to the counts `C`, `P` and `T` of the three
  copies. (`Good` is for the paths, below.) Most edits restore all three before they return (`Redirects`, `Follow`: whatever
  assertion fails), but three do not. `rewrite_parents` has to leave no branch
  to the block before that is killed (`Off`). `insert_branch` walks the children it deletes: `Half` says that
  the children are those ahead in the walk, and the target if it has been met; when the
  block was its own last parent it kills itself on the way (`Gone`), and then the next deletion
  fails its assertion, which is the finding of run `flow_asserts`. `kill_unreachable_bbs` leaves dead blocks with
  branches to killed ones until it has killed all (`KilledAll`); no block within
  reach has such a branch because `Reachable` is closed.
  `EffectsKept` is `Spec => PathsKept`. The property is one-sided: what is new is forbidden, what is gone is not,
  because constant conditions and threading do drop paths, and the choice that stands for value numbering decides which.
  That what is left is the right part is for `SameBehaviour` of LinearizeFn. It is not about single edges but about what may come next after a side
  effect (`After`), which is a closure over paths through blocks without any. `From` computes
  it by as many rounds as there are blocks; that this is enough (`FromClosed`) and
  that it is the least closed set (`AheadLeast`) is all that is used of it afterwards. An edit
  `Preserves` the paths when every pair that may happen after it was one before. Such relations
  compose, also within one edit, so that loops go one turn at a time. `Mimics` is the simulation
  that shows it of one turn: each block that may still be run `Stands` for itself, or
  for itself and the block merged into it, and goes on only to what could come after that without a
  side effect. From it follow the four kinds of turn: a branch goes to what it, or a
  silent target of it, led to (`PathsRebranch`, `PathsRedirect`); a branch of a block that nobody
  goes on to for that condition (`PathsAvoided`); blocks that nobody goes to are killed (`PathsRid`);
  a block is merged into its only parent (`PathsMerged`). They need `Sound`: that
  `insert_branch` may make a conditional branch of a *target* unconditional rests on its one entry
  in `parents` (`OnlyParentSettled`). And they need `Good`: a side effect is in
  one place only, the function starts with that of the entry, and no branch goes back there.
  That a path never runs into a killed block is that something always comes next (`Goes`): a side effect, an
  end, or, since blocks are finitely many, a circle (`Circle`).
* **Recursion_proofs**: no operator can be a parameter of a theorem the provers are to
  use, so induction over data is done with sets: `Least` (a set of counterexamples
  has a least element), `Greatest`, and `Recursive` (a recursive function exists
  and satisfies its equation). PtrList_proofs uses them for `Others` and
  `LastFilled`, the recursive functions of PtrList, SymbolScope_proofs for `Kept`, what
  `remove_symbol_scope` leaves of a chain, MacroExpand_proofs for `NoMarkers` and
  `substitute`, SortList_proofs for `array_sort` and the walks, FlowGraph_proofs for every
  loop over a list (`Loop`).

Only model-checked: the family of LinearizeFn (its modules have
RECURSIVE helpers, which exclude theorems). `PackingEnds`, `Terminates`, `Optimized` and
`Sorts` are liveness under fairness and stay with TLC.

## Not modelled, and why

* Option parsing, predefined macros, dumps, browsers, demonstration back ends:
  tables and output.
* The grammar: recursive descent over an unbounded list whose result is a
  tree; only its effect on scopes is a protocol.
* The include path search: needs a file system; its outcome is a choice.
* Perl binding: generated accessors; lifetimes depend on Perl's counts.
* In the family of LinearizeFn: arithmetic other than `==` and `!=`, casts, sizes, offsets and
  bit-fields, addresses of variables (`SYMADDR`, the cleanup that
  `REPEAT_SYMBOL_CLEANUP` asks for), initializers, `asm`, ranges and contexts, the marker
  `OP_INLINED_CALL`, `sort_switch_cases`, exchanging the ends of a case whose
  range is upside down, and the update of needs and defines in `unssa.c`.
* Constant expansion: 64-bit arithmetic over trees, a pure function whose operands
  TLC could enumerate only at widths that the code does not use.
* Inlining copies trees; the context checker walks blocks for statements that
  Linearize leaves out; the allocator is a bump pointer and a free list.

Most of the repository's lines are not sparse: `perl/t` holds sources of QEMU
as input for the tests (94 000 lines). Sparse and its tools have
some 38 000, of which those mapped are the part that keeps state.

## Plan

Done: the preprocessor with its guards, scopes, FlowGraph, MacroExpand, PtrList, Linearize
with all that `linearize_fn` calls, sort; the proofs about PreProcess, PreGuard, PtrList, MacroExpand, SortList, FlowGraph and SymbolScope,
with its refinement of MacroSpec.

What is left, the most stateful first:

1. **MacroExpand**, the rest of it: `parse_expansion` from written bodies, and the
   lines of a file inside arguments (`collect_arg`, composed with PreProcess).
2. **Context** (`sparse.c`): context statements in Linearize, and the path walk
   against a definition by paths.
3. **Inline** (replace and unset), **storage.c** on the blocks that `unssa` leaves.
4. Addresses and offsets in Memops: `overlapping_memop`, `dominates` with sizes.
5. Pure algorithms against reference definitions: constant folding at width
   (`expand.c`), the tokenizer's automaton, integer conversions
   (`evaluate.c`), bit-field layout (`symbol.c`).

Theorems: the family of LinearizeFn, once its helpers are recursive functions. Runs stay
at a dozen: one per module or family, and one per finding.
