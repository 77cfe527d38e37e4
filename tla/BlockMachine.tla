---------------------------- MODULE BlockMachine ----------------------------
(***************************************************************************)
(* What the blocks of an entrypoint do when they are executed: what        *)
(* sparse-llvm.c makes of each instruction.  A phi-source writes the place *)
(* of the phi-nodes that use it, and a phi-node reads its place, wherever  *)
(* in a block it stands.  A pseudo with a death note is gone once the next *)
(* instruction has been executed (kill_dead_pseudos in example.c).         *)
(***************************************************************************)
EXTENDS CFunction

\* h: the entrypoint; argv: the arguments; reg and place: the registers and the
\* places of phi-nodes, by instruction; b, i: the next instruction.
Entry(h, argv, mem) ==
    [b |-> 1, i |-> 1, argv |-> argv, mem |-> mem, obs |-> Silent, dying |-> {},
     reg |-> [id \in DOMAIN h.insn |-> Undef], place |-> [id \in DOMAIN h.insn |-> Undef]]

Value(m, p) ==
    CASE p.kind = "val" -> p.nr
      [] p.kind = "arg" -> m.argv[p.nr]
      [] p.kind = "reg" -> m.reg[p.nr]
      [] p.kind = "tmp" -> m.place[p.nr]
      [] OTHER -> Undef

Buried(m) ==
    IF m.dying = {} THEN m
    ELSE LET left(kind, s) == [n \in DOMAIN s |-> IF [kind |-> kind, nr |-> n] \in m.dying
                                                    THEN Undef ELSE s[n]]
         IN  [m EXCEPT !.reg = left("reg", @), !.argv = left("arg", @), !.dying = {}]

Execute(h, m) ==
    LET id == h.insns[m.b][m.i]
        i == h.insn[id]
        v == Value(m, i.args[1])
        next == [Buried(m) EXCEPT !.i = @ + 1]
        Jump(b) == [Buried(m) EXCEPT !.b = b, !.i = 1]
        Stop(at, fn, seen) == [m EXCEPT !.obs = Shows(at, fn, seen)]
        chosen == {n \in DOMAIN i.sel : i.sel[n][1] <= v /\ v <= i.sel[n][2]}
        default == {n \in DOMAIN i.sel : i.sel[n][2] < i.sel[n][1]}
        Pick(S) == CHOOSE n \in S : TRUE
    IN  IF m.i > Len(h.insns[m.b]) THEN Stop("stuck", None, <<>>)
        ELSE IF i.bb # m.b THEN [m EXCEPT !.i = @ + 1]
        ELSE CASE i.op = "entry" -> next
               [] i.op = "load" /\ i.sym \in Volatile -> Stop("call", i.sym, Look(m.mem, Visible))
               [] i.op = "store" /\ i.sym \in Volatile ->
                    Stop("store", i.sym, <<v>> \o Look(m.mem, Visible))
               [] i.op = "load" -> [next EXCEPT !.reg[id] = m.mem[i.sym]]
               [] i.op = "store" -> [next EXCEPT !.mem[i.sym] = v]
               [] i.op \in {"set_eq", "set_ne"} ->
                    LET w == Value(m, i.args[2])
                    IN  [next EXCEPT !.reg[id] =
                            IF Undef \in {v, w} THEN Undef
                            ELSE IF (v = w) = (i.op = "set_eq") THEN 1 ELSE 0]
               [] i.op = "sel" ->
                    [next EXCEPT !.reg[id] = IF v = Undef THEN Undef
                                             ELSE Value(m, i.args[IF v # 0 THEN 2 ELSE 3])]
               [] i.op = "phisrc" ->
                    [next EXCEPT !.place = [p \in DOMAIN @ |->
                        IF /\ h.insn[p].op = "phi"
                           /\ Contains(h.insn[p].args, [kind |-> "phi", nr |-> id])
                        THEN v ELSE @[p]]]
               [] i.op = "phi" -> [next EXCEPT !.reg[id] = m.place[id]]
               [] i.op = "copy" -> IF i.target.kind = "tmp" THEN [next EXCEPT !.place[i.target.nr] = v]
                                   ELSE [next EXCEPT !.reg[i.target.nr] = v]
               [] i.op = "deathnote" -> [m EXCEPT !.i = @ + 1, !.dying = @ \cup {i.target}]
               [] i.op = "call" ->
                    Stop("call", i.sym, [n \in DOMAIN i.args |-> Value(m, i.args[n])]
                                            \o Look(m.mem, Visible))
               [] i.op = "ret" -> Stop("return", None, <<v>> \o Look(m.mem, Global))
               [] i.op = "br" /\ Len(i.to) = 1 -> Jump(i.to[1])
               [] OTHER ->
                    IF v = Undef THEN Stop("undefined", None, <<>>)
                    ELSE IF i.op = "br" THEN Jump(IF v # 0 THEN i.to[1] ELSE i.to[2])
                    ELSE IF i.op = "computedgoto" THEN Jump(i.to[(v % Len(i.to)) + 1])
                    ELSE Jump(i.to[Pick(IF chosen # {} THEN chosen ELSE default)])

RECURSIVE GoFor(_, _, _)
GoFor(h, m, n) ==
    IF m.obs # Silent THEN m
    ELSE IF n = 0 THEN [m EXCEPT !.obs = Shows("diverges", None, <<>>)]
    ELSE GoFor(h, Execute(h, m), n - 1)

Go(h, m) == GoFor(h, m, MaxSilent)

\* The call that m is at has been answered.
GoOn(h, m, r, world) ==
    Go(h, [Buried(m) EXCEPT !.i = @ + 1, !.reg[h.insns[m.b][m.i]] = r, !.obs = Silent,
                    !.mem = [s \in Syms |-> IF s \in Visible THEN world[s] ELSE @[s]]])
=============================================================================
