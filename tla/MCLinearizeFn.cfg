CONSTANTS
    va = va
    vb = vb
    vx = vx
    vy = vy
    vg = vg
    ve = ve
    vv = vv
    fany = fany
    fask = fask
    fuse = fuse
    R = R
    L1 = L1
    L2 = L2
    Brk = Brk
    Cont = Cont
    C1 = C1
    C2 = C2
    D = D
    None = None
    Programs <- MCPrograms
    Labels = {R, L1, L2, Brk, Cont, C1, C2, D}
    Syms = {va, vb, vx, vy, vg, ve, vv}
    Fns = {fany, fask, fuse}
    Params <- MCParams
    Nonlocal = {vg, vv}
    Addressable = {ve}
    Volatile = {vv}
    Values = {0, 1}
    Undef = 9
    MaxSilent = 60
SPECIFICATION FairSpec
INVARIANT FnTypeOK
INVARIANT SameBehaviour
INVARIANT NoFault
INVARIANT EdgesAgree
INVARIANT UsesDefined
INVARIANT NeedsExact
PROPERTY Optimized
