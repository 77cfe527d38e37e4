CONSTANTS
    g = g
    h = h
    None = None
    Macros <- MCMacros
    BuiltinMacros <- MCBuiltin
    Conds <- MCConds
    Main = main
    Headers = {hdr}
    ppnoopt = FALSE
    MaxNest <- MCMaxNest
    MaxDepth = 2
    MaxStreams = 1
SPECIFICATION GuardSpec
INVARIANT GuardTypeOK
INVARIANT GuardSound
INVARIANT GuardEffective
