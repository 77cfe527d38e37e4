CONSTANTS
    g = g
    None = None
    Macros <- MCMacros
    BuiltinMacros = {}
    Conds <- MCConds
    Main = main
    Headers = {hdr}
    ppnoopt = FALSE
    MaxNest <- MCMaxNest
    MaxDepth = 3
    MaxStreams = 1
SPECIFICATION Spec
INVARIANT TypeOK
INVARIANT NestingOK
PROPERTY ImplementsCondSpec
