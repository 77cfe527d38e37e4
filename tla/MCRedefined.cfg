CONSTANTS
    x = x
    NoBody = NoBody
    Idents <- MCIdents
    Bodies = {b1, b2}
    Attrs <- MCAttrs
    MaxSyms = 4
    MaxScopes = 5
SPECIFICATION Spec
PROPERTY OnlyDefinedIsRedefined
