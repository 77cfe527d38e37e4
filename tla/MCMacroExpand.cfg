CONSTANTS
    Texts <- MCTexts
    Paste <- MCPaste
    Programs <- MCPrograms
    MaxTokens = 16
SPECIFICATION FairSpec
INVARIANT TypeOK
INVARIANT TaintIsBalanced
PROPERTY NeverWithinItself
PROPERTY HiddenOnlyWithinItself
PROPERTY Terminates
CHECK_DEADLOCK FALSE
