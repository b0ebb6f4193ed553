SPECIFICATION Spec
CONSTANTS
    H1 = H1
    H2 = H2
    W1 = W1
    W2 = W2
    NoHost = NoHost
    NoBackend = NoBackend
    NoSecret = NoSecret
    Dashed <- MCDashed
    YamlNumbers <- MCYamlNumbers
    AppIDName <- MCAppIDName
    Pieces <- MCPieces
    Wildcards <- MCWildcards
    Suffixes <- MCSuffixes
    Stripped <- MCStripped
    Inputs <- TwoIngresses
INVARIANTS
    EveryLocationOnce
