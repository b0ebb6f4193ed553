SPECIFICATION Spec
CONSTANTS
    All = All
    Every = Every
    Free = Free
    AuthLike <- MCAuthLike
    Ingresses <- SharedRoom
INVARIANTS
    SnippetIsOwn
