SPECIFICATION Spec
CONSTANTS
    All = All
    Every = Every
    Free = Free
    AuthLike <- MCAuthLike
    Ingresses <- TwoRequests
INVARIANTS
    SnippetIsOwn
