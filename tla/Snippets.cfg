SPECIFICATION Spec
CONSTANTS
    All = All
    Every = Every
    Free = Free
    AuthLike <- MCAuthLike
    Ingresses <- Apart
INVARIANTS
    TypeOK
    SnippetIsOwn
    AuthHasSnippet
