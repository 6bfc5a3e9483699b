SPECIFICATION Spec
CONSTANTS
    Docs <- MCDocs
    Wirings <- MCWirings
INVARIANTS
    TypeOK
    NoForbiddenNull
    NullsCaused
    ErrorsOnce
    EffectsInOrder
PROPERTY Answered
