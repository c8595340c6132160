SPECIFICATION Spec
CONSTANTS
    Requests = {r1, r2, r3}
INVARIANT StoresOutliveHandlers
INVARIANT StopInvariant
INVARIANT CleanExitAnswersAll
INVARIANT ReturnsClosed
PROPERTY StopIsObeyed
