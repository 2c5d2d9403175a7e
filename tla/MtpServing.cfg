SPECIFICATION FairSpec
CONSTANTS
    a = a
    b = b
    think = think
    unthink = unthink
    eog = eog
    x = x
    y = y
    nl = nl
    r1 = r1
    Tokens = {a, b, think, eog}
    Eog = eog
    Garbled = b
    Target <- MCTarget
    Prompts <- MCPrompts
    NGen = {1, 3}
    NMax = 2
    NCtx = 6
    NBatch = 2
    Kinds <- MCKinds
    MayFail = TRUE
    Retains = FALSE
    Nobody = Nobody
    Reqs = {r1}
    Text <- MCText
    Open = Open
    Close = Close
    Blanks = {nl}
    Notice <- MCNotice
    Strips = {TRUE, FALSE}
INVARIANTS
    LoopInvariant
    AnswerIntact
    CleanIsComplete
PROPERTIES
    ImplementsGreedy
    EveryStreamEnds
