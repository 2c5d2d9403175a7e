SPECIFICATION Spec
CONSTANTS
    a = a
    b = b
    think = think
    unthink = unthink
    eog = eog
    x = x
    y = y
    nl = nl
    r1 = r1
    Tokens = {a, b, think, unthink, eog}
    Eog = eog
    Garbled = b
    Target <- ThinkTarget
    Prompts <- ThinkPrompts
    NGen = {5}
    NMax = 1
    NCtx = 9
    NBatch = 2
    Kinds <- MCKinds
    MayFail = FALSE
    Retains = FALSE
    Nobody = Nobody
    Reqs = {r1}
    Text <- MCText
    Open = Open
    Close = Close
    Blanks = {nl}
    Notice <- MCNotice
    Strips = {TRUE}
INVARIANT AnswerIntact
