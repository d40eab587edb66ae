SPECIFICATION Spec
CONSTANTS
    ann = ann
    bob = bob
    x = x
    y = y
    why = why
    bos = bos
    Client = {ann, bob}
    Question <- MCQuestion
    Answers <- MCAnswers
    BOS = bos
    Tokens = {x, y, why, bos}
    MetaWords = 1
    SentDims = 2
    ExpectedDims = 1
    MayDie = {ann}
    WordSize = 2
INVARIANTS
    QueryWhole
    ContextWhole
    PromptWhole
PROPERTIES
    QuestionEnds
CHECK_DEADLOCK FALSE
