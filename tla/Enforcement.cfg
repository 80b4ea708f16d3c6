SPECIFICATION FairSpec
CONSTANTS
    h1 = h1
    h2 = h2
    Hooks <- MCHooks
    Questions <- MCQuestions
    NoCheckout = NoCheckout
    Bar = "|"
    Escape = "%7C"
    Decisions = {"block"}
    Window = 2
    CacheTtl = 3
    NoAdvice = NoAdvice
    Advice <- MCAdvice
    Cooldown = 1
    MaxEntries = 1
    HookLife = 1
    MaxFaults = 1
INVARIANTS AnswersTheQuestion ServedWhileFresh
PROPERTY ExpiredLeave
