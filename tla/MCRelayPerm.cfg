\* Three goroutines and a minute of three ticks.
SPECIFICATION PermSpec
CONSTANTS
    Handlers = {h1, h2, h3}
    Keep = 3
SYMMETRY Sym
INVARIANTS AnswersFresh
