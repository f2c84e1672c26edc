SPECIFICATION Spec
CONSTANTS
    Names = {"tool", "rel", "set", "lenient", "default", "twice", "alias", "taken", "order", "itself", "nobody"}
    Program <- MCProgram
    Words <- MCWords
    Environments <- MCEnvironments
    Files <- MCFiles
    MaxWords = 3
    Available = {"json", "toml", "yaml", "binary"}
INVARIANTS Precedence WordsFollowTheSchema ResultsAreChecked
