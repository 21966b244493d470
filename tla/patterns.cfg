SPECIFICATION Spec
CONSTANTS
    Letters = {"a", "d", "e", "k", "l"}
    Documents <- MCDocuments
    Mistakes <- MCMistakes
    Malformed <- MCMalformed
    MatchPaths <- MCMatchPaths
    Values <- MCValues
    Means <- MCMeans
    None = None
CHECK_DEADLOCK FALSE
INVARIANTS TypeOK ParsedAsDocumented MistakesRefused MatchedAsDocumented PathIsMatched
