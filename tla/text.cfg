SPECIFICATION TextSpec
CONSTANTS
    Inputs <- Lists
    Bases <- Pages
    Stripped <- Tracking
    Empty = ""
    Chars <- Alphabet
    Alphanumeric <- Letters
    Bytes <- Utf8
    Width = 3
    HashOf <- Hash
    Threshold = 2
    Texts <- Contents
    Stored <- AllWords
INVARIANTS
    NormalIsStable
    SpellingsAreOne
    LinksAreLikeSeeds
    TokensAreWords
    MajorityRules
    SimilarIsNear
CHECK_DEADLOCK FALSE
