CONSTANTS
    Chars = {"/", "!", "=", "%", "x"}
    MaxLen = 4
    HeaderChars = {" ", "b", "B", "x", "nv"}
    MaxHeaderLen = 7
    Keyword <- MCKeyword
    NoHeader = NoHeader
    Unauthorized = Unauthorized

SPECIFICATION ParsersSpec
INVARIANT ParseMatchesGrammar
INVARIANT FormatRoundTrips
INVARIANT AuthTokenMatchesGrammar
