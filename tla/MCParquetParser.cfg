\* Two parsers (one forked), files of up to two chunks, three parse calls.
CONSTANTS
    p0 = p0
    p1 = p1
    corrupt = corrupt
    Parsers <- MCParsers
    First = p0
    Corrupt = corrupt
    MaxChunks <- MCMaxChunks
    MaxParses <- MCMaxParses

SPECIFICATION Spec

INVARIANT ParseAccountsEveryChunk

\* The controller stops feeding files after MaxParses calls.
CHECK_DEADLOCK FALSE
