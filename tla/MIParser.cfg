SPECIFICATION MPSpec
CONSTANTS
    Strings <- Quoted
    ParseLine <- LineRecords
    ParseRaises <- OddToken
    Writings <- AllWritings
    MaxChunk = 3
INVARIANT RecordsOfLines
