SPECIFICATION FairSpec
CONSTANTS
    Height = 2
    Width = 2
    VirtualWidth = 5
    RowGap = 4
    Byte = 24
    Printable <- SmallPrintable
    Blank = " "
    Tokens <- SmallTokens
    MaxTokens = 4
INVARIANTS
    ShowsText
PROPERTIES
    LinesEndTogether
