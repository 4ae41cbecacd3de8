SPECIFICATION Spec
CONSTANTS
    Letter = Letter
    Space = Space
    MaxLength = 7
    Texts <- ShortTexts
    Sizes <- SmallSizes
CHECK_DEADLOCK FALSE
INVARIANTS
    TypeOK
    PhrasesStayWhole
    ChunksFit
    NothingLost
    ChunksBringText
PROPERTIES
    WindowsAdvance
