\* A run that is refused ends.
SPECIFICATION ConfigureSpec
CONSTANTS
    MaxWords = 5
    MaxTokens = 7
    Words <- MC_Words
    Argvs <- MC_Argvs
    Dashed <- MC_Dashed
    Names <- MC_Names
    Tokens <- MC_Tokens
    Text <- MC_Text
CHECK_DEADLOCK FALSE
INVARIANTS ConfigureTypeOK ReadAsMeant AcceptedAsWritten StartedAsTyped ImportedIsFound
PROPERTIES Ends
