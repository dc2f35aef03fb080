SPECIFICATION LiveProviderSpec
CONSTANTS
    ref = ref
    macro = macro
    table = table
    Calls <- MCCalls
    TableKeys <- MCTables
    Shaped <- MCShaped
INVARIANTS
    ProviderTypeOK
    NothingElseIsLost
PROPERTIES
    ListedKeysAreFetched
    StaleAnswersGetCorrected
VIEW VersionBit
