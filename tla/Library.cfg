SPECIFICATION LibrarySpec
CONSTANTS
    Omitted = Omitted
    Unset = Unset
    NotGiven = NotGiven
    Messages <- MCMessages
    Signers = {"k1", "k2"}
    KeyInputs <- MCKeyInputs
    StoreWords = {"p", "q"}
    StoreOptions <- MCStoreOptions
    Throws = Throws
    Table = Table
    Chars = {1, 9, 10, 35}
    Amounts <- MCAmounts
    ArgumentLists <- MCArgumentLists
    Forks <- MCForks
    WORD_SIZE = 3
    AbiTypes <- MCAbiTypes
    TypedTypes <- MCTypedTypes
    Blocks <- MCBlocks
    Providers <- MCProviders
    MaxSettings = 1
    Null = Null
    Empty = Empty
    Requests <- MCRequests
    Contexts <- MCContexts
    Signer = "signer"
    Sponsor = "sponsor"
    NodeNonce = 0
    NodeChainId = 5
    NodeNetworkId = 9
    NodeGasPrice = 3
    NodeGas = 9
    BaseFees <- MCBaseFees
    IntrinsicGas = 2
INVARIANTS
    FormatsFaithfully
    NumbersExact
    SignersRecovered
    Validated
    DecodesWhatWasEncoded
    TypedDataToldApart
    ChainsDescribed
    AsksForItsBlock
    AnsweredFaithfully
    SendersRecovered
    SignsWhatWasAsked
    NeverOverpays
CHECK_DEADLOCK FALSE
