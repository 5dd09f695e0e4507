SPECIFICATION ObjectsSpec
CONSTANTS
    Absent = Absent
    Keys = {"k1", "k2"}
    Passwords = {"p", "q"}
    MaxAccounts = 3
    MaxAsync = 2
    Contexts = {web3, eth, contractContext}
    Root = web3
    Providers = {node1}
    Assignments <- MCAssignments
    Nothing = Nothing
    MaxCalls = 4
    Networks = {1, 7}
    Resolvers = {r1}
    Values = {v1, v2}
    MaxLookups = 1
    MaxChecks = 2
    MaxNetworkChanges = 2
    Throws = Throws
    Table = Table
    Unset = Unset
    Commons = {own, copied}
    ChainNames = {"mainnet", "goerli"}
    Hardforks = {"istanbul", "berlin"}
    EipLists <- MCEipLists
    BlockNumbers = {2000000, 12965000}
    MaxCommonCalls = 5
    Omitted = Omitted
    Arrange <- MCArrange
    Validates <- MCValidates
    MaxChanges = 1
    Interfaces <- MCInterfaces
    Beginnings <- MCBeginnings
    CallOptions <- MCCallOptions
    Arguments <- MCArguments
    DeployOptions <- MCDeployOptions
    Filters <- MCFilters
    Logs <- MCLogs
INVARIANT NamedMethodCalled
CHECK_DEADLOCK FALSE
