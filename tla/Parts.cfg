CONSTANTS
    Listed = {"TEL", "AC", "ACPB"}
    Unlisted = {"XXX"}
    Company <- MCCompany
    None = None
    PortfolioPages <- MCPortfolioPages
    MarketPages <- MCMarketPages
    Tickers = {"BDO", "AT"}
    Sectors = {"Banks", "Mining"}
    Ratings = {"BUY", "SELL"}
    GuideTables <- MCGuideTables
    MaxEditions = 2
    Asked = {"first", "second"}
    Answers <- MCAnswers
    Limit = 2
SPECIFICATION PartsSpec
INVARIANTS
    NamedDataIsRight UnknownNeverMislabeled UndisturbedDataIsRight
    SectionsRight TotalsRight
    RowsKept SignsRight DirectionsRight
    DateNeverOlder ListingRight
    ChunksTile ShownInOrder NothingLost
CHECK_DEADLOCK FALSE
