CONSTANTS
    Listed = {"TEL", "AC", "ACPB"}
    Unlisted = {"XXX"}
    Company <- MCCompany
    None = None
    PortfolioPages <- MCPortfolioPages
    MarketPages <- MCMarketPages
    Tickers = {"BDO", "AT"}
    Sectors = {"Banks", "Mining"}
    Ratings = {"BUY", "SELL"}
    GuideTables <- MCGuideTables
    MaxEditions = 2
    Asked = {"first", "second"}
    Answers <- MCAnswers
    Limit = 2
SPECIFICATION PartsSpec
INVARIANT EquitiesTotalKept
CHECK_DEADLOCK FALSE
