SPECIFICATION Spec
CONSTANTS
    kid = kid
    oldKey = oldKey
    newKey = newKey
    adminToken = adminToken
    ingestToken = ingestToken
    glassToken = glassToken
    dottedToken = dottedToken
    viewerJwt = viewerJwt
    adminJwt = adminJwt
    operator = operator
    colleague = colleague
    Callers <- MCCallers
    Kids <- MCKids
    Keys <- MCKeys
    NoKey = NoKey
    FreshFor = 1
    FetchTime = 1
    MaxTime = 3
    Tokens <- MCTokens
    NoToken = NoToken
    JWTs <- MCJWTs
    Jwt <- MCJwt
    Configs <- MCConfigs
    Offers <- MCOffers
    MaxOwed = 1
    Crashes = FALSE
CHECK_DEADLOCK FALSE
PROPERTIES AnalysesAreAudited
