SPECIFICATION MCSpec
CONSTANTS
    Parts = {"dialog"}
    MaxActiveSessions = 2
    MaxSessions = 3
    MaxPasswords = 1
    SessionRequests = {h1, h2}
    MaxVerifyAttempts = 2
    MaxCodes = 2
    OtpRequests = {h1, h2}
    MaxFailedLogins = 2
    MaxAttemptRows = 4
    MaxCounted = 3
    Instances = {i1, i2}
    LoginRequests = {h1, h2}
    Rounds = {r1, r2, r3}
    MaxTokens = 5
    NoToken = NoToken
    MaxMessages = 3
    Writers = {h1, h2}
    CloseJobs = {r1, r2}
    MaxMedia = 2
    Uploads = {u1}
    MediaDeletions = {h1, h2}
    MaxConversations = 2
    Incoming = {h1, h2}
    OperatorRequests = {o1}
    Updates <- UpdateKinds
    Handlers = {h1, h2}
    Poller = Poller
    MaxFailures = 2
    Goods = {1, 2, 3}
    NameTerms = {"shoe", "bag"}
    AttributeTerms = {"black"}
    Describes <- TermsOf
    MaxOptions = 1
    MaxTurns = 4
    x = x
    y = y
    Root = Root
    MaxCategories = 3
    TreeHandlers = {h1, h2}
    MaxTreeChanges = 2
    NoTree = NoTree
    Slugs = {x, y}
    ContentInputs <- MCContentInputs
    PageHandlers = {h1, h2}
    MaxContentChanges = 2
    MaxViews = 1
    AnySlug = AnySlug
    NoRow = NoRow
    NoPage = NoPage
    NotFound = NotFound
    MaxStored = 3
    ReplyRequests = {h1, h2}
INVARIANT
    AnswerNarrowsSearch
SYMMETRY Alike
CHECK_DEADLOCK FALSE
