\* The three modes: clients leave between messages and join at any moment, in justo between
\* messages.
CONSTANTS
    s1 = s1
    s2 = s2
    s3 = s3
    p1 = p1
    p2 = p2
    t1 = t1
    t2 = t2
    Subscribers = {s1, s2, s3}
    Publishers = {p1, p2}
    Topics = {t1, t2}
    TopicOf <- MCOneTopic
    MaxTopics = 2
    MaxSubscribers = 3
    MaxPublishers = 2
    Overlap = {"join"}
    Quitters = {s1}
    Crashers = {}
    NoSocket = NoSocket
    NoOne = NoOne
    Modes = {"secuencial", "paralelo", "justo"}
    Parties <- MCTwoOrThree
    Undisturbed = {"justo"}
    MaxMessages = 1
    SpuriousWakeups = FALSE
SPECIFICATION BrokerFairSpec
CHECK_DEADLOCK FALSE
PROPERTY ImplementsPubSub
PROPERTY PublishEnds
INVARIANT AnswerComesFirst
INVARIANT NobodyIsFirst
INVARIANT SubscribersAgree
