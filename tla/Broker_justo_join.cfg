\* justo: clients join at any moment.
CONSTANTS
    s1 = s1
    s2 = s2
    s3 = s3
    p1 = p1
    p2 = p2
    t1 = t1
    t2 = t2
    Subscribers = {s1, s2}
    Publishers = {p1}
    Topics = {t1, t2}
    TopicOf <- MCOneTopic
    MaxTopics = 2
    MaxSubscribers = 3
    MaxPublishers = 2
    Overlap = {"join"}
    Quitters = {}
    Crashers = {}
    NoSocket = NoSocket
    NoOne = NoOne
    Modes = {"justo"}
    Parties <- MCEverybody
    Undisturbed = {}
    MaxMessages = 1
    SpuriousWakeups = FALSE
SPECIFICATION BrokerFairSpec
CHECK_DEADLOCK FALSE
PROPERTY PublishEnds
