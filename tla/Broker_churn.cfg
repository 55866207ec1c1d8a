\* The three modes: clients join, leave and die at any moment, and waits end spuriously.
CONSTANTS
    s1 = s1
    s2 = s2
    s3 = s3
    p1 = p1
    p2 = p2
    t1 = t1
    t2 = t2
    Subscribers = {s1, s2, s3}
    Publishers = {p1, p2}
    Topics = {t1, t2}
    TopicOf <- MCTwoTopics
    MaxTopics = 2
    MaxSubscribers = 2
    MaxPublishers = 1
    Overlap = {"join", "leave"}
    Quitters = {s1}
    Crashers = {p1}
    NoSocket = NoSocket
    NoOne = NoOne
    Modes = {"secuencial", "paralelo", "justo"}
    Parties <- MCChurn
    Undisturbed = {}
    MaxMessages = 2
    SpuriousWakeups = TRUE
SPECIFICATION BrokerSpec
CHECK_DEADLOCK FALSE
INVARIANT TopicIsolation
INVARIANT DeliveredInTopic
INVARIANT JustThreadsExact
 
INVARIANT StreamsInOrder
