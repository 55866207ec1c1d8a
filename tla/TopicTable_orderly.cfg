\* Clients register at any moment and leave one at a time; one may die.
CONSTANTS
    s1 = s1
    s2 = s2
    s3 = s3
    s4 = s4
    p1 = p1
    t1 = t1
    t2 = t2
    Subscribers = {s1, s2, s3, s4}
    Publishers = {p1}
    Topics = {t1, t2}
    TopicOf <- MCOneAndAnother
    MaxTopics = 2
    MaxSubscribers = 3
    MaxPublishers = 1
    Overlap = {"join"}
    Quitters = {s1, s2, p1}
    Crashers = {s3}
    NoSocket = NoSocket
    NoOne = NoOne
SPECIFICATION FairSpec
CHECK_DEADLOCK FALSE
INVARIANT TypeOK
 
 
 
PROPERTY RegistrationIsAnswered
 
