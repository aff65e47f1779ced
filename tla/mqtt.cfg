CONSTANTS
  Instances = {i1, i2}
  Clients = {x1, x2}
  MsgIds = {m1}
  Keys = {k1}
  ThingIds = {t1}
  ChanIds = {"c1"}
  None = None
  Topics <- MCTopics
  Filters <- MCFilters
  Subtopics <- MCSubtopics
  Types <- MCTypes
SPECIFICATION FairSpec
INVARIANTS TypeOK DeliveryWasAuthorised PublishedWasAuthorised DeliveredOnce
  StreamKnowsConnected TopicReadsBack
PROPERTY OtherDelivered
CHECK_DEADLOCK FALSE
