SPECIFICATION MCSpec
PROPERTY SpawnsSound
PROPERTY InboxKept
PROPERTY LinksSound
PROPERTY ServicesSettle
CHECK_DEADLOCK FALSE
