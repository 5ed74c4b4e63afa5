SPECIFICATION Spec
CONSTANT MaxAccepts = 3
INVARIANTS TypeOK QueueNotShared EveryClientOnce
PROPERTIES HandBackEmpty BuiltInTurn MailboxSpec BuiltIsListed ClosedIsDestroyed
