CONSTANTS
    Services = {"api", "app"}
    MaxHandlers = 2
    Faults = {"setup", "factory", "stat", "statShutdown", "http", "service"}
SPECIFICATION Spec
CHECK_DEADLOCK FALSE
INVARIANTS TypeOK RoutedWhenReady ShutdownInOrder
PROPERTIES SignalEnds FailureEnds
