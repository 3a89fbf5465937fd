\* Reminders become notifications while jobs are handed out twice, workers
\* die and browsers come and go.
SPECIFICATION Spec
CONSTANTS
    k1 = k1
    e1 = e1
    b1 = b1
    b2 = b2
    Reminders = {k1}
    Events = {e1}
    Clients = {b1, b2}
    MaxConnects = 2
    MaxFaults = 3
INVARIANTS
    TypeOK
    CompletedIsNotified
    ShownIsStored
PROPERTIES
    NotifiedOnce
    RemindedInTheEnd
CHECK_DEADLOCK FALSE
