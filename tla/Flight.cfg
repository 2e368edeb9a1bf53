\* One payload: t3 runs beside a flight when it comes with retained handles,
\* which take no part in the flights of the others.
CONSTANTS
    t1 = t1
    t2 = t2
    t3 = t3
    p1 = p1
    Thread <- Threads
    Payload = {p1}
    Carrier = {t3}
    Code = {"lock"}
    MaxFlights = 2
    MaxReaders = 1
SPECIFICATION FairSpec
INVARIANT FlightInv
PROPERTIES  CallsReturn
CHECK_DEADLOCK FALSE
