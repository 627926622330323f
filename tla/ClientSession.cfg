\* Three instances: late answers of two requests around a logout; two callers who share a flight
\* while the login changes; two flights, of which one replaces the other.
SPECIFICATION MCSpec
CONSTANTS
    s1 = s1
    s2 = s2
    r1 = r1
    r2 = r2
    f1 = f1
    f2 = f2
    c1 = c1
    c2 = c2
    Scopes = {s1, s2}
    NoScope = NoScope
    Requests = {r1, r2}
    Flights = {f1, f2}
    Callers = {c1, c2}
    None = None
    Instances <- AllInstances
INVARIANTS NoRevival CallersGetTheirScope NothingUnwatched
PROPERTIES OldAnswersChangeNothing CallsEnd
