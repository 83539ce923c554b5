CONSTANT Quotes <- MCQuotes
CONSTANT MalformedPem = MalformedPem
INIT RegInit
NEXT RegNext
INVARIANT OkMeansRegistered
CHECK_DEADLOCK FALSE
