CONSTANT Quotes <- MCQuotes
CONSTANT MalformedPem = MalformedPem
INIT RegInit
NEXT RegNext
INVARIANT RegTypeOK
INVARIANT RequestOnlyForAcceptedQuote
CHECK_DEADLOCK FALSE
