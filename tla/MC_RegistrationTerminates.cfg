CONSTANT Quotes <- MCQuotes
CONSTANT MalformedPem = MalformedPem
SPECIFICATION ClientFairSpec
PROPERTY RegistrationTerminates
CHECK_DEADLOCK FALSE
