CONSTANT Quotes <- MCQuotes
CONSTANT MalformedPem = MalformedPem
INIT Init
NEXT Next
CHECK_DEADLOCK FALSE
PROPERTY DecoderImplementsSpec
