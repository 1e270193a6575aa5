SPECIFICATION Spec
INVARIANTS ScalarRoundTrip TimestampTruncatesDown DecodedTypeDetected
