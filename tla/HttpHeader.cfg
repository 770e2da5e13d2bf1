CONSTANT Lengths = {0, 7, 36, 123, 4096, 12345678, 999999999, 1000000000}
SPECIFICATION Spec
INVARIANT TemplateIntact
INVARIANT HeaderMatches
PROPERTY LengthWritten
