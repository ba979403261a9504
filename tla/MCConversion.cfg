SPECIFICATION Spec
CONSTANT Sample <- AllSamples
INVARIANTS ReadsBack NeverMisread
