---------------------------- MODULE MCConversion ----------------------------
EXTENDS Conversion

\* Every value of an int16_t.
AllSamples == (-32768) .. 32767
=============================================================================
