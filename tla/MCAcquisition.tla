---------------------------- MODULE MCAcquisition ----------------------------
EXTENDS AcquisitionProps
=============================================================================
