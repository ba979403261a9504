----------------------------- MODULE MCSdDiskIo -----------------------------
EXTENDS SdDiskIo
=============================================================================
