---------------------------- MODULE MCStageLedger ----------------------------
EXTENDS StageLedger, TLC
=============================================================================
