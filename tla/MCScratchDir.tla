---------------------------- MODULE MCScratchDir ----------------------------
EXTENDS ScratchDir
=============================================================================
