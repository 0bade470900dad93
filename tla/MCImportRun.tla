---------------------------- MODULE MCImportRun ----------------------------
EXTENDS ImportRun

CONSTANTS a1, a2, r1
=============================================================================
