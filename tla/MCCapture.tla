---------------------------- MODULE MCCapture ----------------------------
EXTENDS Capture
=============================================================================
