---------------------------- MODULE MCServeAudio ----------------------------
EXTENDS ServeAudio, TLC
=============================================================================
