------------------------------- MODULE MCSrtp -------------------------------
EXTENDS SrtpStream
=============================================================================
