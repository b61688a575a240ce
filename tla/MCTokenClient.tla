---------------------------- MODULE MCTokenClient ----------------------------
EXTENDS TokenClient

\* No lifetime, and ones below, at, just above and well above the buffer of 3.
SomeLifetimes == {0, 1, 3, 4, 7}
=============================================================================
