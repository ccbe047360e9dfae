-------------------------- MODULE MCLatchingSignal --------------------------
EXTENDS LatchingSignal

=============================================================================
