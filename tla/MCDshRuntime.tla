---------------------------- MODULE MCDshRuntime ----------------------------
EXTENDS DshRuntime
=============================================================================
