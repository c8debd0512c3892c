------------------------------- MODULE MCAura -------------------------------
EXTENDS Aura

CONSTANTS a, b, c

InOrder == <<a, b, c>>
=============================================================================
