------------------------------- MODULE MCPowUI -------------------------------
\* Exponents up to past twice the order of the field with 25 elements.
EXTENDS PowUI

MCExponent == 0 .. 60
=============================================================================
