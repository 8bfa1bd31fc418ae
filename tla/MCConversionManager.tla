-------------------------- MODULE MCConversionManager --------------------------
EXTENDS ConversionManager
================================================================================
