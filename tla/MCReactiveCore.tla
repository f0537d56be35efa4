--------------------------- MODULE MCReactiveCore ---------------------------
EXTENDS ReactiveCore
=============================================================================
